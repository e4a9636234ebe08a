-------------------------- MODULE ActuationProofs --------------------------
(***************************************************************************)
(* Cooldowns are respected for every number of workloads and pods, every   *)
(* length of the cooldowns, and under errors and restarts.                 *)
(***************************************************************************)
EXTENDS Actuation, TLAPS

\* Ages stay within their saturation bound when time is added.
LEMMA OlderType ==
  ASSUME NEW a \in Ages, NEW t \in Nat
  PROVE  Older(a, t) \in Ages
BY ActuationAssumption DEF Ages, Older

AgeTable == [Workloads -> [Directions -> Ages]]

\* Stamping an age table changes the chosen directions of one workload only.
LEMMA StampedAge ==
  ASSUME NEW f \in AgeTable, NEW w \in Workloads, NEW ds
  PROVE  /\ Stamped(f, w, ds) \in AgeTable
         /\ \A x \in Workloads, d \in Directions :
              Stamped(f, w, ds)[x][d] = IF x = w /\ d \in ds THEN 0 ELSE f[x][d]
<1>1. 0 \in Ages
  BY ActuationAssumption DEF Ages
<1> QED
  BY <1>1 DEF Stamped, AgeTable

\* A pass that walks pods walks those of a matched workload.
WalkOK == /\ pc = "pods" => wl \in Workloads
          /\ pc # "pods" => dirs = {} /\ denied = {}

\* Every stamp that was not lost is the age of the last resize made, except in
\* the walk that has made the resize and not closed yet.
StampsOK ==
  \A w \in Workloads, d \in Directions :
    IF pc = "pods" /\ w = wl /\ d \in dirs
    THEN since[w][d] = 0
    ELSE <<w, d>> \in lost \/ since[w][d] = age[w][d]

\* What the walk grants and denies agrees with the tracker, which does not
\* change during the walk.
GrantsOK ==
  pc = "pods" => /\ \A d \in dirs : Allow(wl, d)
                 /\ \A d \in denied : ~Allow(wl, d)

Inv == TypeOK /\ WalkOK /\ StampsOK /\ GrantsOK

---------------------------------------------------------------------------
\* The initial state satisfies the invariant: the tracker is empty.
LEMMA InvInit == Init => Inv
BY ActuationAssumption
   DEF Init, Inv, TypeOK, WalkOK, StampsOK, GrantsOK, Ages, Needs, Workloads, Directions,
       HPAStates

\* The worse of two HPA states is one of them.
LEMMA WorseType ==
  ASSUME NEW a \in HPAStates, NEW b \in HPAStates
  PROVE  Worse(a, b) \in HPAStates
BY DEF Worse

\* Every step keeps the types, and the walk within the list of workloads.
LEMMA TypeStep ==
  ASSUME TypeOK, WalkOK, [Next]_vars
  PROVE  TypeOK' /\ WalkOK'
<1> USE ActuationAssumption
<1>1. CASE StartPass
  <2>1. PICK t \in 1..Cap : age' = Aged(age, t) /\ since' = Aged(since, t)
    BY <1>1 DEF StartPass
  <2>2. /\ Aged(age, t) \in [Workloads -> [Directions -> Ages]]
        /\ Aged(since, t) \in [Workloads -> [Directions -> Ages]]
    BY <2>1, OlderType DEF Aged, TypeOK
  <2>3. mode' \in UpdateModes
    BY <1>1, Zenon DEF StartPass, ActuationAssumption
  <2>4. cooldown' \in [Directions -> Ages]
    BY <1>1 DEF StartPass, Ages
  <2> QED
    BY <1>1, <2>1, <2>2, <2>3, <2>4
       DEF StartPass, TypeOK, WalkOK, Workloads, HPAStates, walk, status
<1>16. CASE OffPass
  BY <1>16 DEF OffPass, UpdateModes, TypeOK, WalkOK, walk, found, status, tracker
<1>2. CASE SkipWorkload
  BY <1>2 DEF SkipWorkload, NextWorkload, TypeOK, WalkOK, Workloads, spec, walk, found,
              status, tracker
<1>15. CASE PauseWorkload
  <2>1. worst' \in HPAStates
    BY <1>15, WorseType DEF PauseWorkload, TypeOK, HPAStates
  <2> QED
    BY <1>15, <2>1 DEF PauseWorkload, NextWorkload, TypeOK, WalkOK, Workloads, spec, walk,
                       status, tracker
<1>3. CASE OpenWorkload
  <2>1. worst' \in HPAStates
    BY <1>3, WorseType DEF OpenWorkload, Calm, TypeOK, HPAStates
  <2> QED
    BY <1>3, <2>1 DEF OpenWorkload, TypeOK, WalkOK, Workloads, spec, status, tracker
<1>4. CASE CloseWorkload
  <2>1. wl \in Workloads /\ wl + 1 \in 1..(NumWorkloads + 1)
    BY <1>4 DEF CloseWorkload, WalkOK, Workloads
  <2>2. Stamped(age, wl, dirs) \in [Workloads -> [Directions -> Ages]]
    BY <2>1, StampedAge DEF TypeOK, AgeTable
  <2> QED
    BY <1>4, <2>1, <2>2 DEF CloseWorkload, TypeOK, WalkOK, spec, found, status
<1>5. CASE EndPass
  BY <1>5 DEF EndPass, Leave, TypeOK, WalkOK, HPAStates, spec, walk, tracker
<1>6. CASE WorkloadError \/ PatchError
  BY <1>6 DEF WorkloadError, PatchError, Leave, TypeOK, WalkOK, HPAStates, spec, walk,
              status, tracker
<1>7. ASSUME NEW p \in Pods, VisitPod(p)
      PROVE  TypeOK' /\ WalkOK'
  <2>1. wl \in Workloads
    BY <1>7 DEF VisitPod, LeavePod, RecreateBlocked, EvictPod, ReportInfeasible,
                BumpPod, ResizePod, HoldPod, EvictUnnoticed, Visiting, WalkOK
  <2>2. \A d \in Directions :
          Stamped(since, wl, {d}) \in [Workloads -> [Directions -> Ages]]
    BY <2>1, StampedAge DEF TypeOK, AgeTable
  <2>3. CASE LeavePod(p)
    BY <2>3 DEF LeavePod, Visiting, Passed, TypeOK, WalkOK, spec, status, walk
  <2>4. CASE RecreateBlocked(p)
    BY <2>4 DEF RecreateBlocked, Visiting, Passed, TypeOK, WalkOK, spec, status, walk
  <2>5. CASE EvictPod(p)
    BY <2>2, <2>5 DEF EvictPod, Visiting, Passed, Made, TypeOK, WalkOK, Needs, Directions, spec,
                     status
  <2>6. CASE ReportInfeasible(p)
    BY <2>6 DEF ReportInfeasible, Visiting, Passed, TypeOK, WalkOK, spec, status, walk
  <2>7. CASE BumpPod(p)
    BY <2>7 DEF BumpPod, Visiting, Passed, TypeOK, WalkOK, spec, status, walk, Needs
  <2>8. CASE ResizePod(p)
    <3>1. PICK d \in Directions : /\ Visiting(p)
                                  /\ need' = [need EXCEPT ![p] = "None"]
                                  /\ Made(d)
                                  /\ UNCHANGED <<budget, result, denied>>
                                  /\ Passed
      BY <2>8 DEF ResizePod
    <3>2. since' \in [Workloads -> [Directions -> Ages]] /\ dirs' \subseteq Directions
      BY <2>2, <3>1 DEF Made, TypeOK
    <3> QED
      BY <3>1, <3>2 DEF Visiting, Passed, TypeOK, WalkOK, Needs, spec, status
  <2>9. CASE HoldPod(p)
    BY <2>9 DEF HoldPod, Visiting, Passed, TypeOK, WalkOK, spec, status
  <2>10. CASE EvictUnnoticed(p)
    <3>1. /\ lost' \subseteq Workloads \X Directions
          /\ since' \in [Workloads -> [Directions -> Ages]]
      BY <2>1, <2>2, <2>10 DEF EvictUnnoticed, TypeOK, Directions
    <3> QED
      BY <2>10, <3>1 DEF EvictUnnoticed, Visiting, TypeOK, WalkOK, Needs, spec, walk, found,
                         status
  <2> QED
    BY <1>7, <2>3, <2>4, <2>5, <2>6, <2>7, <2>8, <2>9, <2>10 DEF VisitPod
<1>8. ASSUME NEW p \in Pods, ApplyError(p)
      PROVE  TypeOK' /\ WalkOK'
  <2>1. {wl} \X dirs \subseteq Workloads \X Directions
    BY <1>8 DEF ApplyError, WalkOK, TypeOK
  <2> QED
    BY <1>8, <2>1 DEF ApplyError, AbortEffects, Leave, TypeOK, WalkOK, HPAStates, spec, status
<1>14. ASSUME NEW p \in Pods, ApplyUnnoticed(p)
       PROVE  TypeOK' /\ WalkOK'
  <2>1. wl \in Workloads /\ dirs \subseteq Directions
    BY <1>14 DEF ApplyUnnoticed, WalkOK, TypeOK
  <2>2. PICK ds \in SUBSET Directions : AbortEffects(ds)
    BY <1>14, <2>1 DEF ApplyUnnoticed
  <2>3. since' \in [Workloads -> [Directions -> Ages]]
    <3>1. \A d \in Directions :
            Stamped(since, wl, {d}) \in [Workloads -> [Directions -> Ages]]
      BY <2>1, StampedAge DEF TypeOK, AgeTable
    <3> QED
      BY <1>14, <3>1 DEF ApplyUnnoticed, TypeOK
  <2>4. need' \in [Pods -> Needs]
    BY <1>14 DEF ApplyUnnoticed, TypeOK, Needs
  <2> QED
    BY <2>1, <2>2, <2>3, <2>4 DEF AbortEffects, Leave, TypeOK, WalkOK, HPAStates, spec,
                                  status
<1>9. CASE Restart
  BY <1>9 DEF Restart, Leave, TypeOK, WalkOK, Ages, Workloads, HPAStates, spec, status
<1>11. ASSUME NEW p \in Pods, NEW n \in Demands[p], Demand(p, n)
       PROVE  TypeOK' /\ WalkOK'
  BY <1>11 DEF Demand, TypeOK, WalkOK, spec, walk, found, status, tracker
<1>12. ASSUME NEW w \in Scalable, HPAStep(w)
       PROVE  TypeOK' /\ WalkOK'
  BY <1>12 DEF HPAStep, TypeOK, WalkOK, spec, walk, found, status, tracker
<1>13. CASE UNCHANGED vars
  BY <1>13 DEF vars, TypeOK, WalkOK
<1> QED
  BY <1>1, <1>2, <1>3, <1>4, <1>5, <1>6, <1>7, <1>8, <1>9, <1>11, <1>12, <1>13, <1>14,
     <1>15, <1>16
     DEF Next, Controller

\* Steps that leave the walk and the tracker alone keep the stamps right.
LEMMA StampsFramed ==
  ASSUME Inv, UNCHANGED <<pc, wl, dirs, denied, cooldown, age, since, lost>>
  PROVE  StampsOK' /\ GrantsOK'
BY DEF Inv, StampsOK, GrantsOK, Allow

\* Every step keeps the stamps right, and the grants in line with the tracker.
LEMMA StampStep ==
  ASSUME Inv, TypeOK', [Next]_vars
  PROVE  StampsOK' /\ GrantsOK'
<1> USE DEF Inv
<1>1. CASE StartPass
  <2>1. PICK t \in 1..Cap : /\ pc = "idle" /\ pc' = "workload" /\ lost' = lost
                            /\ age' = Aged(age, t) /\ since' = Aged(since, t)
    BY <1>1 DEF StartPass
  <2>2. ASSUME NEW w \in Workloads, NEW d \in Directions
        PROVE  <<w, d>> \in lost \/ since'[w][d] = age'[w][d]
    BY <2>1, <2>2 DEF StampsOK, Aged
  <2> QED
    BY <2>1, <2>2 DEF StampsOK, GrantsOK
<1>2. CASE OffPass \/ SkipWorkload \/ PauseWorkload
  BY <1>2 DEF OffPass, SkipWorkload, PauseWorkload, NextWorkload, StampsOK, GrantsOK,
              walk, tracker
<1>3. CASE OpenWorkload
  BY <1>3 DEF OpenWorkload, StampsOK, GrantsOK, tracker
<1>4. CASE CloseWorkload
  <2>1. /\ pc = "pods" /\ pc' = "workload" /\ since' = since /\ wl \in Workloads
        /\ age' = Stamped(age, wl, dirs) /\ lost' = lost \ ({wl} \X dirs)
    BY <1>4 DEF CloseWorkload, WalkOK
  <2>2. \A x \in Workloads, d \in Directions :
          /\ age'[x][d] = IF x = wl /\ d \in dirs THEN 0 ELSE age[x][d]
          /\ <<x, d>> \in lost' <=> <<x, d>> \in lost /\ ~(x = wl /\ d \in dirs)
    BY <2>1, StampedAge DEF TypeOK, AgeTable
  <2> QED
    BY <2>1, <2>2 DEF StampsOK, GrantsOK
<1>5. CASE EndPass
  BY <1>5 DEF EndPass, Leave, StampsOK, GrantsOK, tracker
<1>6. CASE WorkloadError \/ PatchError
  BY <1>6 DEF WorkloadError, PatchError, Leave, StampsOK, GrantsOK, tracker
<1>7. ASSUME NEW p \in Pods, NEW d \in Directions, pc = "pods", Allow(wl, d), Made(d), Passed,
             denied' = denied
      PROVE  StampsOK' /\ GrantsOK'
  <2>1. wl \in Workloads
    BY <1>7 DEF WalkOK
  <2>2. \A x \in Workloads, e \in Directions :
          since'[x][e] = IF x = wl /\ e \in {d} THEN 0 ELSE since[x][e]
    BY <1>7, <2>1, StampedAge DEF Made, TypeOK, AgeTable
  <2>3. StampsOK'
    <3>1. /\ pc' = "pods" /\ wl' = wl /\ dirs' = dirs \cup {d}
          /\ age' = age /\ lost' = lost
      BY <1>7 DEF Made, Passed
    <3>2. ASSUME NEW x \in Workloads, NEW e \in Directions
          PROVE  IF x = wl /\ e \in dirs \cup {d} THEN since'[x][e] = 0
                 ELSE <<x, e>> \in lost \/ since'[x][e] = age[x][e]
      BY <1>7, <2>2 DEF StampsOK
    <3> QED
      BY <3>1, <3>2 DEF StampsOK
  <2>4. GrantsOK'
    BY <1>7 DEF GrantsOK, Made, Passed, Allow, spec
  <2> QED
    BY <2>3, <2>4
<1>8. ASSUME NEW p \in Pods, VisitPod(p)
      PROVE  StampsOK' /\ GrantsOK'
  <2>1. CASE LeavePod(p) \/ RecreateBlocked(p) \/ ReportInfeasible(p) \/ BumpPod(p)
    BY <2>1, StampsFramed
       DEF LeavePod, RecreateBlocked, ReportInfeasible, BumpPod, Passed, spec, walk
  <2>2. CASE EvictPod(p)
    BY <2>2, <1>7 DEF EvictPod, Visiting, Directions
  <2>3. CASE ResizePod(p)
    BY <2>3, <1>7 DEF ResizePod, Visiting
  <2>4. CASE HoldPod(p)
    BY <2>4 DEF HoldPod, Visiting, Passed, StampsOK, GrantsOK, Allow, spec
  <2>5. CASE EvictUnnoticed(p)
    <3>1. /\ pc = "pods" /\ pc' = pc /\ wl' = wl /\ dirs' = dirs /\ denied' = denied
          /\ age' = age /\ cooldown' = cooldown /\ wl \in Workloads
          /\ lost' = lost \cup {<<wl, "Down">>}
      BY <2>5 DEF EvictUnnoticed, Visiting, WalkOK, spec, walk
    <3>2. \A x \in Workloads, e \in Directions :
            since'[x][e] = IF x = wl /\ e \in {"Down"} THEN 0 ELSE since[x][e]
      BY <2>5, <3>1, StampedAge DEF EvictUnnoticed, TypeOK, AgeTable
    <3>3. ASSUME NEW x \in Workloads, NEW e \in Directions
          PROVE  IF x = wl /\ e \in dirs THEN since'[x][e] = 0
                 ELSE <<x, e>> \in lost' \/ since'[x][e] = age[x][e]
      BY <3>1, <3>2 DEF StampsOK
    <3> QED
      BY <3>1, <3>3 DEF StampsOK, GrantsOK, Allow
  <2> QED
    BY <1>8, <2>1, <2>2, <2>3, <2>4, <2>5 DEF VisitPod
<1>9. ASSUME NEW p \in Pods, ApplyError(p)
      PROVE  StampsOK' /\ GrantsOK'
  <2>1. /\ pc = "pods" /\ pc' = "idle" /\ age' = age /\ since' = since
        /\ wl \in Workloads /\ lost' = lost \cup ({wl} \X dirs)
    BY <1>9 DEF ApplyError, AbortEffects, Leave, WalkOK
  <2>2. \A x \in Workloads, d \in Directions :
          <<x, d>> \in lost' <=> <<x, d>> \in lost \/ (x = wl /\ d \in dirs)
    BY <2>1
  <2> QED
    BY <2>1, <2>2 DEF StampsOK, GrantsOK
<1>15. ASSUME NEW p \in Pods, ApplyUnnoticed(p)
       PROVE  StampsOK' /\ GrantsOK'
  <2>1. /\ pc = "pods" /\ pc' = "idle" /\ age' = age /\ wl \in Workloads
    BY <1>15 DEF ApplyUnnoticed, AbortEffects, Leave, WalkOK
  <2>2. PICK ds \in SUBSET Directions :
          /\ lost' = lost \cup ({wl} \X (dirs \cup ds))
          /\ \A x \in Workloads, e \in Directions :
               since'[x][e] = IF x = wl /\ e \in ds THEN 0 ELSE since[x][e]
    <3>1. CASE need[p] = "OOM" /\ AbortEffects(dirs) /\ UNCHANGED since
      <4>1. {} \in SUBSET Directions /\ dirs \cup {} = dirs
        OBVIOUS
      <4> QED
        BY <3>1, <4>1 DEF AbortEffects
    <3>2. CASE \E d \in Directions : /\ since' = Stamped(since, wl, {d})
                                    /\ AbortEffects(dirs \cup {d})
      <4>1. PICK d \in Directions : since' = Stamped(since, wl, {d})
                                    /\ lost' = lost \cup ({wl} \X (dirs \cup {d}))
        BY <3>2 DEF AbortEffects
      <4>2. \A x \in Workloads, e \in Directions :
              since'[x][e] = IF x = wl /\ e \in {d} THEN 0 ELSE since[x][e]
        BY <2>1, <4>1, StampedAge DEF TypeOK, AgeTable
      <4>3. {d} \in SUBSET Directions
        OBVIOUS
      <4> QED
        BY <4>1, <4>2, <4>3
    <3> QED
      BY <1>15, <3>1, <3>2 DEF ApplyUnnoticed
  <2>3. \A x \in Workloads, e \in Directions :
          <<x, e>> \in lost' <=> <<x, e>> \in lost \/ (x = wl /\ e \in dirs \cup ds)
    BY <2>2
  <2> QED
    BY <2>1, <2>2, <2>3 DEF StampsOK, GrantsOK
<1>10. CASE Restart
  BY <1>10 DEF Restart, Leave, StampsOK, GrantsOK
<1>12. ASSUME NEW p \in Pods, NEW n \in Demands[p], Demand(p, n)
       PROVE  StampsOK' /\ GrantsOK'
  BY <1>12, StampsFramed DEF Demand, spec, walk, tracker
<1>13. ASSUME NEW w \in Scalable, HPAStep(w)
       PROVE  StampsOK' /\ GrantsOK'
  BY <1>13, StampsFramed DEF HPAStep, spec, walk, tracker
<1>14. CASE UNCHANGED vars
  BY <1>14, StampsFramed DEF vars
<1> QED
  BY <1>1, <1>2, <1>3, <1>4, <1>5, <1>6, <1>8, <1>9, <1>10, <1>12, <1>13, <1>14,
     <1>15
     DEF Next, Controller

\* The invariant holds in every reachable state.
LEMMA Invariance == Spec => []Inv
<1>1. Inv /\ [Next]_vars => Inv'
  BY TypeStep, StampStep DEF Inv
<1> QED
  BY InvInit, <1>1, PTL DEF Spec

---------------------------------------------------------------------------
\* The variables of the walk and of the tracker keep their types in every
\* reachable state.
THEOREM TypeCorrect == Spec => []TypeOK
<1>1. Inv => TypeOK
  BY DEF Inv
<1> QED
  BY <1>1, Invariance, PTL

\* Within one walk of a workload no direction is both granted and denied: the
\* cooldown spaces passes and not sibling pods.
THEOREM SiblingsResizeTogether == Spec => []SiblingsTogether
<1>1. Inv => SiblingsTogether
  BY DEF Inv, WalkOK, GrantsOK, SiblingsTogether
<1> QED
  BY <1>1, Invariance, PTL

\* Only the resizes of ResizePod and EvictPod, and those whose reply is lost,
\* reset the age of the last resize, and all of them have asked the tracker.
LEMMA ResizeAllowed ==
  ASSUME Inv, [Next]_vars, NEW w \in Workloads, NEW d \in Directions, Resized(w, d)
  PROVE  pc = "pods" /\ w = wl /\ Allow(w, d) /\ d \notin dirs
<1> USE DEF Inv, Resized
<1>1. CASE StartPass
  <2>1. PICK t \in 1..Cap : /\ since'[w][d] = Older(since[w][d], t)
                            /\ since[w][d] \in 0..Cap
    BY <1>1 DEF StartPass, Aged, TypeOK, Ages
  <2>2. since'[w][d] # 0
    BY <2>1, ActuationAssumption DEF Older
  <2> QED
    BY <2>2
<1>2. ASSUME NEW p \in Pods,
             EvictPod(p) \/ ResizePod(p) \/ EvictUnnoticed(p) \/ ApplyUnnoticed(p)
      PROVE  pc = "pods" /\ w = wl /\ Allow(w, d) /\ d \notin dirs
  <2>1. PICK e \in Directions : /\ pc = "pods" /\ Allow(wl, e)
                                /\ since' = Stamped(since, wl, {e})
    BY <1>2 DEF EvictPod, ResizePod, EvictUnnoticed, ApplyUnnoticed, Made, Visiting,
                Directions
  <2>2. wl \in Workloads
    BY <2>1 DEF WalkOK
  <2>3. since'[w][d] = IF w = wl /\ d \in {e} THEN 0 ELSE since[w][d]
    BY <2>1, <2>2, StampedAge DEF TypeOK, AgeTable
  <2>4. w = wl /\ d = e
    BY <2>3
  <2> QED
    BY <2>1, <2>4 DEF StampsOK
<1>3. ASSUME since' = since
      PROVE  FALSE
  BY <1>3
<1>4. CASE UNCHANGED vars
  BY <1>3, <1>4 DEF vars
<1>5. CASE OffPass \/ SkipWorkload \/ PauseWorkload \/ OpenWorkload \/ CloseWorkload
           \/ EndPass \/ WorkloadError \/ PatchError \/ Restart
  BY <1>3, <1>5 DEF OffPass, SkipWorkload, PauseWorkload, OpenWorkload, CloseWorkload, EndPass,
                    WorkloadError, PatchError, Restart, tracker
<1>6. ASSUME NEW p \in Pods,
             \/ LeavePod(p) \/ RecreateBlocked(p) \/ ReportInfeasible(p) \/ BumpPod(p)
             \/ HoldPod(p) \/ ApplyError(p) \/ \E n \in Demands[p] : Demand(p, n)
      PROVE  FALSE
  BY <1>3, <1>6 DEF LeavePod, RecreateBlocked, ReportInfeasible, BumpPod, HoldPod,
                    ApplyError, Demand, tracker
<1>7. CASE \E x \in Scalable : HPAStep(x)
  BY <1>3, <1>7 DEF HPAStep, tracker
<1> QED
  BY <1>1, <1>2, <1>4, <1>5, <1>6, <1>7 DEF Next, Controller, VisitPod

\* For every schedule of passes, errors and restarts: a workload is resized in
\* a direction only a full cooldown after the pass that last did so, unless an
\* aborted pass or a restart lost that stamp.
THEOREM CooldownHolds == Spec => CooldownRespected
<1>1. Inv /\ [Next]_vars =>
        [\A w \in Workloads, d \in Directions :
           Resized(w, d) /\ <<w, d>> \notin lost => since[w][d] >= cooldown[d]]_vars
  <2> SUFFICES ASSUME Inv, [Next]_vars,
                      NEW w \in Workloads, NEW d \in Directions,
                      Resized(w, d), <<w, d>> \notin lost
               PROVE  since[w][d] >= cooldown[d]
    OBVIOUS
  <2>1. pc = "pods" /\ w = wl /\ Allow(w, d) /\ d \notin dirs
    BY ResizeAllowed
  <2>2. since[w][d] = age[w][d]
    BY <2>1 DEF Inv, StampsOK
  <2> QED
    BY <2>1, <2>2 DEF Allow
<1> QED
  BY <1>1, Invariance, PTL DEF Spec, CooldownRespected

---------------------------------------------------------------------------
(* Actuation implements Spacing.                                           *)

\* A grant of the tracker is one that Spacing gives: StampsOK turns the recorded
\* age into the age of the last resize, or says that nobody remembers it.
LEMMA GrantGiven ==
  ASSUME Inv, NEW d \in Directions, pc = "pods", Allow(wl, d),
         since' = Stamped(since, wl, {d}), cooldown' = cooldown
  PROVE  Promise!Granted(wl, d)
<1>1. wl \in Workloads
  BY DEF Inv, WalkOK
<1>2. \/ since[wl][d] = 0
      \/ since[wl][d] >= cooldown[d]
      \/ <<wl, d>> \notin (Workloads \X Directions) \ lost
  BY <1>1 DEF Inv, StampsOK, Allow
<1>3. since' = [since EXCEPT ![wl] = [e \in Directions |-> IF e = d THEN 0 ELSE @[e]]]
  BY DEF Stamped
<1> QED
  BY <1>2, <1>3 DEF Promise!Granted

\* A resize that the walk has made and will stamp is a resize of Spacing.
LEMMA GrantRefines ==
  ASSUME Inv, NEW d \in Directions, pc = "pods", Allow(wl, d), Made(d), Passed
  PROVE  Promise!Next
<1>1. wl \in Workloads
  BY DEF Inv, WalkOK
<1>2. Promise!Granted(wl, d)
  BY GrantGiven DEF Made, Passed, spec
<1>3. Promise!Resize(wl, d)
  BY <1>2 DEF Promise!Resize, Passed
<1> QED
  BY <1>1, <1>3 DEF Promise!Next

\* A grant whose resize is made without the walk learning of it is one that
\* Spacing gives and forgets, together with what the walk is aborted with.
LEMMA UnnoticedRefines ==
  ASSUME Inv, NEW d \in Directions, pc = "pods", Allow(wl, d),
         since' = Stamped(since, wl, {d}), cooldown' = cooldown,
         NEW ds \in SUBSET dirs, lost' = lost \cup ({wl} \X (ds \cup {d}))
  PROVE  Promise!Next
<1>1. /\ wl \in Workloads /\ ds \in SUBSET Directions
      /\ \A e \in ds : since[wl][e] = 0
  BY DEF Inv, WalkOK, TypeOK, StampsOK
<1>2. Promise!Granted(wl, d)
  BY GrantGiven
<1>3. {d} \cup {e \in ds : since[wl][e] = 0} = ds \cup {d}
  BY <1>1
<1>4. Promise!ResizeUnnoticed(wl, d, ds)
  BY <1>2, <1>3 DEF Promise!ResizeUnnoticed
<1> QED
  BY <1>1, <1>4 DEF Promise!Next

\* Steps that resize nothing, lose nothing and start no pass are invisible.
LEMMA SpacingFramed ==
  ASSUME UNCHANGED <<since, cooldown, lost>>
  PROVE  UNCHANGED Promise!vars
BY DEF Promise!vars

\* Every step of the walk is a step of Spacing, or one it does not see.
LEMMA SpacingStep ==
  ASSUME Inv, [Next]_vars
  PROVE  [Promise!Next]_(Promise!vars)
<1>1. CASE StartPass
  <2>1. PICK t \in 1..Cap : since' = Aged(since, t)
    BY <1>1 DEF StartPass
  <2>2. cooldown' \in Cooldowns /\ lost' = lost
    BY <1>1 DEF StartPass
  <2>3. Promise!Begin
    BY <2>1, <2>2 DEF Promise!Begin, Aged, Older
  <2> QED
    BY <2>3 DEF Promise!Next
<1>2. CASE CloseWorkload
  <2>1. /\ wl \in Workloads /\ dirs \subseteq Directions
        /\ \A d \in dirs : since[wl][d] = 0
    BY <1>2 DEF CloseWorkload, Inv, TypeOK, WalkOK, StampsOK
  <2>2. lost' = lost \ ({wl} \X dirs) /\ since' = since /\ cooldown' = cooldown
    BY <1>2 DEF CloseWorkload, spec
  <2>3. Promise!Made(wl, dirs) = {wl} \X dirs
    BY <2>1 DEF Promise!Made
  <2>4. Promise!Remember(wl, dirs)
    BY <2>1, <2>2, <2>3 DEF Promise!Remember
  <2> QED
    BY <2>1, <2>4 DEF Promise!Next
<1>3. ASSUME NEW p \in Pods, ApplyError(p)
      PROVE  Promise!Next
  <2>1. /\ wl \in Workloads /\ dirs \subseteq Directions
        /\ \A d \in dirs : since[wl][d] = 0
    BY <1>3 DEF ApplyError, Inv, TypeOK, WalkOK, StampsOK
  <2>2. lost' = lost \cup ({wl} \X dirs) /\ since' = since /\ cooldown' = cooldown
    BY <1>3 DEF ApplyError, AbortEffects, spec
  <2>3. Promise!Made(wl, dirs) = {wl} \X dirs
    BY <2>1 DEF Promise!Made
  <2>4. Promise!Abort(wl, dirs)
    BY <2>1, <2>2, <2>3 DEF Promise!Abort
  <2> QED
    BY <2>1, <2>4 DEF Promise!Next
<1>8. ASSUME NEW p \in Pods, ApplyUnnoticed(p)
      PROVE  Promise!Next
  <2>1. /\ wl \in Workloads /\ dirs \subseteq Directions
        /\ \A d \in dirs : since[wl][d] = 0
    BY <1>8 DEF ApplyUnnoticed, Inv, TypeOK, WalkOK, StampsOK
  <2>2. CASE AbortEffects(dirs) /\ UNCHANGED since
    <3>1. lost' = lost \cup ({wl} \X dirs) /\ since' = since /\ cooldown' = cooldown
      BY <2>2 DEF AbortEffects, spec
    <3>2. Promise!Made(wl, dirs) = {wl} \X dirs
      BY <2>1 DEF Promise!Made
    <3>3. Promise!Abort(wl, dirs)
      BY <2>1, <3>1, <3>2 DEF Promise!Abort
    <3> QED
      BY <2>1, <3>3 DEF Promise!Next
  <2>3. ASSUME NEW d \in Directions, Allow(wl, d), since' = Stamped(since, wl, {d}),
               AbortEffects(dirs \cup {d})
        PROVE  Promise!Next
    <3>1. lost' = lost \cup ({wl} \X (dirs \cup {d})) /\ cooldown' = cooldown
      BY <2>3 DEF AbortEffects, spec
    <3>2. pc = "pods" /\ dirs \in SUBSET dirs
      BY <1>8 DEF ApplyUnnoticed
    <3> QED
      BY <2>3, <3>1, <3>2, UnnoticedRefines
  <2> QED
    BY <1>8, <2>2, <2>3 DEF ApplyUnnoticed
<1>4. CASE Restart
  <2>1. Promise!Restart
    BY <1>4 DEF Restart, Promise!Restart, spec
  <2> QED
    BY <2>1 DEF Promise!Next
<1>5. ASSUME NEW p \in Pods, VisitPod(p)
      PROVE  [Promise!Next]_(Promise!vars)
  <2>1. CASE EvictPod(p)
    BY <2>1, GrantRefines DEF EvictPod, Visiting, Directions
  <2>2. CASE ResizePod(p)
    BY <2>2, GrantRefines DEF ResizePod, Visiting
  <2>3. CASE LeavePod(p) \/ RecreateBlocked(p) \/ ReportInfeasible(p) \/ BumpPod(p)
             \/ HoldPod(p)
    BY <2>3, SpacingFramed
       DEF LeavePod, RecreateBlocked, ReportInfeasible, BumpPod, HoldPod, Passed, spec
  <2>4. CASE EvictUnnoticed(p)
    <3>1. /\ pc = "pods" /\ Allow(wl, "Down") /\ "Down" \in Directions
          /\ since' = Stamped(since, wl, {"Down"}) /\ cooldown' = cooldown
          /\ lost' = lost \cup {<<wl, "Down">>}
      BY <2>4 DEF EvictUnnoticed, Visiting, Directions, spec
    <3>2. {} \in SUBSET dirs /\ {wl} \X ({} \cup {"Down"}) = {<<wl, "Down">>}
      OBVIOUS
    <3> QED
      BY <3>1, <3>2, UnnoticedRefines
  <2> QED
    BY <1>5, <2>1, <2>2, <2>3, <2>4 DEF VisitPod
<1>6. CASE OffPass \/ SkipWorkload \/ PauseWorkload \/ OpenWorkload \/ EndPass \/ WorkloadError
           \/ PatchError \/ UNCHANGED vars
  BY <1>6, SpacingFramed DEF OffPass, SkipWorkload, PauseWorkload, OpenWorkload, EndPass,
                             WorkloadError, PatchError, vars, spec, tracker
<1>7. CASE (\E p \in Pods : \E n \in Demands[p] : Demand(p, n)) \/ \E w \in Scalable : HPAStep(w)
  BY <1>7, SpacingFramed DEF Demand, HPAStep, spec, tracker
<1> QED
  BY <1>1, <1>2, <1>3, <1>4, <1>5, <1>6, <1>7, <1>8 DEF Next, Controller

\* The walk of actuate with its tracker, for every number of workloads and pods
\* and every schedule of errors and restarts, implements the spacing of resizes
\* that the cooldowns promise; only an aborted pass forgets, and only its own
\* resizes of the workload it was walking, short of a restart.
THEOREM SpacingImplemented == Spec => KeepsSpacing
<1>1. Init => Promise!Init
  BY DEF Init, Promise!Init, Promise!All
<1>2. Inv /\ [Next]_vars => [Promise!Next]_(Promise!vars)
  BY SpacingStep
<1> QED
  BY <1>1, <1>2, Invariance, PTL DEF Spec, KeepsSpacing, Promise!Spec
============================================================================
