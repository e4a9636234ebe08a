--------------------------- MODULE KuberaProofs ---------------------------
(***************************************************************************)
(* The composed loop implements Resizing and Recommender for every load,   *)
(* percentile, number of buckets and schedule, so that their theorems hold *)
(* of it, and together they show that no pass shrinks a pod below the      *)
(* percentile of the usage remembered.                                     *)
(***************************************************************************)
EXTENDS Kubera, TLAPS

\* What a pass has read when it has fed the recommender: no readout yet.
Fed == [Containers -> [raw : {Amount(0)}, usage : {Amount(v) : v \in Loads}]]

\* Usage comes from the load and no sample from the future, what a pass acts on is
\* an answer of the provider that Resizing allows, and between passes nothing is
\* left over.
Inv ==
  /\ load \in Loads
  /\ clock \in 1..MaxTime
  /\ sample.t \in 0..clock
  /\ sample = NoSample \/ sample.v \in Loads
  /\ stage \in {"idle", "fed", "act"}
  /\ stage = "idle" => obs = NoObs
  /\ stage = "fed" => obs \in Fed
  /\ stage = "act" => obs \in Sizing!Metrics
  /\ pc \in {"idle", "patch"}
  /\ pc = "idle" => local = Sizing!NoRecs /\ seen = Sizing!Unread

---------------------------------------------------------------------------
\* What Recommender assumes of its constants holds here.
LEMMA HistogramAssumptions == Histogram!RecommenderAssumption
BY KuberaAssumption DEF Histogram!RecommenderAssumption

\* The percentile is read from one of the buckets.
LEMMA ReadOutInBuckets ==
  ASSUME NEW slip
  PROVE  Histogram!ReadOut(slip) \in 0..LastBucket
BY HistogramAssumptions, Histogram!ReadOutFirst DEF Histogram!Buckets

\* A pass that has fed the recommender computes from its readout an answer that
\* Resizing allows.
LEMMA ComputedReadings ==
  ASSUME NEW o \in Fed, NEW b \in 0..LastBucket
  PROVE  [n \in DOMAIN o |-> [o[n] EXCEPT !.raw = Readout(b)]] \in Sizing!Metrics
<1>1. Readout(b) \in {Amount(Histogram!UpperBound(c)) : c \in 0..LastBucket}
  BY DEF Readout
<1>2. ASSUME NEW n \in Containers
      PROVE  [o[n] EXCEPT !.raw = Readout(b)] \in AllReadings
  BY <1>1 DEF Fed, AllReadings
<1>3. DOMAIN o = Containers
  BY DEF Fed
<1>4. [n \in DOMAIN o |-> [o[n] EXCEPT !.raw = Readout(b)]] \in [Containers -> AllReadings]
  BY <1>2, <1>3
<1> QED
  BY <1>4 DEF Sizing!Metrics

\* A provider without an answer is one Resizing allows, too.
LEMMA NoReadings == NoObs \in Sizing!Metrics
<1>1. NoObs \in [{} -> AllReadings]
  BY DEF NoObs
<1> QED
  BY <1>1 DEF Sizing!Metrics

---------------------------------------------------------------------------
\* The loop starts with nothing read and nothing computed.
LEMMA InvInit == Init => Inv
BY KuberaAssumption DEF Init, Inv, Sizing!Init, NoSample

\* Every step of the loop keeps the invariant.
LEMMA InvNext == Inv /\ [Next]_vars => Inv'
<1> SUFFICES ASSUME Inv, [Next]_vars PROVE Inv'
  OBVIOUS
<1> USE DEF Inv
<1>1. CASE Tick \/ Scrape
  <2>1. load' \in Loads /\ clock' \in 1..MaxTime /\ sample'.t \in 0..clock'
    BY <1>1, KuberaAssumption DEF Tick, Scrape
  <2>2. sample' = NoSample \/ sample'.v \in Loads
    BY <1>1 DEF Tick, Scrape
  <2> QED
    BY <1>1, <2>1, <2>2 DEF Tick, Scrape, sizing, pass, NoSample, NoObs, Fed, Sizing!Metrics,
                            Amount, Sizing!NoRecs, Sizing!Unread
<1>2. ASSUME NEW provider \in Providers, Feed(provider)
      PROVE  Inv'
  <2>1. obs' \in Fed
    BY <1>2 DEF Feed, Fed, NoSample
  <2> QED
    BY <1>2, <2>1 DEF Feed, sizing, world
<1>3. ASSUME NEW slip \in BOOLEAN, NEW hold \in BOOLEAN, Compute(slip, hold)
      PROVE  Inv'
  <2>1. rec' \in 0..LastBucket
    BY <1>3, ReadOutInBuckets DEF Compute, Histogram!Recommend
  <2>2. obs' \in Sizing!Metrics
    BY <1>3, <2>1, ComputedReadings DEF Compute
  <2> QED
    BY <1>3, <2>2 DEF Compute, sizing, world
<1>4. ASSUME NEW hold \in BOOLEAN, Gap(hold)
      PROVE  Inv'
  BY <1>4, NoReadings DEF Gap, Starting, sizing, world
<1>5. CASE (\E slip \in Slips : ActResize(slip)) \/ ActEvict \/ ActHold
  BY <1>5 DEF ActResize, ActEvict, ActHold, Act, world,
              Sizing!PassResize, Sizing!PassEvict, Sizing!PassHold
<1>6. CASE PatchStatus \/ PatchFailed
  BY <1>6 DEF PatchStatus, PatchFailed, world, pass, Sizing!PatchStatus, Sizing!PatchFailed
<1>7. CASE Crash
  BY <1>7 DEF Crash, world
<1>8. CASE (\E slip \in Slips : Admit(slip)) \/ AdmitUntouched
  BY <1>8 DEF Admit, AdmitUntouched, Unscraped, NoSample, pass,
              Sizing!Admit, Sizing!AdmitUntouched, Sizing!AdmitAs
<1>9. CASE Environment
  BY <1>9 DEF Environment, world, pass,
              Sizing!PodDeleted, Sizing!KubeletVerdict, Sizing!CapacityFreed
<1>10. CASE UNCHANGED vars
  BY <1>10 DEF vars, sizing, world, pass
<1> QED
  BY <1>1, <1>2, <1>3, <1>4, <1>5, <1>6, <1>7, <1>8, <1>9, <1>10 DEF Next, Pass

---------------------------------------------------------------------------
\* Every step of the loop is one that Resizing allows of pods and status, or
\* leaves both alone.
LEMMA SizingStep ==
  ASSUME Inv, [Next]_vars
  PROVE  [Sizing!Next]_(Sizing!vars)
<1>1. CASE \/ Tick \/ Scrape \/ UNCHANGED vars
           \/ \E provider \in Providers : Feed(provider)
           \/ \E slip, hold \in BOOLEAN : Compute(slip, hold)
           \/ \E hold \in BOOLEAN : Gap(hold)
  <2>1. UNCHANGED sizing
    BY <1>1 DEF Tick, Scrape, vars, Feed, Compute, Gap
  <2> QED
    BY <2>1 DEF sizing, Sizing!vars
<1>2. CASE (\E slip \in Slips : ActResize(slip)) \/ ActEvict \/ ActHold
  <2>1. obs \in Sizing!Metrics
    BY <1>2 DEF ActResize, ActEvict, ActHold, Act, Inv
  <2>2. Sizing!Pass
    BY <1>2, <2>1 DEF ActResize, ActEvict, ActHold, Sizing!Pass, Slips, Sizing!Slips
  <2> QED
    BY <2>2 DEF Sizing!Next
<1>3. CASE PatchStatus \/ PatchFailed
  BY <1>3 DEF PatchStatus, PatchFailed, Sizing!Next
<1>4. CASE Crash
  <2>1. CASE pc = "patch"
    <3>1. Sizing!PatchFailed
      BY <1>4, <2>1 DEF Crash, Sizing!PatchFailed, Sizing!podVars
    <3> QED
      BY <3>1 DEF Sizing!Next
  <2>2. CASE pc = "idle"
    BY <1>4, <2>2 DEF Crash, Inv, Sizing!vars
  <2> QED
    BY <2>1, <2>2 DEF Inv
<1>5. CASE (\E slip \in Slips : Admit(slip)) \/ AdmitUntouched
  BY <1>5 DEF Admit, AdmitUntouched, Slips, Sizing!Slips, Sizing!Next
<1>6. CASE Environment
  BY <1>6 DEF Environment, Sizing!Environment, Sizing!Next
<1> QED
  BY <1>1, <1>2, <1>3, <1>4, <1>5, <1>6 DEF Next, Pass

\* The loop implements Resizing, whatever the load does and the provider
\* answers, and wherever a restart cuts a pass off: its pods and its status
\* are sized as Resizing sizes them.
THEOREM LoopSizesPods == Spec => SizesPods
<1>1. Init => Sizing!Init
  BY DEF Init
<1>2. Inv /\ [Next]_vars => [Sizing!Next]_(Sizing!vars)
  BY SizingStep
<1> QED
  BY <1>1, <1>2, InvInit, InvNext, PTL DEF Spec, SizesPods, Sizing!Spec
---------------------------------------------------------------------------
(* The components: what they assume holds here, so their theorems do.      *)

LEMMA SizingAssumptions == Sizing!RoundingAssumption /\ Sizing!ResizingAssumption
<1>1. Sizing!RoundingAssumption
  BY KuberaAssumption DEF Sizing!RoundingAssumption
<1>2. {NoHPA} \subseteq Sizing!HPASet
  BY DEF NoHPA, Sizing!HPASet
<1>3. AllReadings \subseteq [raw : Sizing!Targets, usage : Sizing!Targets]
  <2>1. \A v \in Nat : Amount(v) \in Sizing!Targets
    BY DEF Amount, Sizing!Targets
  <2>2. \A b \in 0..LastBucket : Histogram!UpperBound(b) \in Nat
    BY HistogramAssumptions, Histogram!UpperBounds DEF Histogram!Buckets
  <2> QED
    BY <2>1, <2>2, KuberaAssumption DEF AllReadings
<1>4. Sizing!ResizingAssumption
  BY <1>2, <1>3, KuberaAssumption DEF Sizing!ResizingAssumption
<1> QED
  BY <1>1, <1>4

\* Every step of the loop is one that Recommender allows of the histogram: a
\* time stamp lies between the first scrape and now, and a usage is a load.
LEMMA HistogramStep ==
  ASSUME Inv, Inv', [Next]_vars
  PROVE  [Histogram!Next]_(Histogram!vars)
<1>1. ASSUME UNCHANGED histogram PROVE UNCHANGED Histogram!vars
  BY <1>1 DEF histogram, Histogram!vars
<1>2. ASSUME NEW provider \in Providers, Feed(provider)
      PROVE  [Histogram!Next]_(Histogram!vars)
  <2>1. Timestamp(provider) \in 1..MaxTime
    BY <1>2, KuberaAssumption DEF Inv, Feed, Timestamp, QueryTime, ScrapeTime
  <2>2. sample.v \in Loads
    BY <1>2 DEF Inv, Feed, NoSample
  <2>3. CASE UNCHANGED histogram
    BY <1>1, <2>3
  <2>4. CASE Histogram!Observe(Running, Timestamp(provider), sample.v)
    BY <2>1, <2>2, <2>4 DEF Histogram!Next, Histogram!Times
  <2> QED
    BY <1>2, <2>3, <2>4 DEF Feed
<1>3. ASSUME NEW slip \in BOOLEAN, NEW hold \in BOOLEAN, Compute(slip, hold)
      PROVE  [Histogram!Next]_(Histogram!vars)
  BY <1>3 DEF Compute, Histogram!Next
<1>4. CASE Crash
  BY <1>4 DEF Crash, Histogram!Next
<1>5. CASE \/ Tick \/ Scrape \/ UNCHANGED vars \/ PatchStatus \/ PatchFailed
           \/ (\E slip \in Slips : ActResize(slip)) \/ ActEvict \/ ActHold
           \/ \E hold \in BOOLEAN : Gap(hold)
           \/ (\E slip \in Slips : Admit(slip)) \/ AdmitUntouched \/ Environment
  BY <1>1, <1>5 DEF Tick, Scrape, vars, PatchStatus, PatchFailed, ActResize, ActEvict,
                    ActHold, Act, Gap, Admit, AdmitUntouched, Unscraped, Environment
<1> QED
  BY <1>2, <1>3, <1>4, <1>5 DEF Next, Pass

\* The loop implements Recommender: samples reach the histogram late, twice or
\* not at all, and all that is lost with the operator is the histogram itself.
THEOREM LoopRemembers == Spec => Histogram!Spec
<1>1. Init => Histogram!Init
  BY DEF Init
<1>2. Inv /\ Inv' /\ [Next]_vars => [Histogram!Next]_(Histogram!vars)
  BY HistogramStep
<1> QED
  BY <1>1, <1>2, InvInit, InvNext, PTL DEF Spec, Histogram!Spec

\* For every template Sizing!Steady holds of, in particular every Guaranteed
\* one, no resize of the loop is refused for changing the QoS class.
THEOREM LoopNeverRefused ==
  ASSUME Sizing!Steady
  PROVE  Spec => []NeverRefused
<1>1. Sizing!Spec => []Sizing!NeverRefused
  BY SizingAssumptions, Sizing!ClassKept
<1>2. Sizing!NeverRefused => NeverRefused
  BY DEF NeverRefused
<1> QED
  BY <1>1, <1>2, LoopSizesPods, PTL DEF SizesPods

---------------------------------------------------------------------------
(* Covered usage.                                                          *)

\* Recommendations are for containers whose override is not Off.
Managed(recs) == DOMAIN recs \subseteq Containers \ OffContainers

\* A pass that acts on readings acts on the readout the histogram still holds.
Current ==
  stage = "act" /\ obs # NoObs =>
    /\ rec \in 0..LastBucket
    /\ DOMAIN obs = Containers
    /\ \A n \in Containers : obs[n].raw = Readout(rec)

ReadInv == Managed(status) /\ Managed(local) /\ Current

\* What a pass recommends is for managed containers, and without an HPA
\* coordination changes nothing.
LEMMA RecommendedManaged ==
  ASSUME Managed(status), NEW o \in Sizing!Metrics
  PROVE  /\ Managed(Sizing!Recommended(o))
         /\ Managed(Sizing!Coordinated(Sizing!Recommended(o), o, NoHPA))
<1>1. DOMAIN o \subseteq Containers
  BY DEF Sizing!Metrics
<1>2. Managed(Sizing!Recommended(o))
  BY <1>1 DEF Sizing!Recommended, Managed
<1> QED
  BY <1>2 DEF Sizing!Coordinated, Managed

LEMMA ReadInvInit == Init => ReadInv
BY DEF Init, ReadInv, Managed, Current, Sizing!Init, Sizing!NoRecs

LEMMA ReadInvStep == Inv /\ ReadInv /\ [Next]_vars => ReadInv'
<1> SUFFICES ASSUME Inv, ReadInv, [Next]_vars PROVE ReadInv'
  OBVIOUS
<1> USE DEF ReadInv
<1>1. ASSUME UNCHANGED <<status, local>> PROVE Managed(status)' /\ Managed(local)'
  BY <1>1 DEF Managed
<1>2. ASSUME UNCHANGED <<stage, obs, rec>> PROVE Current'
  BY <1>2 DEF Current, Readout, Histogram!UpperBound, Amount
<1>3. ASSUME stage' # "act" PROVE Current'
  BY <1>3 DEF Current
<1>4. CASE \/ Tick \/ Scrape \/ UNCHANGED vars \/ Environment
           \/ (\E slip \in Slips : Admit(slip)) \/ AdmitUntouched
  <2>1. UNCHANGED <<status, local, stage, obs, rec>>
    BY <1>4 DEF Tick, Scrape, vars, sizing, histogram, pass, Environment, Admit,
                AdmitUntouched, Unscraped, Sizing!Admit, Sizing!AdmitUntouched,
                Sizing!AdmitAs, Sizing!PodDeleted, Sizing!KubeletVerdict,
                Sizing!CapacityFreed
  <2> QED
    BY <1>1, <1>2, <2>1
<1>5. ASSUME NEW provider \in Providers, Feed(provider)
      PROVE  ReadInv'
  <2>1. UNCHANGED <<status, local>> /\ stage' = "fed"
    BY <1>5 DEF Feed, sizing
  <2> QED
    BY <1>1, <1>3, <2>1
<1>6. ASSUME NEW slip \in BOOLEAN, NEW hold \in BOOLEAN, Compute(slip, hold)
      PROVE  ReadInv'
  <2>1. UNCHANGED <<status, local>> /\ rec' \in 0..LastBucket
    BY <1>6, ReadOutInBuckets DEF Compute, sizing, Histogram!Recommend
  <2>2. obs \in Fed /\ obs' = [n \in DOMAIN obs |-> [obs[n] EXCEPT !.raw = Readout(rec')]]
    BY <1>6 DEF Compute, Inv
  <2>3. DOMAIN obs' = Containers /\ \A n \in Containers : obs'[n].raw = Readout(rec')
    BY <2>2 DEF Fed
  <2>4. Readout(rec)' = Readout(rec')
    BY DEF Readout, Histogram!UpperBound, Amount
  <2>5. Current'
    BY <2>1, <2>3, <2>4 DEF Current
  <2> QED
    BY <1>1, <2>1, <2>5
<1>7. ASSUME NEW hold \in BOOLEAN, Gap(hold)
      PROVE  ReadInv'
  <2>1. UNCHANGED <<status, local>> /\ obs' = NoObs
    BY <1>7 DEF Gap, Starting, Inv, sizing
  <2>2. NoObs' = NoObs
    BY DEF NoObs, Amount
  <2> QED
    BY <1>1, <2>1, <2>2 DEF Current
<1>8. CASE (\E slip \in Slips : ActResize(slip)) \/ ActEvict \/ ActHold
  <2>1. /\ obs \in Sizing!Metrics /\ status' = status /\ stage' = "idle"
        /\ local' \in {Sizing!Recommended(obs),
                       Sizing!Coordinated(Sizing!Recommended(obs), obs, NoHPA)}
    BY <1>8 DEF ActResize, ActEvict, ActHold, Act, Inv, Sizing!PassResize,
                Sizing!PassEvict, Sizing!PassHold
  <2>2. Managed(local')
    BY <2>1, RecommendedManaged
  <2>3. Managed(status)' /\ Managed(local)'
    BY <2>1, <2>2 DEF Managed
  <2> QED
    BY <1>3, <2>1, <2>3
<1>9. CASE PatchStatus \/ PatchFailed \/ Crash
  <2>1. status' \in {status, local} /\ local' = Sizing!NoRecs
    BY <1>9 DEF PatchStatus, PatchFailed, Crash, Sizing!PatchStatus, Sizing!PatchFailed
  <2>2. Managed(status)' /\ Managed(local)'
    BY <2>1 DEF Managed, Sizing!NoRecs
  <2>3. UNCHANGED <<stage, obs, rec>> \/ stage' # "act"
    BY <1>9 DEF PatchStatus, PatchFailed, Crash, pass, histogram
  <2> QED
    BY <1>2, <1>3, <2>2, <2>3
<1> QED
  BY <1>4, <1>5, <1>6, <1>7, <1>8, <1>9 DEF Next, Pass

\* A request at or above the bound of the bucket read out covers the percentile.
LEMMA BoundCovers ==
  ASSUME Histogram!Inv, Histogram!Covers, rec \in 0..LastBucket,
         NEW req \in Nat, NEW max, Histogram!UpperBound(rec) <= req
  PROVE  Covered(req, max)
<1>1. CASE rec = LastBucket
  BY <1>1 DEF Covered
<1>2. CASE rec # LastBucket
  <2> DEFINE ub == Histogram!UpperBound(rec)
             d == Histogram!Decayed(Histogram!UpTo(ub))
             e == Histogram!Decayed(Histogram!UpTo(req))
             p == Percentile * Histogram!Decayed(counted)
  <2>1. d * 100 >= p
    BY <1>2 DEF Histogram!Covers, Histogram!Buckets
  <2>2. ub \in Nat
    BY HistogramAssumptions, Histogram!UpperBounds DEF Histogram!Buckets
  <2>3. Histogram!UpTo(ub) \subseteq Histogram!UpTo(req)
    <3>1. \A s \in counted : s[3] \in Nat
      BY HistogramAssumptions, Histogram!SampleFacts
    <3> HIDE DEF ub
    <3>2. ub <= req
      BY DEF ub
    <3>3. \A s \in counted : s[3] <= ub => s[3] <= req
      BY <2>2, <3>1, <3>2
    <3> QED
      BY <3>3 DEF Histogram!UpTo
  <2>4. /\ d \in Nat /\ e \in Nat /\ d <= e
        /\ Histogram!Decayed(counted) \in Nat
    <3>1. Histogram!UpTo(req) \subseteq counted
      BY DEF Histogram!UpTo
    <3> HIDE DEF ub
    <3> QED
      BY <2>3, <3>1, HistogramAssumptions, Histogram!FewerCounted
  <2>5. p \in Nat
    BY <2>4, KuberaAssumption
  <2> HIDE DEF d, e, p
  <2>6. e * 100 >= p
    BY <2>1, <2>4, <2>5
  <2> QED
    BY <2>6 DEF Covered, e, p
<1> QED
  BY <1>1, <1>2

\* The target of a container a pass has read is at or above the readout, or the
\* max of its bounds.
LEMMA TargetsEnough ==
  ASSUME Current, stage = "act", obs # NoObs, NEW n \in Containers,
         Managed(status), obs \in Sizing!Metrics, Sizing!TypeOK,
         n \in DOMAIN Sizing!Recommended(obs)
  PROVE  LET t == Sizing!Coordinated(Sizing!Recommended(obs), obs, NoHPA)[n]
             ub == Histogram!UpperBound(rec)
         IN  /\ t \in Sizing!Targets /\ ub \in Nat
             /\ ub <= t.cpu \/ CPUBounds[n].max <= t.cpu
             /\ ub <= t.mem \/ MemBounds[n].max <= t.mem
<1> DEFINE ub == Histogram!UpperBound(rec)
           raw == Amount(ub)
           t == Sizing!Recommend(raw, CPUBounds[n], MemBounds[n])
<1>1. n \notin OffContainers
  BY RecommendedManaged DEF Managed
<1>2. rec \in 0..LastBucket /\ DOMAIN obs = Containers /\ obs[n].raw = raw
  BY DEF Current, Readout
<1>3. ub \in Nat
  BY <1>2, HistogramAssumptions, Histogram!UpperBounds DEF Histogram!Buckets
<1> HIDE DEF ub
<1>4. raw \in Sizing!Targets /\ raw.cpu = ub /\ raw.mem = ub
  BY <1>3 DEF Amount, Sizing!Targets
<1> HIDE DEF raw
<1>5. Sizing!Recommended(obs)[n] = t
  BY <1>1, <1>2 DEF Sizing!Recommended
<1>6. Sizing!Coordinated(Sizing!Recommended(obs), obs, NoHPA)[n] = t
  BY <1>5 DEF Sizing!Coordinated, NoHPA
<1>7. /\ CPUBounds[n] \in Sizing!Bounds /\ MemBounds[n] \in Sizing!Bounds
      /\ CPUBounds[n].min <= CPUBounds[n].max /\ MemBounds[n].min <= MemBounds[n].max
  BY KuberaAssumption
<1>8. /\ t \in Sizing!Targets
      /\ raw.cpu <= t.cpu \/ CPUBounds[n].max <= t.cpu
      /\ raw.mem <= t.mem \/ MemBounds[n].max <= t.mem
  BY <1>4, <1>7, SizingAssumptions, Sizing!RecommendInBounds, Sizing!RecommendEnough
<1> QED
  BY <1>3, <1>4, <1>6, <1>8 DEF ub

\* The pod of the loop changes in ActResize alone, while it lives.
LEMMA OnlyResizeMoves ==
  ASSUME [Next]_vars, alive, alive', stage = "act"
  PROVE  pod' = pod \/ \E slip \in Slips : ActResize(slip)
<1>1. CASE (\E slip \in Slips : Admit(slip)) \/ AdmitUntouched
  BY <1>1 DEF Admit, AdmitUntouched, Sizing!Admit, Sizing!AdmitUntouched, Sizing!AdmitAs
<1>2. CASE ActEvict \/ ActHold
  BY <1>2 DEF ActEvict, ActHold, Sizing!PassEvict, Sizing!PassHold, Sizing!Evict, Sizing!podVars
<1>3. CASE \/ Tick \/ Scrape \/ UNCHANGED vars \/ PatchStatus \/ PatchFailed \/ Crash
           \/ \E provider \in Providers : Feed(provider)
           \/ \E slip, hold \in BOOLEAN : Compute(slip, hold)
           \/ \E hold \in BOOLEAN : Gap(hold)
           \/ Environment
  BY <1>3 DEF Tick, Scrape, vars, sizing, PatchStatus, PatchFailed, Crash, Feed, Compute,
              Gap, Environment, Sizing!PatchStatus, Sizing!PatchFailed, Sizing!podVars,
              Sizing!PodDeleted, Sizing!KubeletVerdict, Sizing!CapacityFreed
<1> QED
  BY <1>1, <1>2, <1>3 DEF Next, Pass

\* For every load, provider, schedule and percentile: a pass that has read usage
\* lowers no request below the percentile of the decayed usage remembered, unless
\* the max of the spec or the last bucket stops it.
THEOREM LoopCoversUsage == Spec => CoversUsage
<1>1. ASSUME Inv, ReadInv, Sizing!Inv, Histogram!Inv, Histogram!Covers, [Next]_vars,
             alive, alive', stage = "act", obs # NoObs, NEW n \in Containers
      PROVE  /\ pod'[n].cpuReq < pod[n].cpuReq => Covered(pod'[n].cpuReq, CPUBounds[n].max)
             /\ pod'[n].memReq < pod[n].memReq => Covered(pod'[n].memReq, MemBounds[n].max)
  <2> DEFINE targets == Sizing!Coordinated(Sizing!Recommended(obs), obs, NoHPA)
             new == pod'[n]
             ub == Histogram!UpperBound(rec)
  <2>1. pod[n].cpuReq \in Nat /\ pod[n].memReq \in Nat
    BY <1>1 DEF Sizing!Inv, Sizing!TypeOK, Sizing!Resources
  <2>2. CASE pod' = pod
    BY <2>1, <2>2
  <2>3. ASSUME NEW slip \in {0, 1}, Sizing!PassResize(obs, NoHPA, slip)
        PROVE  /\ new.cpuReq < pod[n].cpuReq => Covered(new.cpuReq, CPUBounds[n].max)
               /\ new.memReq < pod[n].memReq => Covered(new.memReq, MemBounds[n].max)
    <3>1. obs \in Sizing!Metrics
      BY <1>1 DEF Inv
    <3>2. \/ new = pod[n]
          \/ /\ Sizing!Sound(n, new)
             /\ Sizing!Bumped(n, new) \/ Sizing!Stepped(n, new, targets)
      BY <1>1, <2>3, <3>1, SizingAssumptions, Sizing!PassMoves
    <3>3. CASE new = pod[n]
      BY <2>1, <3>3
    <3>4. CASE Sizing!Sound(n, new) /\ Sizing!Bumped(n, new)
      BY <2>1, <3>4 DEF Sizing!Sound, Sizing!Bumped, Sizing!Resources
    <3>5. CASE Sizing!Sound(n, new) /\ Sizing!Stepped(n, new, targets)
      <4>1. n \in DOMAIN targets
        BY <3>5 DEF Sizing!Stepped
      <4>2. n \in DOMAIN Sizing!Recommended(obs)
        BY <4>1 DEF Sizing!Coordinated
      <4>3. /\ targets[n] \in Sizing!Targets /\ ub \in Nat
            /\ ub <= targets[n].cpu \/ CPUBounds[n].max <= targets[n].cpu
            /\ ub <= targets[n].mem \/ MemBounds[n].max <= targets[n].mem
        BY <1>1, <3>1, <4>2, TargetsEnough DEF ReadInv, Sizing!Inv
      <4>4. new.cpuReq \in Nat /\ new.memReq \in Nat
        BY <3>5 DEF Sizing!Sound, Sizing!Resources
      <4>5. CPUBounds[n].max \in Nat /\ MemBounds[n].max \in Nat
        BY KuberaAssumption DEF Sizing!Bounds
      <4>6. /\ Sizing!Between(new.cpuReq, pod[n].cpuReq, targets[n].cpu)
            /\ Sizing!Between(new.memReq, pod[n].memReq, targets[n].mem)
        BY <3>5 DEF Sizing!Stepped
      <4>7. rec \in 0..LastBucket
        BY <1>1 DEF ReadInv, Current
      <4>8. /\ ub <= new.cpuReq => Covered(new.cpuReq, CPUBounds[n].max)
            /\ ub <= new.memReq => Covered(new.memReq, MemBounds[n].max)
        BY <1>1, <4>4, <4>7, BoundCovers
      <4>9. /\ CPUBounds[n].max <= new.cpuReq => Covered(new.cpuReq, CPUBounds[n].max)
            /\ MemBounds[n].max <= new.memReq => Covered(new.memReq, MemBounds[n].max)
        BY <4>4, <4>5 DEF Covered
      <4> HIDE DEF targets, new, ub
      <4>10. targets[n].cpu \in Nat /\ targets[n].mem \in Nat
        BY <4>3 DEF Sizing!Targets
      <4>11. /\ new.cpuReq < pod[n].cpuReq =>
                  ub <= new.cpuReq \/ CPUBounds[n].max <= new.cpuReq
             /\ new.memReq < pod[n].memReq =>
                  ub <= new.memReq \/ MemBounds[n].max <= new.memReq
        BY <2>1, <4>3, <4>4, <4>5, <4>6, <4>10 DEF Sizing!Between
      <4> QED
        BY <4>8, <4>9, <4>11
    <3> QED
      BY <3>2, <3>3, <3>4, <3>5
  <2> QED
    BY <1>1, <2>2, <2>3, OnlyResizeMoves DEF ActResize, Slips
<1>2. /\ Sizing!Spec => []Sizing!Inv
      /\ Histogram!Spec => []Histogram!Inv
      /\ Histogram!Spec => []Histogram!Covers
  <2>1. Sizing!Spec => []Sizing!Inv
    BY SizingAssumptions, Sizing!Invariance
  <2>2. Histogram!Spec => []Histogram!Inv
    BY HistogramAssumptions, Histogram!Invariance
  <2>3. Histogram!Spec => []Histogram!Covers
    BY HistogramAssumptions, Histogram!CoversHolds
  <2> QED
    BY <2>1, <2>2, <2>3
<1>3. Inv /\ ReadInv /\ Sizing!Inv /\ Histogram!Inv /\ Histogram!Covers /\ [Next]_vars =>
        [alive /\ alive' /\ stage = "act" /\ obs # NoObs =>
           \A n \in Containers :
             /\ pod'[n].cpuReq < pod[n].cpuReq => Covered(pod'[n].cpuReq, CPUBounds[n].max)
             /\ pod'[n].memReq < pod[n].memReq => Covered(pod'[n].memReq, MemBounds[n].max)]_vars
  BY <1>1
<1> QED
  BY <1>2, <1>3, InvInit, InvNext, ReadInvInit, ReadInvStep, LoopSizesPods, LoopRemembers, PTL
     DEF Spec, SizesPods, CoversUsage
============================================================================
