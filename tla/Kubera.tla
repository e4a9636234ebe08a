------------------------------ MODULE Kubera ------------------------------
(***************************************************************************)
(* The whole sizing loop of one workload with one pod: the load, a metrics *)
(* provider that samples it, the recommender that remembers the samples,   *)
(* the pass that turns its readout into a resize or an eviction, the       *)
(* status patch, the webhook, and an operator that may restart anywhere.   *)
(*                                                                         *)
(* Composes Recommender and Resizing: computeRecommendations is a step of  *)
(* the first for Observe and one for Recommend, and what it returns is     *)
(* what a pass of the second is given.  One histogram stands for that of   *)
(* the CPU and that of the memory.  No HPA targets the workload.           *)
(*                                                                         *)
(* Both are instantiated together with what is proved of them, so that the *)
(* loop can cite their theorems.                                           *)
(***************************************************************************)
EXTENDS Integers

CONSTANTS \* Resizing
          CPURounding, MemRounding, MinMemory, Containers, OffContainers, Template,
          CPUBounds, MemBounds, Policy, UpdateMode, WebhookEnabled, LimitBound,
          \* Recommender
          Base, LastBucket, Percentile, MaxExp, MaxTime,
          Loads,       \* usage the load may cause
          LastChange,  \* bound: the load is constant after this time
          Providers    \* metrics backends the spec may name

VARIABLES pod, alive, qos, resize, oom, status, local, pc, seen, refused,
          lastSample, weights, totalWeight, refTime, rec, counted,
          clock,   \* in half-lives
          load,    \* usage of the pod's containers
          sample,  \* the provider's newest scrape of the running pod: [t, v]
          stage,   \* of a pass, before it acts: "idle", "fed", "act"
          obs,     \* what the pass has read and computed from it, by container
          withheld \* a cooldown, the rate limit or a disruption budget stands in
                   \* the way of what the pass would do

\* Whatever pod is running: a replacement continues the series of the pod it
\* replaces, so at most one sample is counted per unit of time.
Running == "pod"

Amount(q) == [cpu |-> q, mem |-> q]
Histogram == INSTANCE RecommenderProofs WITH Pods <- {Running}, Values <- Loads

NoHPA == [present |-> FALSE, cpu |-> 0, mem |-> 0, headroom |-> 0]
AllReadings == [raw   : {Amount(Histogram!UpperBound(b)) : b \in 0..LastBucket},
                usage : {Amount(v) : v \in Loads}]
Sizing == INSTANCE ResizingProofs WITH HPAs <- {NoHPA}, Readings <- AllReadings, Gaps <- TRUE

sizing == <<pod, alive, qos, resize, oom, status, local, pc, seen, refused>>
histogram == <<lastSample, weights, totalWeight, refTime, rec, counted>>
world == <<clock, load, sample>>
pass == <<stage, obs, withheld>>
vars == <<sizing, histogram, world, pass>>

\* What Resizing and Recommender assume of their constants.
ASSUME KuberaAssumption ==
  /\ CPURounding \in Nat \ {0}
  /\ MemRounding \in Nat \ {0}
  /\ MinMemory \in Nat \ {0}
  /\ OffContainers \subseteq Containers
  /\ Template \in [Containers -> Sizing!Resources]
  /\ \A n \in Containers : Sizing!RequestsUnder(Template[n])
  /\ CPUBounds \in [Containers -> Sizing!Bounds]
  /\ MemBounds \in [Containers -> Sizing!Bounds]
  /\ \A n \in Containers : /\ CPUBounds[n].min <= CPUBounds[n].max
                           /\ MemBounds[n].min <= MemBounds[n].max
  /\ Policy \in Sizing!Policies
  /\ UpdateMode \in {"Off", "InPlaceOnly", "InPlaceOrRecreate"}
  /\ WebhookEnabled \in BOOLEAN
  /\ LimitBound \in Nat
  /\ Loads \subseteq Nat
  /\ Base \in Nat \ {0}
  /\ LastBucket \in Nat
  /\ Percentile \in 50..100
  /\ MaxExp \in Nat
  /\ MaxTime \in Nat \ {0}
  /\ Providers \subseteq {"MetricsServer", "Prometheus"}

NoSample == [t |-> 0, v |-> 0]
NoObs == [n \in {} |-> Amount(0)]

Init ==
  /\ Sizing!Init
  /\ Histogram!Init
  /\ clock = 1
  /\ load \in Loads
  /\ sample = NoSample
  /\ stage = "idle"
  /\ obs = NoObs
  /\ withheld = FALSE

---------------------------------------------------------------------------
(* The load and the provider.                                              *)

\* A running pod is scraped at least once in every unit of time.
Tick ==
  /\ clock < MaxTime
  /\ alive => sample.t = clock
  /\ clock' = clock + 1
  /\ IF clock <= LastChange THEN load' \in Loads ELSE UNCHANGED load
  /\ UNCHANGED <<sizing, histogram, sample, pass>>

Scrape ==
  /\ alive /\ sample.t < clock
  /\ sample' = [t |-> clock, v |-> load]
  /\ UNCHANGED <<sizing, histogram, clock, load, pass>>

\* A sample of the Metrics Server carries the time of the scrape, one of
\* Prometheus that of the query, so the same scrape can count again later.
ScrapeTime == sample.t
QueryTime == clock

\* providerFor: the backend the spec names.
Timestamp(provider) == IF provider = "Prometheus" THEN QueryTime ELSE ScrapeTime

---------------------------------------------------------------------------
(* A pass.                                                                 *)

Starting == stage = "idle" /\ pc = "idle"

\* computeRecommendations reads the provider and feeds the recommender, which
\* drops a sample that is not newer than the last one of the pod.  The series of a
\* pod that is gone is served until the next unit of time.
Feed(provider) ==
  /\ Starting /\ sample.t > 0 /\ (alive \/ sample.t = clock)
  /\ LET t == Timestamp(provider)
     IN  IF Histogram!Newer(Running, t)
         THEN Histogram!Observe(Running, t, sample.v)
         ELSE UNCHANGED histogram
  /\ stage' = "fed"
  /\ obs' = [n \in Containers |-> [raw |-> Amount(0), usage |-> Amount(sample.v)]]
  /\ UNCHANGED <<sizing, world, withheld>>

\* Fault: the last sample is taken for the readout.
Readout_Last(bucket) == Amount(sample.v)

Readout(bucket) == Amount(Histogram!UpperBound(bucket))

\* ... and reads the percentile out of its histogram.
Compute(slip, hold) ==
  /\ stage = "fed"
  /\ Histogram!Recommend(slip)
  /\ stage' = "act"
  /\ obs' = [n \in DOMAIN obs |-> [obs[n] EXCEPT !.raw = Readout(rec')]]
  /\ withheld' = hold
  /\ UNCHANGED <<sizing, world>>

\* The provider has nothing on the pods of the workload.
Gap(hold) ==
  /\ Starting
  /\ stage' = "act"
  /\ withheld' = hold
  /\ UNCHANGED <<sizing, histogram, world, obs>>

Act ==
  /\ stage = "act"
  /\ stage' = "idle"
  /\ obs' = NoObs
  /\ withheld' = FALSE
  /\ UNCHANGED <<histogram, world>>

\* There is something to do to the pod.
Due ==
  LET targets == Sizing!Coordinated(Sizing!Recommended(obs), obs, NoHPA)
  IN  /\ alive
      /\ Sizing!Acting(targets)
      /\ IF Sizing!MustRecreate(targets) THEN WebhookEnabled
         ELSE resize # "infeasible" /\ \E slip \in {0, 1} : DOMAIN Sizing!PlanOf(targets, slip) # {}

ActResize(slip) == Act /\ ~withheld /\ Sizing!PassResize(obs, NoHPA, slip)
ActEvict == Act /\ ~withheld /\ Sizing!PassEvict(obs, NoHPA)
ActHold == Act /\ (withheld \/ ~Due) /\ Sizing!PassHold(obs, NoHPA)

PatchStatus == Sizing!PatchStatus /\ UNCHANGED <<histogram, world, pass>>
PatchFailed == Sizing!PatchFailed /\ UNCHANGED <<histogram, world, pass>>

\* Fault: a restart starts from an empty status.
Crash_Wipes ==
  /\ stage' = "idle" /\ obs' = NoObs /\ withheld' = FALSE
  /\ Histogram!Restart
  /\ pc' = "idle" /\ status' = Sizing!NoRecs /\ local' = Sizing!NoRecs /\ seen' = Sizing!Unread
  /\ UNCHANGED <<pod, alive, qos, resize, oom, refused, world>>

\* The operator restarts: the histograms and the pass in flight are gone, what
\* was patched into pods and status stays.
Crash ==
  /\ stage' = "idle" /\ obs' = NoObs /\ withheld' = FALSE
  /\ Histogram!Restart
  /\ pc' = "idle" /\ local' = Sizing!NoRecs /\ seen' = Sizing!Unread
  /\ UNCHANGED <<pod, alive, qos, resize, oom, status, refused, world>>

---------------------------------------------------------------------------
(* The pod.                                                                *)

\* A replacement has no scrape yet.
Unscraped == sample' = NoSample /\ UNCHANGED <<histogram, clock, load, pass>>

Admit(slip) == Sizing!Admit(slip) /\ Unscraped
AdmitUntouched == Sizing!AdmitUntouched /\ Unscraped

\* OOMKills are left to Resizing.
Environment ==
  /\ Sizing!PodDeleted \/ Sizing!KubeletVerdict \/ Sizing!CapacityFreed
  /\ UNCHANGED <<histogram, world, pass>>

---------------------------------------------------------------------------
Slips == {0, 1}

Pass == \/ \E provider \in Providers : Feed(provider)
        \/ \E slip, hold \in BOOLEAN : Compute(slip, hold)
        \/ \E hold \in BOOLEAN : Gap(hold)
        \/ \E slip \in Slips : ActResize(slip)
        \/ ActEvict
        \/ ActHold
        \/ PatchStatus
        \/ PatchFailed

Next == \/ Pass
        \/ Crash
        \/ Tick
        \/ Scrape
        \/ \E slip \in Slips : Admit(slip)
        \/ AdmitUntouched
        \/ Environment

Spec == Init /\ [][Next]_vars

\* Time goes on and the provider scrapes, passes are repeated for ever and end,
\* no gap, withholding or failing patch lasts for ever, and the webhook does not
\* miss every replacement.
Fairness ==
  /\ WF_vars(Tick)
  /\ WF_vars(Scrape)
  /\ SF_vars(\E provider \in Providers : Feed(provider))
  /\ SF_vars(\E slip \in BOOLEAN : Compute(slip, FALSE))
  /\ WF_vars(\E hold \in BOOLEAN : Gap(hold))
  /\ WF_pass(Act)
  /\ WF_vars(PatchStatus \/ PatchFailed)
  /\ SF_vars(PatchStatus /\ local # status)
  /\ SF_vars(\E slip \in Slips : Admit(slip))

FairSpec == Spec /\ Fairness

---------------------------------------------------------------------------
(* Properties.                                                             *)

\* The loop implements Resizing: whatever the provider answers, late, twice or
\* not at all, and wherever a pass is cut off by a restart, pods and status only
\* go through steps that Resizing allows, and its theorems hold here.
SizesPods == Sizing!Spec

\* No resize the loop makes is refused by the API server.
NeverRefused == Sizing!NeverRefused

\* A pass that has read usage lowers no request below the configured percentile
\* of the usage remembered, each sample weighted by its age: only the maximum of
\* the spec, or usage beyond the last bucket, stops it short (Observe, percentile,
\* the margin, the clamp and the step rules of PlanPod together).
Covered(req, max) ==
  \/ req >= max
  \/ req >= Histogram!UpperBound(LastBucket)
  \/ Histogram!Decayed(Histogram!UpTo(req)) * 100 >= Percentile * Histogram!Decayed(counted)

CoversUsage ==
  [][alive /\ alive' /\ stage = "act" /\ obs # NoObs =>
       \A n \in Containers :
         /\ pod'[n].cpuReq < pod[n].cpuReq => Covered(pod'[n].cpuReq, CPUBounds[n].max)
         /\ pod'[n].memReq < pod[n].memReq => Covered(pod'[n].memReq, MemBounds[n].max)]_vars

\* Once the load stays the same, and pods and operator are no longer disturbed,
\* the pod ends up within tolerance of the target that this load calls for,
\* whatever load, gaps, restarts, lost patches and replacements came before.
Wanted(n) ==
  Sizing!Recommend(Readout(Histogram!BucketFor(load)), CPUBounds[n], MemBounds[n])

OnTarget ==
  /\ alive
  /\ \A n \in Containers \ OffContainers :
       /\ Sizing!WithinTolerance(pod[n].cpuReq, Wanted(n).cpu, Policy)
       /\ Sizing!WithinTolerance(pod[n].memReq, Wanted(n).mem, Policy)

Undisturbed == Sizing!Undisturbed /\ ~Crash

Tracks == <>[][Undisturbed]_vars => <>[]OnTarget
============================================================================
