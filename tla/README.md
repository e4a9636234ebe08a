# KubeRA in TLA+

KubeRA is a Kubernetes operator that sizes the pods of Deployments: it samples
CPU and memory usage, turns the samples into per-container targets and resizes
running pods in place, or evicts them and lets a webhook size the replacement.
This directory holds TLA+ models of its control logic, the TLC configurations
that check them on small instances, and TLAPS proofs of the main safety
properties for all instances. `PROJECT.json` maps every definition to the lines
it models and lists components, hazards, runs, mutants, findings and theorems.

## 1. The system

| Component | State | Operations | Talks to |
|---|---|---|---|
| Reconciler (`internal/controller/dynamicresource_controller.go`, `vpa.go`) | work queue, requeue timers, the status of each DynamicResource | `Reconcile`: bounds, selector, conflict, VPA, match, provider guards in that order, then recommend, actuate, patch the status; watch mappers that enqueue | API server, recommendation pipeline, actuation loop |
| Recommendation pipeline (`recommendation.go`) | none of its own; a usage snapshot per pass | `computeRecommendations`: read metrics, feed the recommender, apply margin, rounding, floors and bounds | metrics provider, recommender |
| Usage recommender (`internal/recommender`) | per container two decaying histograms and the time of each pod's last sample, in memory | `Observe`, `Recommend`, `Forget` (never called by the operator) | pipeline |
| Actuation loop (`internal/controller/actuation.go`) | per pass: eviction budget, directions resized, findings | `actuate`: over workloads, over pods: evict, report, OOM bump, plan, resize, record | HPA coordination, planner, resizer, cooldown tracker |
| HPA coordination (`internal/coordination`) | none | find the HPA, detect scaling, request floors | actuation loop |
| Resize planner (`internal/actuator/plan.go`, `oom.go`, `recreate.go`) | none (pure) | `PlanPod`, `PlanOOMBump`, `BlockedMemoryShrink`, limits, QoS | actuation loop |
| Resizer and cooldown tracker (`resizer.go`) | last resize per workload and direction, in memory | `Apply`, `Evict`, `Allow`, `Record` | API server, rate limiter |
| Rate limiter (built in `cmd/main.go`) | a token bucket shared by all passes, in memory, full after every start | `Allow` | resizer |
| Pod webhook (`internal/webhook/pod_webhook.go`) | none; reads published statuses | `Default`: inject the recommendation into a new pod | API server, concurrently with passes |
| Metrics providers (`internal/metrics`) | none | `ListPodUsage` of metrics-server and of Prometheus: usage per container with a timestamp | pipeline |
| Controller metrics, start-up, kubectl plugin, API types | I/O, formatting, declarations | | |

What is hard about it:

- a pass is not atomic: pods are resized or evicted before the status that
  justifies it is patched, and the webhook reads that status from another
  goroutine and possibly another process;
- a pass can end at any call with an error, after it has acted on some pods and
  before it has recorded it; the reply of a call that took effect can be lost; the
  controller can restart, and cooldowns, histograms and the limiter's bucket live
  in memory only;
- ownership of a workload is decided from the specs of all objects at the start
  of a reconcile, in reads that follow one another while users create, edit and
  delete them;
- sizes are the outcome of long sequences: each plan starts from what earlier
  plans, bumps and caps left in the pod, in integer percentages and float
  ratios;
- samples are read more often than they are produced, late and repeatedly, and
  the weights that count them are rescaled on the way;
- the parts close a loop: what is read decides the size of a pod, an eviction
  decides what can be read, and the webhook that closes the gap may be down.

What makes each component correct is stated as properties in section 4; the
list of hazards with the line where each one bites is in `PROJECT.json`.

## 2. Modules

| Module | Models | State and actions |
|---|---|---|
| `Planner` | the pure functions from a percentile readout to a patch: margin, rounding, clamping, HPA floors, tolerance, step caps, limits, OOM bump, QoS class, webhook injection | operators only; a container is a record of CPU and memory requests and limits, 0 meaning absent |
| `Resizing` | one DynamicResource and one pod: passes, status patch, webhook admission, kubelet | `pod`, `qos`, `resize`, `oom`, published `status`, `local` copy of the pass in flight; one action per way a pass can go, `PatchStatus`/`PatchFailed`, `Admit`, `AdmitUntouched` (the webhook missed the pod), `PodDeleted`, `KubeletVerdict`, `CapacityFreed`, `OOMKill`, `OOMForgotten` |
| `Actuation` | the two loops of `actuate` with the cooldown tracker, every early return, errors, restarts and spec edits | `age` (the tracker), the cooldowns of the spec, loop position, `dirs`, `budget`, `result` and `worst`, the ResizeInfeasible condition and `hpaState`; one action per branch of the loops, `EvictUnnoticed` and `ApplyUnnoticed` for lost replies, `OffPass` for a pass that does not call `actuate` |
| `Spacing` | abstract: what the cooldowns promise, without the walk | `since`, `cooldown`, `known`; `Begin`, `Resize`, `ResizeUnnoticed`, `Remember`, `Abort`, `Restart` |
| `Controller` | the reconciler over all objects of a namespace, the queue, watches, users and the webhook's choice of an object (`FindRecommendation`) | API objects, Deployments, VPAs, statuses, queue, timers, the reconcile in flight and what it has read; one action per read (`Get`, `ListDeployments`, `ListObjects`, the VPAs of `Proceed` and `RejectVPA`), early return and error |
| `TokenBucket` | how fast pods are touched: the limiter, its two callers and restarts | bucket level and an arbitrary window being watched, with the pods touched and the restarts in it; `Apply`, `Evict`, `Restart`, `Second`, `Watch` |
| `Recommender` | one decaying histogram of one container | weights, reference time, last sample per pod; `Observe`, `Recommend`, `Restart` |
| `Kubera` | the closed loop of one workload: load, provider, `Recommender`, the passes of `Resizing`, webhook, restarts | the variables of both, `clock`, `load`, the provider's newest `sample`, and the `stage`, `obs` and `withheld` of a pass; `Tick`, `Scrape`, `Feed`, `Compute`, `Gap`, `ActResize`/`ActEvict`/`ActHold`, `PatchStatus`/`PatchFailed`, `Crash`, `Admit`/`AdmitUntouched`, `Environment` |
| `PlannerProofs`, `ResizingProofs`, `ActuationProofs`, `ControllerProofs`, `RecommenderProofs`, `TokenBucketProofs`, `KuberaProofs` | theorems about the module they extend | |
| `MCResizing`, `MCActuation`, `MCController`, `MCRecommender`, `MCKubera` | values for the constants | |

`Resizing` uses `Planner` for what is done and leaves open when: any pass may
withhold its action (`PassHold`). `Actuation` decides when, and leaves open what
a pod needs (`need`, an input). `Controller` decides which object acts, and
treats a pass as a set of workloads touched. The boundaries are therefore
over-approximations: what is proved of `Resizing` holds whatever `Actuation`
withholds, and so on.

Three refinements tie the modules together. `Kubera` instantiates `Recommender`
and `Resizing` (each with its proofs, so that the loop can cite their theorems)
and composes them: `computeRecommendations` is a step of the
first for `Observe` and one for `Recommend`, and its readout is what a pass of
the second is given. `SizesPods` says that the loop implements `Resizing`, so
that what holds of `Resizing` for every answer of a provider holds of the loop;
it implements `Recommender` in the same way.
`Actuation` implements `Spacing` (`KeepsSpacing`), the promise about cooldowns
in terms of resizes made and remembered: a tracker that stamps late, reads early
and is shared by objects with different cooldowns comes to the same thing.

Operators whose name has a suffix (`OOMMemory_Uncapped`, `Allow_Early`) are
faults: the definition after it with a plausible mistake. Nothing uses them;
each is there to show that a property fails when the code is wrong that way.

### Abstractions

- A label selector is the set of Deployments it matches; names are numbers in
  name order; creation times keep their one-second ties.
- Quantities are integers: one unit is a rounding step, and `MinMemory` scales
  the 32Mi floor. The 1.10 margin and percentages are exact rational arithmetic
  rounded as the code rounds; where the code multiplies by a float ratio and
  truncates, the result may be one below the exact one (`slip`).
- A recommendation's percentile readout is an input of `Resizing` (`Readings`);
  `Recommender` says what it is. `Recommender` has a growth factor of 2 where
  the code has 1.05, so that bucket bounds are integers, and counts time in
  half-lives; sums of floats that would be equal may compare as smaller where
  the code's order of additions allows it (`MaySlip`).
- The pod a pass reads is the pod as it is: the informer cache does not lag.
- `status.applied`, `status.lastResizeTime`, events and gauges are not modelled;
  nothing in the operator reads them back. Whether a target is at its max
  (`AtMaxVertical`) is an input of `Actuation`.
- In-place resize is supported by the cluster (`DetectInPlaceResize`, read once at
  start-up); without it no pass calls `actuate`.
- A pass under updateMode `Off` leaves hpaState and the ResizeInfeasible condition
  as they are (`OffPass`, `dynamicresource_controller.go:167`), however old they
  have become.
- A lost reply leaves the code unaware of what happened: a lost eviction spends no
  `budget` and is not stamped, so that the walk may evict a second pod, and
  `TypeOK` counts acknowledged evictions only; a lost resize ends the pass as any
  other error does. The model marks the stamp as lost, and `Spacing` says what that
  means.
- The four reads of a reconcile are four steps, and users, timers and watches come
  between them. From the list of objects on, the reconcile uses what it has read.
- The flag of the limiter is not negative; 0 gives a full bucket of one that never
  refills.
- In `Actuation` times are ages relative to the start of the pass, saturated at
  `Cap`; in the code all stamps of a pass carry the same `now`, so time goes by
  only when a pass starts, and a tick is no longer than the shortest time between
  two passes. A pass reads its cooldowns from `Cooldowns`: a spec may be edited,
  and two objects in turn may ask the same tracker, which is keyed by workload.
- In `Kubera` one histogram stands for CPU and memory, a replacement continues
  the series of the pod it replaces, at most one sample is counted per unit of
  time, the series of a pod that is gone ends with the unit of time, no HPA
  targets the workload, and OOMKills are left to `Resizing`. `withheld` stands
  for cooldowns, the rate limit and disruption budgets.

## 3. Runs

| Run | Instance | Shows |
|---|---|---|
| `resizing_safety` | one Burstable container, InPlaceOrRecreate with the webhook, an HPA that comes, scales and goes, three loads, metrics gaps | the six safety properties of a pod's resources over every history |
| `kubera_loop` | a Guaranteed pod with a managed and an `Off` container, InPlaceOrRecreate, webhook; loads of 1 and 4 that change in the first unit of time, four half-lives, four buckets, percentile 70, both providers | the loop implements `Resizing`, never shrinks below the remembered percentile and follows the load; resizes are never refused |
| `actuation_cooldown` | one workload, two pods, cooldowns of (2, 3) and (3, 1) ticks that change between passes, all three update modes, errors, lost replies, restarts (123 thousand states) | cooldowns, siblings, eviction budget, `Spacing` |
| `actuation_liveness` | two workloads, one pod in the first, which an HPA targets, and two in the second; webhook off, all three update modes, a pod of the first that gets stuck, pods of the second that come to need more or get stuck too (55 thousand states) | pods are served, what cannot be done is reported, and so is a scaling HPA |
| `controller_ownership` | two objects of the same second, the second refused in each of the three ways until it is edited, one Deployment, two user changes, all reads apart, every error (356 thousand states) | one master at a time, no starvation |
| `token_bucket` | 5 in a minute of 12 seconds, windows up to 30 seconds with up to two restarts | the bound on pods touched, and that the smallest rates do not shut it |
| `recommender_readout` | two pods, four buckets, usages below, between and beyond the bounds, four half-lives, rescaling after one | the readout is the right bucket |
| `ceiling_floored`, `limit_ratchet`, `cooldown_lost`, `stale_injection`, `requests_capped` | as small as the disagreement needs | section 5 |

Why the bounds are enough to meet the interesting cases:

- Requests range over 2..9 with templates inside and at the edge of that range,
  so that tolerance, step caps, floors, clamping and the cap of the OOM bump all
  take effect, several of them in one plan. `LimitBound` stops a Burstable
  memory limit from growing without end (see `limit_ratchet`): passes whose plan
  would exceed it are not taken.
- The longest cooldown is `Cap`, so an age saturates only once every cooldown has
  passed. Where liveness is checked the upward cooldown is 2 ticks, so that a pod
  can be held back by a pass; `Demands` leaves out what needs no cooldown
  (OOM) and the other direction, which `actuation_cooldown` covers. Two pods in one
  workload are needed for sibling effects, a workload with a finding before one with
  pods of its own for what one walk leaves to the next.
- In `kubera_loop` the load may change once the first samples are counted, and
  three units of time remain for the percentile to follow it, through one
  rescaling. The memory of the template is above what its bounds let any load
  call for, so it must shrink through an eviction; the CPU follows the load in
  place, up and down. Steps of 50 percent are used both ways: with the default of
  20 percent a request of four units would not move at all, which is an artefact
  of the small numbers (see section 5 for where it is real).
- Two objects of the same second, of which one is refused at first, and two changes
  include create/edit/delete races between the reads of a reconcile, a younger
  object that takes over when the older is deleted, and a younger one that becomes
  valid while the older is at work. `ControllerProofs` has no bound.
- Five a minute is below the six at which the burst of `main.go:223` would round to
  nothing; a window of 30 seconds is long enough for the bucket to run empty, refill
  and be rebuilt by two restarts.
- Four half-lives with `MaxExp = 1` rescale up to three times, in the middle of a
  stream, and before and after late samples.

No symmetry is used: pods and objects are told apart by name in the tie-breaks,
and liveness is checked under the same configurations.

### Fairness

- `Kubera`: time goes on and a running pod is scraped; polling repeats passes for
  ever and they end (WF of `Gap`, of the step that acts, and of the patch, either
  way it goes); the provider answers again and again, and a cooldown ends and the
  bucket refills, so that nothing is withheld for ever (SF of `Feed` and of
  `Compute` with nothing withheld); the API server does not fail every patch that
  changes the status; the Deployment controller replaces a missing pod and the
  webhook does not miss every replacement (SF of `Admit`). Nothing is assumed of
  the kubelet, of deletions or of restarts: `Tracks` is conditional on the last
  two no longer happening.
- `Actuation`: the work queue keeps reconciling (WF), a workload is not without
  a recommendation for ever (SF of `OpenWorkload` or `PauseWorkload`, whichever
  the HPA's state calls for), and the limiter does not refuse the same pod for ever
  (SF of `ResizePod`). That the object is not left `Off`, and that the HPA of a
  waiting pod's workload does not scale for ever, are conditions of the properties.
  Errors and restarts are absent where liveness is checked: an error in every pass
  would keep everything from being served.
- `Controller`: no request of an object waits for ever in the queue (SF of `Start`),
  the worker goes on (WF), the informers resync every ten hours (WF), and errors of
  the API server, of metrics and of `actuate` cease some day (`<>[][Smooth]_vars`):
  with one in every pass nothing is ever published. The failed patch of an object
  that has been deleted in the meantime is not such an error and may recur
  (`Orphaned`). Timers need not fire.
- `TokenBucket`: time goes on.

## 4. Properties

`Resizing`
- `SizedWithinBounds`: over every history a request is outside its min/max only
  as far as the template was.
- `RequestsUnderLimits`: no request above its limit, so the API server accepts
  the spec, wherever float truncation lands.
- `NeverRefused`: no plan changes the QoS class.
- `MemLimitNeverShrinks`: no in-place shrink of a memory limit.
- `HeadroomKept`: a downward resize leaves the HPA its headroom for every
  container whose usage the pass has read, also when earlier passes published
  unfloored targets during a pause.
- `OOMStaysRaised`: a bump is not undone while the kill is in the lookback
  window and the memory is below its max.

`Kubera`
- `SizesPods`: pods and status go only through steps that `Resizing` allows,
  wherever a restart cuts a pass off.
- `CoversUsage`: a pass that has read usage lowers no request below the configured
  percentile of the decayed usage remembered, stated from the samples and not from
  the histogram: it spans `Observe`, `percentile`, the margin, the clamp and the
  step rules. Only the spec's maximum or usage beyond the last bucket excuses it.
- `Tracks`: once the load stays the same and pods and operator are left alone, the
  pod ends up within tolerance of what this load calls for, whatever load, gaps,
  samples counted again, restarts, lost patches, infeasible resizes, and evictions
  that race the status patch or miss the webhook came before.
- `NeverRefused`, for a Guaranteed pod with a container that is left alone.

`Actuation`: `CooldownRespected`, `KeepsSpacing` (the refinement of `Spacing`),
`SiblingsTogether`, `TypeOK` (with the budget of acknowledged evictions), `Served`,
`InfeasibleReported` (also when the walk goes on to a workload without findings),
`ScalingReported` (a scaling HPA is reported whatever other workloads report, and
no longer once it has stopped); the last three are about objects that are not left
`Off`. `Controller`: `OneMaster` (the pods of a workload pass from one object to
another only if users changed the cluster between the first read of the pass that
had acted and the list of objects of the one that takes over), `OldestManages`
(which includes the object that a failed list of Deployments has left marked
InvalidSelector, and that nobody retries). `TokenBucket`: `TouchesBounded` (what
every window can see, restarts included), `NeverShut` (a positive flag always lets
some resizes through). `Recommender`: `Covers` and
`Smallest`, against a definition of the decayed percentile from the set of
samples that knows neither weights nor reference times.

## 5. Disagreements between the code and what is said of it

Shown by runs that TLC must find violated:

- `ceiling_floored`: `coordinateHPA` floors a target after it was clamped, so a
  pod is sized above `max`, "the ceiling KubeRA will never size above".
- `limit_ratchet`: the limit/request ratio is taken from the current pod, and a
  memory limit is never lowered; after shrinking and growing again the limit is
  a multiple of the "original limit/request ratio".
- `cooldown_lost`: when a resize fails after another pod of the workload has
  been resized, the error returns before `Record`, and the retry resizes again
  at once: "the minimum time between consecutive resizes" is not kept. The same
  holds for an eviction made earlier in the walk.
- `stale_injection`: a Conflicted object "takes no action", but its old
  recommendations stay in its status and the webhook injects them.
- `requests_capped`: under RequestsOnly both requests are capped at the limits left
  untouched; once every container sits at its limits the plan asks for a
  Guaranteed pod (`plan.go:184`), and the API server refuses it in this and every
  later pass: "resize math always preserves the Pod's original QoS class" is said
  in `README.md:266` of the repository.

Seen while modelling and kept out of the properties above by their statements:

- a pass without a usage snapshot (metrics gap) skips the HPA floor but acts on
  kept recommendations (`actuation.go:249`; `docs/dynamicresource.md:208` says a
  downward resize never exceeds target minus headroom);
- at the memory max the OOM bump is nil and the pass goes on to the ordinary
  plan, which may lower the request within the window (`actuation.go:153`);
- a limit scaled by the ratio is truncated: a pod whose only gap is one of CPU, or
  a small one of memory, can lose it in a shrink (100m of 101m becomes 90m of 90m)
  and would change its QoS class, so that the patch is refused (`plan.go:210`);
  this is what `Steady` excludes in section 6;
- at a percentile of 100 the readout may fall through to the last bucket, because
  `totalWeight` and the cumulative sum round differently (`histogram.go:109`);
  `Smallest` is about percentiles below 100;
- a step of 50 percent of 1m is 0, so such a request never grows (`plan.go:236`);
  `Tracks` fails in an instance where steps truncate to nothing;
- an object that is itself Conflicted still blocks younger ones, so a workload
  may be managed by nobody (`dynamicresource_controller.go:251`);
- when metrics cover one of two workloads, the other loses its recommendation
  (`dynamicresource_controller.go:154`; `docs/troubleshooting.md:17`);
- the replacement of an evicted pod may be admitted before the status patch and
  get an older recommendation, and one the webhook misses gets the template's
  resources (`actuation.go:128`, `pod_webhook.go:112`); `Tracks` shows that later
  passes repair both;
- the next reconcile wipes `status.applied`, since fresh recommendations carry
  none and replace the old ones (`dynamicresource_controller.go:161`;
  `dynamicresource_types.go:294` says "what KubeRA last actuated");
- `stabilizationWindow` is declared and documented (`dynamicresource_types.go:180`)
  and read nowhere;
- Prometheus samples carry the time of the query, so a value is counted again in
  every pass until the next scrape (`prometheus.go:124`), and a container without
  a CPU series yet is observed with 0 CPU (`prometheus.go:117`);
- pods come from the informer cache: with a cache that still holds the pod as it
  was before an upward resize, a downward plan would be made from the old limit
  and the patch could lower the memory limit (`actuation.go:93`, `plan.go:216`);
  the models read the pod as it is, so `MemLimitNeverShrinks` says nothing of it;
- `kubera_pod_resizes_total`, "In-place pod resizes performed", counts evictions
  too (`actuation.go:139`);
- the flag `--max-resizes-per-minute` is a "Cluster-wide cap on in-place pod resizes
  per minute" (`cmd/main.go:97`), and the limiter gives more: it starts full, so a
  minute may see the burst, a sixth of the flag, on top of it (35 for the default
  of 30), and each restart in the minute one burst more (`cmd/main.go:223`);
  `TouchesBounded` is the bound that holds. It counts evictions too;
- after an edit to `Off` the last hpaState and ResizeInfeasible stay published
  (`dynamicresource_controller.go:167`);
- a failed list of Deployments is published as InvalidSelector and not retried
  (`dynamicresource_controller.go:103`);
- an eviction that took place although its reply was lost spends no budget, so a
  walk may evict two pods of a workload (`actuation.go:128`;
  `actuation.go:105` says "At most one eviction per workload per pass").

## 6. Proofs

All theorems hold for every value of the constants that satisfies the module's
`ASSUME`: that bounds are ordered, that the template is a pod the API server has
accepted (requests not above limits), and types.

**`PlannerProofs`** has the arithmetic: what the margin, `RequestFloor`,
`StepClamp`, the OOM bump, the scaled limit and a whole plan return, bound and
preserve. The facts about products and integer quotients that the provers do not
find alone (`ProductMonotonic`, `Quotient`, `QuotientAtLeast`) come first.

**`ResizingProofs`.** `Inv` is `TypeOK`, `RequestsUnderLimits` and that `qos` is
the class of the running pod. `RequestsUnderLimits` alone is not inductive: a
plan leaves its limit above its request only if the one it scales from was, and
in a Guaranteed pod only if `guaranteed` is read from a class that agrees with
the spec. From `Inv`:

- `TypeCorrect`, `SpecsAccepted` (`RequestsUnderLimits`);
- `LimitsNeverShrink`, `OOMRequestsStayRaised`, `HeadroomHolds`: action
  properties. `OnlyResizeMoves` says that a living pod changes only in
  `PassResize`; what remains are facts about one plan;
- `BoundsHold` (`SizedWithinBounds`), under `FloorsFit`: no HPA, or one whose floors
  are below the max; otherwise it is false (`ceiling_floored`). It needs `BoundsOK`: the published and the local targets
  are within bounds too, since a later pass or an admission applies them;
- `ClassKept` (`NeverRefused`), under `Steady`: a template whose class is
  Burstable has a container with a quantity unset, or with a memory limit that is
  scaled and so far above its request that the gap survives the smallest request
  the bounds allow. Without it the property is false (`requests_capped`, and the
  truncated ratios of section 5). `NeverRefused` is not inductive: a pod may be
  brought to the edge by plans that are each accepted. `ClassInv` adds that a
  Burstable pod has a container that stays apart from Guaranteed under any plan
  (`Settled`), and that targets are not below the min (`Floored`), which is what
  carries the gap through an admission. A Guaranteed pod stays so because
  `planLimits` gives it limits equal to its requests, a BestEffort pod is never
  planned for.

**`ActuationProofs`.** The invariant says that every stamp that was not lost is
the age of the last resize made, except in the open walk that made it
(`StampsOK`), and that what a walk has granted and denied agrees with the
tracker, which does not change within a walk (`GrantsOK`). From it
`CooldownHolds`, `SiblingsResizeTogether` and `TypeCorrect`, for any number of
workloads and pods, any cooldowns, errors and restarts. `SpacingImplemented` is
the refinement of `Spacing` under the mapping that what is known is what was not
lost: a grant of the tracker is a `Resize` because of `StampsOK` (its age is the
true age, or the resize is not known) and `GrantsOK` (a second resize of the walk
finds the first at age 0); closing a walk is `Remember`, an error return `Abort`,
a lost reply a `ResizeUnnoticed`, and everything else leaves the three variables alone.

**`ControllerProofs`.** `OneMasterHolds`. `OneMaster` alone is not inductive: it is
about the moment a pass ends, and what makes it true was read long before, in
several steps. `Ownership` keeps that, in three parts. `Acted`: who last acted on a
workload owns it (selects it, and no older object does), if nothing has changed
since its reconcile began to read. `HasRead`: what a reconcile has read is what is
there, if nothing has changed since it began, and nobody has acted in between.
`HasChecked`: past the list of objects it owns what it has matched, with the same
proviso, and whoever else acted there began to read before the list. The step from
the second to the third is `ListObjects`: had the other begun after the last change,
both would own the workload (`CheckOwns`), and the order of objects is total
(`OlderThanTotal`), hence a workload has one owner (`OneOwner`).

**`RecommenderProofs`.** `CoversHolds` for every percentile, and `SmallestHolds`
for those below 100 (at 100 the rounding of section 5 is real). `Inv` says what the
histogram holds (`HoldsSamples`): each weight, and the total, is the decayed weight
of the samples in it times a unit that depends on the reference time alone.
`Observe` adds one sample to both (`ObserveHolds`); rescaling divides both by the
factor between two units, exactly (`PreparedHolds`); so the unit cancels where the
running sum is compared with the threshold (`ReachesCovers`), and the first bucket
to reach it is the smallest (`ReadOutFirst`). The weight of a sample at time t is
counted by a set of 2^t units, so that weights of disjoint sets of samples add by
the theorems on cardinality; the facts about powers of two (`Doubles`,
`PowerAdds`) are proved by counting subsets, and what would be an induction over
numbers (`InductionUpTo`) by the least counterexample, from the well-foundedness
of the naturals.

**`KuberaProofs`.** `LoopSizesPods` is the refinement of `Resizing`. Its invariant
says that what a pass acts on is an answer a provider may give: the usage is a
load, the readout the bound of one of the buckets, and that between passes nothing
is left in memory, so that a restart is a failed patch or no step of `Resizing` at
all. `LoopRemembers` is the refinement of `Recommender`, for which a sample is never
from the future. The theorems of both then hold of the loop:

- `LoopNeverRefused`, under `Steady`, from `ClassKept`;
- `LoopCoversUsage` (`CoversUsage`), the promise of the whole operator, needs both:
  what a pass acts on is the readout of a histogram that nothing has changed since
  (`Current`), the readout covers the percentile (`CoversHolds`), the target is not
  below it unless the max is (`TargetsEnough`), and a plan that lowers a request
  ends at or above its target (`PassMoves`, from the step rules), where more samples
  are covered, not fewer (`BoundCovers`).

**`TokenBucketProofs`.** `WindowBound` (`TouchesBounded`) for every flag, window and
number of restarts follows from `Conservation`: what was touched and what is left
came from full buckets, one per life of the operator, and the refills.
`TouchesBounded` alone is not inductive, because it forgets the level.

Only model-checked: the liveness properties `Tracks`, `Served`,
`InfeasibleReported`, `ScalingReported`, `OldestManages` and `NeverShut`, which need fairness and
ENABLED, out of reach of the prover. Every safety property of a passing run is
stated by a theorem. Four of them have a hypothesis, which the instance of the run
satisfies and the code needs: `FloorsFit` for `BoundsHold`, `Steady` for `ClassKept` and
`LoopNeverRefused`, `Percentile < 100` for `SmallestHolds`.

## 7. Not modelled

HTTP, query strings and decoding of the metrics providers (what an answer carries,
its timestamp, gaps and errors are modelled), gauges, flag parsing and wiring, the
kubectl plugin, the declarations and generated code of the API types beyond the
fields the models use, leader election (one replica acts at a time), a lagging
informer cache, and the resolution of a pod's owner by name in the webhook.

## 8. Plan

1. Proofs: the safety core of the liveness arguments (that a pod that is held
   back is held back by a stamp that only ages; that a status published as Ready
   names what the object owns), and an abstract specification of ownership that
   `Controller` implements.
2. `Kubera` with an HPA, and with `Actuation`'s walk in place of `withheld`, once
   an instance that small is found to be worth its states.
3. `Resizing` with a lagging cache, with the properties that survive it.
