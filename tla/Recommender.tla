---------------------------- MODULE Recommender ----------------------------
(***************************************************************************)
(* The usage recommender for one container of one workload: the samples of *)
(* its pods, deduplicated and collected in a histogram with exponential    *)
(* buckets and exponential decay, and the percentile read out of it.  The  *)
(* CPU and the memory histogram take the same steps; this is either.       *)
(*                                                                         *)
(* Time is counted in half-lives, so a weight is a power of two; weights   *)
(* are kept in units of 2^-MaxTime, in which every one is an integer.      *)
(***************************************************************************)
EXTENDS Integers, FiniteSets, FiniteSetsExt

CONSTANTS Pods,
          Values,      \* usage a sample may report
          Base,        \* upper bound of bucket 0
          LastBucket,  \* bucketCount - 1; the growth factor is 2
          Percentile,  \* spec.metrics.*Percentile
          MaxExp,      \* log2 of maxWeightBeforeRescale
          MaxTime      \* bound: timestamps of samples

ASSUME RecommenderAssumption ==
  /\ Values \subseteq Nat
  /\ Base \in Nat \ {0}
  /\ LastBucket \in Nat
  /\ Percentile \in 50..100
  /\ MaxExp \in Nat
  /\ MaxTime \in Nat

Times == 1..MaxTime
Buckets == 0..LastBucket
Unset == 0
None == -1

VARIABLES lastSample,  \* time of each pod's last counted sample, or Unset
          weights,     \* weight of each bucket
          totalWeight,
          refTime,     \* reference of the growing weights, or Unset
          rec,         \* bucket the percentile was read from, or None
          counted      \* the samples that should count: <<pod, time, value>>

vars == <<lastSample, weights, totalWeight, refTime, rec, counted>>

TypeOK ==
  /\ lastSample \in [Pods -> Times \cup {Unset}]
  /\ weights \in [Buckets -> Nat]
  /\ totalWeight \in Nat
  /\ refTime \in Times \cup {Unset}
  /\ rec \in Buckets \cup {None}
  /\ counted \subseteq Pods \X Times \X Values

Init ==
  /\ lastSample = [p \in Pods |-> Unset]
  /\ weights = [b \in Buckets |-> 0]
  /\ totalWeight = 0
  /\ refTime = Unset
  /\ rec = None
  /\ counted = {}

---------------------------------------------------------------------------
(* The histogram.                                                          *)

UpperBound(b) == Base * 2^b

\* The smallest bucket whose upper bound reaches v, or the last one.
BucketFor(v) ==
  IF \E b \in Buckets : v <= UpperBound(b)
  THEN Min({b \in Buckets : v <= UpperBound(b)})
  ELSE LastBucket

\* 2^((t - ref) / halfLife), in units of 2^-MaxTime.
Weight(t, ref) == 2^(MaxTime + t - ref)

\* Faults: the reference time is not shifted; the weights are not shrunk.
Rescaled_KeepsRef(now, ref) ==
  [weights |-> [b \in Buckets |-> weights[b] \div 2^(now - ref)],
   total   |-> totalWeight \div 2^(now - ref),
   ref     |-> ref]
Rescaled_KeepsWeights(now, ref) ==
  [weights |-> weights, total |-> totalWeight, ref |-> now]

\* rescale: every weight divided by that of a sample at `now', which becomes
\* the reference.
Rescaled(now, ref) ==
  [weights |-> [b \in Buckets |-> weights[b] \div 2^(now - ref)],
   total   |-> totalWeight \div 2^(now - ref),
   ref     |-> now]

\* The histogram an observation at t is added to.
Prepared(t) ==
  LET ref == IF refTime = Unset THEN t ELSE refTime
  IN  IF t - ref > MaxExp THEN Rescaled(t, ref)
      ELSE [weights |-> weights, total |-> totalWeight, ref |-> ref]

---------------------------------------------------------------------------
(* Observe and Recommend.                                                  *)

\* Fault: a sample read again counts again.
Newer_OrSame(p, t) == lastSample[p] = Unset \/ t >= lastSample[p]

Newer(p, t) == lastSample[p] = Unset \/ t > lastSample[p]

\* Reconciles read the provider more often than it samples, and it may answer
\* with an old sample: any reading may arrive at any time, any number of times.
Observe(p, t, v) ==
  /\ Newer(p, t)
  /\ LET h == Prepared(t)
         b == BucketFor(v)
         w == Weight(t, h.ref)
     IN  /\ weights' = [h.weights EXCEPT ![b] = @ + w]
         /\ totalWeight' = h.total + w
         /\ refTime' = h.ref
  /\ lastSample' = [lastSample EXCEPT ![p] = t]
  /\ counted' = IF \E x \in Values : <<p, t, x>> \in counted THEN counted
                ELSE counted \cup {<<p, t, v>>}
  /\ rec' = None

\* percentile adds the weights up, bucket by bucket; it reads out the first bucket
\* whose cumulative weight reaches the threshold, without one the last bucket.
Cumulative[b \in Buckets] ==
  IF b = 0 THEN weights[0] ELSE Cumulative[b - 1] + weights[b]

Reaches(b, slip) ==
  \/ Cumulative[b] * 100 > Percentile * totalWeight
  \/ ~slip /\ Cumulative[b] * 100 = Percentile * totalWeight

ReadOut(slip) ==
  IF \E b \in Buckets : Reaches(b, slip)
  THEN Min({b \in Buckets : Reaches(b, slip)})
  ELSE LastBucket

\* Ages are seldom whole half-lives, and totalWeight adds the same floats as the
\* cumulative sum in another order: where the two meet exactly, the comparison
\* may fail.  At 100% the product is exact and only the sums can differ, which
\* takes three weights in two buckets.
MaySlip == \/ Percentile < 100
           \/ /\ Cardinality(counted) >= 3
              /\ \E b \in Buckets : weights[b] \notin {0, totalWeight}

Recommend(slip) ==
  /\ totalWeight > 0
  /\ slip => MaySlip
  /\ rec' = ReadOut(slip)
  /\ UNCHANGED <<lastSample, weights, totalWeight, refTime, counted>>

\* The state is in memory only.
Restart ==
  /\ lastSample' = [p \in Pods |-> Unset]
  /\ weights' = [b \in Buckets |-> 0]
  /\ totalWeight' = 0
  /\ refTime' = Unset
  /\ rec' = None
  /\ counted' = {}

Next == \/ \E p \in Pods, t \in Times, v \in Values : Observe(p, t, v)
        \/ \E slip \in BOOLEAN : Recommend(slip)
        \/ Restart

Spec == Init /\ [][Next]_vars

---------------------------------------------------------------------------
(* Properties.                                                             *)

\* The decayed weight of a set of samples, from its definition: each sample once,
\* its weight halved for every half-life it is older.  A sample at time t stands
\* for 2^t units.
Units(samples) == UNION {{s} \X (1..2^s[2]) : s \in samples}
Decayed(samples) == Cardinality(Units(samples))
UpTo(v) == {s \in counted : s[3] <= v}

\* The recommendation covers the configured share of the decayed usage, counted
\* once per sample, unless the usage is beyond the last bucket: whatever was
\* delivered twice or late, and however often the weights were rescaled.
Covers == rec \in Buckets \ {LastBucket} =>
            Decayed(UpTo(UpperBound(rec))) * 100 >= Percentile * Decayed(counted)

\* It is the smallest such bucket: the one below does not cover more than the
\* configured share, and nothing above the largest sample is ever recommended
\* ("the smallest bucket such that the cumulative weight reaches p").
Smallest == rec \in Buckets =>
  /\ rec > 0 => Decayed(UpTo(UpperBound(rec - 1))) * 100 <= Percentile * Decayed(counted)
  /\ \E s \in counted : rec <= BucketFor(s[3])
============================================================================
