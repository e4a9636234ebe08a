---------------------------- MODULE TokenBucket ----------------------------
(***************************************************************************)
(* How fast KubeRA touches pods: Resizer.Apply and Resizer.Evict ask the   *)
(* one rate.Limiter that main builds before they call the API server, for  *)
(* every object of the cluster.  The limiter is in the memory of the       *)
(* operator: a restart builds a new one, and a new one is full.            *)
(*                                                                         *)
(* golang.org/x/time/rate is a bucket that refills continuously.  A token  *)
(* is worth Minute units, so that a bucket filled at PerMinute / Minute    *)
(* tokens a second gains PerMinute units a second.                         *)
(***************************************************************************)
EXTENDS Integers

CONSTANTS PerMinute,   \* --max-resizes-per-minute
          Minute,      \* seconds in a minute
          MaxAge,      \* bound: how long a window is watched
          MaxRestarts  \* bound: restarts in one window

ASSUME BucketAssumption ==
  /\ PerMinute \in Nat
  /\ Minute \in Nat \ {0}
  /\ MaxAge \in Nat
  /\ MaxRestarts \in Nat

VARIABLES level,    \* units in the bucket
          age,      \* seconds since the watched window opened
          touched,  \* pods resized or evicted since then
          restarts  \* restarts of the operator since then

vars == <<level, age, touched, restarts>>

\* Fault: a rate below six a minute rounds the burst down to nothing.
Burst_Zero == PerMinute \div 6

Burst == IF PerMinute \div 6 > 1 THEN PerMinute \div 6 ELSE 1

Capacity == Burst * Minute

TypeOK ==
  /\ level \in 0..Capacity
  /\ age \in 0..MaxAge
  /\ touched \in Nat
  /\ restarts \in 0..MaxRestarts

OpenWindow == age' = 0 /\ touched' = 0 /\ restarts' = 0

Init == level = Capacity /\ age = 0 /\ touched = 0 /\ restarts = 0

Refilled(l) == IF l + PerMinute > Capacity THEN Capacity ELSE l + PerMinute

\* A window is watched for MaxAge seconds.
Second ==
  /\ level' = Refilled(level)
  /\ \/ age < MaxAge /\ age' = age + 1 /\ UNCHANGED <<touched, restarts>>
     \/ age = MaxAge /\ OpenWindow

\* Any moment may begin the window that is watched.
Watch == OpenWindow /\ UNCHANGED level

\* Limiter.Allow.  A refusal changes nothing (ErrRateLimited).
Allowed == level >= Minute /\ level' = level - Minute

\* The API server may reject what is asked of it; the token is spent.
Asked == touched' \in {touched, touched + 1} /\ UNCHANGED <<age, restarts>>

\* A resize.
Apply == Allowed /\ Asked

\* Fault: an eviction does not ask the limiter.
Evict_Unlimited == UNCHANGED level /\ Asked

Evict == Allowed /\ Asked

\* main builds a new limiter.
Restart ==
  /\ restarts < MaxRestarts
  /\ level' = Capacity
  /\ restarts' = restarts + 1
  /\ UNCHANGED <<age, touched>>

Next == Second \/ Watch \/ Apply \/ Evict \/ Restart

Spec == Init /\ [][Next]_vars

FairSpec == Spec /\ WF_vars(Second)

---------------------------------------------------------------------------
\* In every window of t seconds KubeRA resizes and evicts at most one burst per
\* life of the operator, and rate * t more pods: every path to a pod pays for
\* itself, API errors give nothing back, and a restart costs no more than one
\* burst (Apply, Evict and the limiter that main builds).  A minute may thus see more
\* than the "cap on in-place pod resizes per minute" of the flag's text (main.go:97).
TouchesBounded ==
  touched * Minute <= (1 + restarts) * Capacity + PerMinute * age

\* No positive rate switches the resizes off: a token is there again and again
\* (the burst that main computes from the flag).
NeverShut == PerMinute > 0 => []<>(level >= Minute)

\* The inductive form: what was touched and what is left came from full buckets
\* and the refills.
Conservation ==
  touched * Minute + level <= (1 + restarts) * Capacity + PerMinute * age
============================================================================
