------------------------- MODULE TokenBucketProofs -------------------------
(***************************************************************************)
(* How many pods KubeRA touches in a window, for every rate, every window  *)
(* length and every schedule of resizes, evictions, errors and restarts.   *)
(***************************************************************************)
EXTENDS TokenBucket, TLAPS

\* The burst of main is at least one token, so the capacity is a positive
\* number of units.
LEMMA CapacityType == Capacity \in Nat /\ Minute <= Capacity
<1>1. Burst \in Nat /\ Burst >= 1
  BY BucketAssumption DEF Burst
<1>2. Burst * Minute \in Nat /\ Minute <= Burst * Minute
  BY <1>1, BucketAssumption
<1> QED
  BY <1>2 DEF Capacity

\* The bucket level stays between empty and the burst, in every state.
THEOREM TypeCorrect == Spec => []TypeOK
<1>1. Init => TypeOK
  BY CapacityType, BucketAssumption DEF Init, TypeOK
<1>2. TypeOK /\ [Next]_vars => TypeOK'
  <2> SUFFICES ASSUME TypeOK, [Next]_vars
               PROVE  TypeOK'
    OBVIOUS
  <2>1. CASE Second
    <3>1. level' \in 0..Capacity
      BY <2>1, CapacityType, BucketAssumption DEF Second, Refilled, TypeOK
    <3>2. Capacity' = Capacity
      BY DEF Capacity, Burst
    <3> QED
      BY <2>1, <3>1, <3>2, BucketAssumption DEF Second, OpenWindow, TypeOK
  <2>2. CASE Apply \/ Evict
    <3>1. /\ level' = level - Minute /\ Minute <= level
          /\ age' = age /\ restarts' = restarts /\ touched' \in Nat
      BY <2>2 DEF Apply, Evict, Allowed, Asked, TypeOK
    <3>2. Capacity' = Capacity
      BY DEF Capacity, Burst
    <3> QED
      BY <3>1, <3>2, CapacityType, BucketAssumption DEF TypeOK
  <2>3. CASE Watch \/ Restart \/ UNCHANGED vars
    BY <2>3, CapacityType, BucketAssumption
       DEF Watch, OpenWindow, Restart, vars, TypeOK, Capacity, Burst
  <2> QED
    BY <2>1, <2>2, <2>3 DEF Next
<1> QED
  BY <1>1, <1>2, PTL DEF Spec

\* A call that takes a token of m units touches one pod at most.
LEMMA OneCall ==
  ASSUME NEW m \in Nat, NEW t \in Nat, NEW u \in {t, t + 1}, NEW l \in Nat,
         NEW s \in Int, t * m + l <= s
  PROVE  u * m + (l - m) <= s
<1>1. CASE u = t
  <2>1. u * m = t * m /\ t * m \in Nat
    BY <1>1
  <2> QED
    BY <2>1
<1>2. CASE u = t + 1
  <2>1. u * m = t * m + m /\ t * m \in Nat
    BY <1>2
  <2> QED
    BY <2>1
<1> QED
  BY <1>1, <1>2

\* What was touched in a window and what is left in the bucket never exceed one
\* full bucket per life of the operator plus the refills of the window: a restart
\* fills the bucket and counts for that.
LEMMA Conserved == Spec => []Conservation
<1>1. Init => Conservation
  BY CapacityType, BucketAssumption DEF Init, Conservation
<1>2. TypeOK /\ Conservation /\ [Next]_vars => Conservation'
  <2> SUFFICES ASSUME TypeOK, Conservation, [Next]_vars
               PROVE  Conservation'
    OBVIOUS
  <2>1. /\ level \in Nat /\ age \in Nat /\ touched \in Nat /\ restarts \in Nat
        /\ Capacity \in Nat /\ PerMinute \in Nat /\ Minute \in Nat
        /\ level <= Capacity
    BY CapacityType, BucketAssumption DEF TypeOK
  <2>2. Capacity' = Capacity
    BY DEF Capacity, Burst
  <2>3. /\ touched * Minute \in Nat /\ PerMinute * age \in Nat
        /\ (1 + restarts) * Capacity \in Nat
        /\ (1 + (restarts + 1)) * Capacity = (1 + restarts) * Capacity + Capacity
    BY <2>1
  <2>4. CASE OpenWindow /\ level' \in Nat /\ level' <= Capacity
    <3>1. touched' * Minute = 0 /\ PerMinute * age' = 0 /\ (1 + restarts') * Capacity = Capacity
      BY <2>1, <2>4 DEF OpenWindow
    <3> QED
      BY <2>1, <2>2, <2>4, <3>1 DEF Conservation
  <2>5. CASE Second
    <3>1. level' \in Nat /\ level' <= Capacity /\ level' <= level + PerMinute
      BY <2>1, <2>5 DEF Second, Refilled
    <3>2. CASE age' = age + 1 /\ UNCHANGED <<touched, restarts>>
      <4>1. PerMinute * age' = PerMinute * age + PerMinute
        BY <2>1, <3>2
      <4>2. /\ touched' * Minute = touched * Minute
            /\ (1 + restarts') * Capacity' = (1 + restarts) * Capacity
        BY <2>2, <3>2
      <4> QED
        BY <2>1, <2>3, <3>1, <4>1, <4>2 DEF Conservation
    <3> QED
      BY <2>4, <2>5, <3>1, <3>2 DEF Second
  <2>6. CASE Apply \/ Evict
    <3>1. /\ level' = level - Minute /\ level >= Minute
          /\ touched' \in {touched, touched + 1}
          /\ age' = age /\ restarts' = restarts
      BY <2>6 DEF Apply, Evict, Allowed, Asked
    <3>2. (1 + restarts) * Capacity + PerMinute * age \in Int
      BY <2>3
    <3>3. touched * Minute + level <= (1 + restarts) * Capacity + PerMinute * age
      BY DEF Conservation
    <3>4. touched' * Minute + (level - Minute) <= (1 + restarts) * Capacity + PerMinute * age
      BY <2>1, <3>1, <3>2, <3>3, OneCall
    <3>5. touched' * Minute + level' <= (1 + restarts') * Capacity' + PerMinute * age'
      BY <2>2, <3>1, <3>4
    <3> QED
      BY <3>5 DEF Conservation
  <2>7. CASE Restart
    <3>1. touched' = touched /\ age' = age /\ restarts' = restarts + 1 /\ level' = Capacity
      BY <2>7 DEF Restart
    <3> QED
      BY <2>1, <2>2, <2>3, <3>1 DEF Conservation
  <2>8. CASE Watch
    BY <2>1, <2>4, <2>8 DEF Watch
  <2>9. CASE UNCHANGED vars
    BY <2>2, <2>9 DEF vars, Conservation
  <2> QED
    BY <2>5, <2>6, <2>7, <2>8, <2>9 DEF Next
<1> QED
  BY <1>1, <1>2, TypeCorrect, PTL DEF Spec

\* In every window of t seconds with r restarts KubeRA resizes and evicts at most
\* (1 + r) bursts and rate * t pods.
THEOREM WindowBound == Spec => []TouchesBounded
<1>1. TypeOK /\ Conservation => TouchesBounded
  <2> SUFFICES ASSUME TypeOK, Conservation
               PROVE  TouchesBounded
    OBVIOUS
  <2>1. /\ level \in Nat /\ touched * Minute \in Nat /\ PerMinute * age \in Nat
        /\ (1 + restarts) * Capacity \in Nat
    BY CapacityType, BucketAssumption DEF TypeOK
  <2> QED
    BY <2>1, CapacityType DEF Conservation, TouchesBounded
<1> QED
  BY <1>1, TypeCorrect, Conserved, PTL
============================================================================
