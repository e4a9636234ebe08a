------------------------------ MODULE Spacing ------------------------------
(***************************************************************************)
(* What the cooldowns promise to the pods of a workload, without the walk  *)
(* that keeps the promise: passes begin some time apart, and a pass may    *)
(* resize in a direction only if it has already done so, or the last       *)
(* resize is a cooldown ago, or nobody remembers that resize.  What is     *)
(* forgotten is named: everything by a restart, otherwise only resizes     *)
(* that the pass in flight has made, or made without learning of it.       *)
(***************************************************************************)
EXTENDS Integers

CONSTANTS Workloads, Directions,
          Cap,        \* age at which ages saturate
          Cooldowns   \* cooldowns a spec may ask for, per direction

VARIABLES since,     \* age of the last resize, relative to the pass in flight
          cooldown,  \* the cooldowns of that pass
          known      \* <<workload, direction>> whose last resize is remembered

vars == <<since, cooldown, known>>

All == Workloads \X Directions

Init ==
  /\ since = [w \in Workloads |-> [d \in Directions |-> Cap]]
  /\ cooldown \in Cooldowns
  /\ known = All

\* Time goes by between the beginnings of two passes.
Begin ==
  /\ \E t \in 1..Cap :
       since' = [w \in Workloads |-> [d \in Directions |->
                   IF since[w][d] + t < Cap THEN since[w][d] + t ELSE Cap]]
  /\ cooldown' \in Cooldowns
  /\ UNCHANGED known

Granted(w, d) ==
  /\ \/ since[w][d] = 0
     \/ since[w][d] >= cooldown[d]
     \/ <<w, d>> \notin known
  /\ since' = [since EXCEPT ![w] = [e \in Directions |-> IF e = d THEN 0 ELSE @[e]]]
  /\ UNCHANGED cooldown

Resize(w, d) == Granted(w, d) /\ UNCHANGED known

\* A resize whose reply is lost is forgotten at once, and with it those that the
\* pass in flight has made, if it is aborted.
ResizeUnnoticed(w, d, ds) ==
  /\ Granted(w, d)
  /\ known' = known \ ({w} \X ({d} \cup {e \in ds : since[w][e] = 0}))

\* Resizes of the pass in flight, of one workload.
Made(w, ds) == {w} \X {d \in ds : since[w][d] = 0}

Remember(w, ds) == known' = known \cup Made(w, ds) /\ UNCHANGED <<since, cooldown>>

Abort(w, ds) == known' = known \ Made(w, ds) /\ UNCHANGED <<since, cooldown>>

Restart == known' = {} /\ UNCHANGED <<since, cooldown>>

Next ==
  \/ Begin
  \/ Restart
  \/ \E w \in Workloads : \/ \E d \in Directions : Resize(w, d)
                          \/ \E ds \in SUBSET Directions : Remember(w, ds) \/ Abort(w, ds)
                          \/ \E d \in Directions, ds \in SUBSET Directions : ResizeUnnoticed(w, d, ds)

Spec == Init /\ [][Next]_vars
============================================================================
