---------------------------- MODULE MCResizing ----------------------------
(***************************************************************************)
(* Small instances of Resizing.  One CPU unit is 10m and one memory unit   *)
(* 1Mi, so the rounding steps are 1; the 32Mi floor is scaled to 2 units.  *)
(***************************************************************************)
EXTENDS Resizing

C(cpuReq, cpuLim, memReq, memLim) ==
  [cpuReq |-> cpuReq, cpuLim |-> cpuLim, memReq |-> memReq, memLim |-> memLim]
R(rawCPU, rawMem, cpu, mem) ==
  [raw |-> [cpu |-> rawCPU, mem |-> rawMem], usage |-> [cpu |-> cpu, mem |-> mem]]

AllBounds(lo, hi) == [n \in Containers |-> [min |-> lo, max |-> hi]]
Bounds2to9 == AllBounds(2, 9)

BurstableTemplate == [n \in Containers |-> C(4, 6, 4, 7)]

BothValues == DefaultPolicy(FALSE, 0, 0)
RequestsOnly == DefaultPolicy(TRUE, 0, 0)

NoHPAs == {NoHPA}
CPUHPA == {[present |-> TRUE, cpu |-> 80, mem |-> 0, headroom |-> 10]}
\* The HPA comes and goes between passes.
SomeHPA == {NoHPA, [present |-> TRUE, cpu |-> 80, mem |-> 70, headroom |-> 20]}

\* The HPA floors of the usage stay within 2..9, those of Busy do not.
Loads == {R(1, 2, 1, 1), R(5, 8, 5, 4), R(9, 4, 1, 1)}
Varied == {R(1, 2, 1, 1), R(5, 8, 1, 1), R(9, 4, 1, 1)}
Busy == {R(7, 8, 7, 4)}
============================================================================
