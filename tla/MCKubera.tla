----------------------------- MODULE MCKubera -----------------------------
(***************************************************************************)
(* A small instance of Kubera: a Guaranteed pod with a managed container   *)
(* and one whose override is Off; buckets up to 1, 2, 4 and 8.             *)
(***************************************************************************)
EXTENDS Kubera

\* The CPU follows the load in place; the memory of the template is too large,
\* and only an eviction can lower it.
CPU2to9 == [n \in Containers |-> [min |-> 2, max |-> 9]]
Memory5to9 == [n \in Containers |-> [min |-> 5, max |-> 9]]
GuaranteedTemplate ==
  [n \in Containers |-> [cpuReq |-> 5, cpuLim |-> 5, memReq |-> 8, memLim |-> 8]]

\* stepPercent.down 50, the other fields at their defaults (DefaultPolicy).
\* A step of 50 percent either way is at least one unit from 2 on: the units stand
\* for 10m and 1Mi, where 20 percent of 4 does not truncate to nothing.
HalfSteps == [requestsOnly |-> FALSE, tolerance |-> 10, up |-> 50, down |-> 50]
============================================================================
