---------------------------- MODULE MCActuation ----------------------------
(***************************************************************************)
(* Small instances of Actuation: the cooldowns of 2 and 10 minutes become  *)
(* 2 and 3 ticks (2 and 1 where liveness is checked).                      *)
(***************************************************************************)
EXTENDS Actuation, TLC

OneWorkload == (1 :> {"p1", "p2"})
\* A pod in the first Deployment, two siblings in the second.
Split == (1 :> {"p1"}) @@ (2 :> {"p2", "p3"})
Cool(up, down) == ("Up" :> up) @@ ("Down" :> down)
LongUp == {Cool(2, 1)}
UpDown == {Cool(2, 3)}
\* Two objects, or one spec before and after an edit.
Edited == {Cool(2, 3), Cool(3, 1)}

AnyNeed == [p \in {"p1", "p2"} |-> Needs]
Mixed == [p \in {"p1", "p2"} |-> Needs \ {"Infeasible"}]
StuckThenUp == ("p1" :> {"None", "Infeasible"}) @@ ("p2" :> {"None", "Up"})
               @@ ("p3" :> {"None", "Up", "Infeasible"})
============================================================================
