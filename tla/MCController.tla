--------------------------- MODULE MCController ---------------------------
(***************************************************************************)
(* Small instances of Controller: two objects, one or two Deployments.     *)
(***************************************************************************)
EXTENDS Controller, TLC

S(valid, sel, on) == [valid |-> valid, sel |-> sel, on |-> on]
At(t, s) == [born |-> t, spec |-> s]
Absent == At(0, S("ok", {}, FALSE))

\* Overlapping selectors and a refused spec.
Overlaps == {S("ok", {"w1"}, TRUE), S("ok", {"w1", "w2"}, TRUE), S("bounds", {"w1"}, TRUE)}
OneOld == {(1 :> At(1, S("ok", {"w1"}, TRUE))) @@ (2 :> Absent)}

\* Two objects of the same second, the second one refused in one way or another
\* until it is edited.
Usable == {S("ok", {"w1"}, TRUE)}
Twins == {(1 :> At(1, S("ok", {"w1"}, TRUE))) @@ (2 :> At(1, S(v, {"w1"}, TRUE))) :
            v \in Validity \ {"ok"}}
============================================================================
