---------------------------- MODULE MCDashboards ----------------------------
(* Ali looks at his own dashboard, a parent at Ali's and Bea's. *)
EXTENDS Dashboards, TLC

CONSTANTS ali, bea, r1, r2, a1

MCBy == [a \in {a1} |-> ali]
MCLists == {<<ali>>, <<ali, bea>>}
Interchangeable == Permutations({r1, r2})
=============================================================================
