----------------------------- MODULE MCTaskCharts -----------------------------
(* Two tasks: one to end before it starts, one with a deadline and an end only. *)
EXTENDS TaskCharts

CONSTANTS la, lb, lz, pp

Inverted == [from |-> 10, to |-> 8, due |-> Nobody]
OpenStart == [from |-> Nobody, to |-> 30, due |-> 1]
PlansMC == {Inverted, OpenStart}

DependenciesMC == {[source |-> 2, target |-> 1]}

FirstRowsMC ==
    {<<[status |-> la, person |-> pp, plan |-> Inverted],
       [status |-> lb, person |-> Nobody, plan |-> OpenStart]>>}
=============================================================================
