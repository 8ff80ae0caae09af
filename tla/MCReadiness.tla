----------------------------- MODULE MCReadiness -----------------------------
(* Small pipelines for the tracker: every rule, both edge kinds, a diamond, *)
(* a resume chain, and the pair of edges that strands a node.               *)
EXTENDS ReadinessDriver, TLC

N4 == 1..4
NoEdges == [n \in N4 |-> {}]
Default == [n \in N4 |-> "all-succeeded"]

Pipeline(data, order, rule, teardown, satisfied) ==
    [data |-> data @@ NoEdges, order |-> order @@ NoEdges,
     rule |-> rule @@ Default, teardown |-> teardown, satisfied |-> satisfied]

\* 1 -> {2,3} -> 4, and its variants with contingency nodes.
DiamondData == 2 :> {1} @@ 3 :> {1} @@ 4 :> {2, 3}
Diamond == Pipeline(DiamondData, << >>, << >>, {}, {})
Notify(r) == Pipeline(2 :> {1}, 3 :> {1, 2} @@ 4 :> {3}, 3 :> r @@ 4 :> "any-failed", {}, {})
\* Name order against the edges: 4 feeds 1, and 2, 3 hang below 1.
Backwards(r) == Pipeline(1 :> {4} @@ 2 :> {1}, 3 :> {1, 4}, 3 :> r, {}, {})
TwoRoots == Pipeline(3 :> {1, 2}, 4 :> {3, 1}, 4 :> "all-terminal", {}, {})
Resumed == Pipeline(2 :> {1} @@ 3 :> {2}, 4 :> {2}, 4 :> "any-failed", {}, {1, 2})
Covered == Pipeline(2 :> {1}, 3 :> {1, 2}, 3 :> "all-terminal", {3}, {})

SoundPlans == {Diamond, TwoRoots, Resumed, Covered}
              \cup {Notify(r) : r \in TriggerRule} \cup {Backwards(r) : r \in TriggerRule}

ASSUME SoundPlansCount == \A p \in SoundPlans : Countable(p)

\* An upstream that is both consumed and ordered after.
DoubleEdgePlans == {Pipeline(2 :> {1}, 2 :> {1}, << >>, {}, {})}
=============================================================================
