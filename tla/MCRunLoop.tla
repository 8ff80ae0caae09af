------------------------------ MODULE MCRunLoop ------------------------------
(* Runs of three and four nodes over one pool: contingencies, a resume, an  *)
(* over-demand node, a guarded node and a retried one.                      *)
EXTENDS RunProperties, TLC

N3 == 1..3
N4 == 1..4

OnePool == {"slots"}
Two == [p \in OnePool |-> 2]

Pipeline(N, data, order, rule, satisfied) ==
    [data |-> data @@ [n \in N |-> {}], order |-> order @@ [n \in N |-> {}],
     rule |-> rule @@ [n \in N |-> "all-succeeded"],
     teardown |-> {}, satisfied |-> satisfied]

\* Two roots that cannot run together, a consumer and a contingency.
Fork(N) == Pipeline(N, 3 :> {1}, << >>, << >>, {})
Notify(N) == Pipeline(N, << >>, 3 :> {1, 2}, 3 :> "any-failed", {})
Chain(N) == Pipeline(N, 2 :> {1}, 3 :> {2}, 3 :> "all-terminal", {})

\* A node, its consumer, and a teardown node that covers both.
CleanUp3 == [Pipeline(N3, 2 :> {1}, << >>, << >>, {}) EXCEPT !.teardown = {3}]

Plans3 == {Fork(N3), Notify(N3), Chain(N3), CleanUp3}

\* A resume with one node carried forward, and a consumer too big to admit.
Resumed(N) == Pipeline(N, 2 :> {1} @@ 3 :> {1}, 4 :> {2}, 4 :> "any-failed", {1})
TooBig(N) == Pipeline(N, 3 :> {2}, 4 :> {1, 3}, 4 :> "all-terminal", {})
\* Two independent nodes and two teardown nodes; the last retries.
CleanUp4 == [Pipeline(N4, << >>, << >>, << >>, {}) EXCEPT !.teardown = {3, 4}]
Plans4 == {Resumed(N4), TooBig(N4), CleanUp4}
Costs4 == [n \in N4 |-> [p \in OnePool |-> CASE n = 2 -> 2 [] n = 3 -> 3 [] OTHER -> 1]]
\* A resume that carries a node forward together with its upstream.
ResumedChain == {Pipeline(N3, 2 :> {1} @@ 3 :> {2}, << >>, << >>, {1, 2})}
G2 == {1, 2}
Retried4 == [n \in N4 |-> IF n = 4 THEN 2 ELSE 1]

Costs3 == [n \in N3 |-> [p \in OnePool |-> IF n = 2 THEN 2 ELSE 1]]
G1 == {1}
Second == {2}
Third == {3}
FirstAndThird == {1, 3}
Fourth == {4}
Nobody == {}
Once == [n \in N3 |-> 1]
Twice == [n \in N3 |-> IF n = 2 THEN 2 ELSE 1]
Results == {"succeeded", "failed", "skipped"}
=============================================================================
