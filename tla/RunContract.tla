----------------------------- MODULE RunContract -----------------------------
(***************************************************************************)
(* What a run promises about terminal states, without saying how: a node   *)
(* is given one state, once, and only when every upstream already has one. *)
(* Whether it may then run or must inherit a state is its trigger rule's   *)
(* verdict on the complete upstream picture.  Teardown nodes come last:    *)
(* once one has its state, no other node is given one.                     *)
(***************************************************************************)
EXTENDS TriggerRules

CONSTANTS Node, Plans

VARIABLES plan,     \* the pipeline
          outcome   \* the state each node has been given, or None

cvars == <<plan, outcome>>

UpstreamOf(n) == plan.data[n] \cup plan.order[n]
Picture(n)    == {outcome[u] : u \in UpstreamOf(n)}

GateOpen(n) == \A u \in UpstreamOf(n) : outcome[u] # None
MayRun(n)   == /\ GateOpen(n)
               /\ \/ UpstreamOf(n) = {}
                  \/ EvaluateRule(plan.rule[n], Picture(n)) = Fires

CInit ==
    /\ plan \in Plans
    /\ outcome = [n \in Node |-> None]

Give(n, s) ==
    /\ outcome[n] = None
    /\ outcome' = [outcome EXCEPT ![n] = s]
    /\ UNCHANGED plan

\* A node of the main graph is decided before any teardown node is.
Decide(n, s) ==
    /\ n \notin plan.teardown
    /\ \A t \in plan.teardown : outcome[t] = None
    /\ Give(n, s)

\* A resume carries a prior success forward, whatever its upstreams do.
CarryForward(n) == n \in plan.satisfied /\ Decide(n, "satisfied-from-prior")

\* A node whose rule fired ends some way of its own: it ran, was cancelled,
\* abandoned or refused.
Conclude(n, s) ==
    /\ MayRun(n)
    /\ s \in ExecutedState \cup StopLike \cup {"abandoned"}
    /\ Decide(n, s)

\* A node whose rule can never fire inherits the verdict without executing.
Inherit(n) ==
    /\ GateOpen(n) /\ ~MayRun(n)
    /\ Decide(n, EvaluateRule(plan.rule[n], Picture(n)))

\* A teardown node runs whatever became of the run, or is cut off.
CleanUp(n, s) ==
    /\ n \in plan.teardown
    /\ s \in ExecutedState \cup {"abandoned"}
    /\ Give(n, s)

CNext == \E n \in Node : \/ CarryForward(n)
                         \/ \E s \in TerminalState : Conclude(n, s) \/ CleanUp(n, s)
                         \/ Inherit(n)

CSpec == CInit /\ [][CNext]_cvars
=============================================================================
