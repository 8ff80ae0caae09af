--------------------------- MODULE ReadinessDriver ---------------------------
(***************************************************************************)
(* The tracker under the calls its driver makes: the nodes a resume left   *)
(* satisfied are reported first, in name order; then every node that was   *)
(* offered (initially ready, or by a Ready decision) is reported once or   *)
(* more with some outcome, in any order.                                   *)
(***************************************************************************)
EXTENDS Readiness

VARIABLE offered   \* nodes the tracker has handed out as ready

driverVars == <<plan, tracker, call, offered>>

DriverInit ==
    /\ InitTracker
    /\ offered = InitialReady

Unreported == {n \in plan.satisfied : decided[n] = None}

ReportSatisfied ==
    \E n \in Unreported :
      /\ \A m \in Unreported : n <= m
      /\ NotifyTerminal(n, "satisfied-from-prior")
      /\ UNCHANGED offered

\* Reporting a decided node again is a legal call and must change nothing.
ReportOffered(n, s) ==
    /\ Unreported = {}
    /\ n \in offered
    /\ NotifyTerminal(n, s)
    /\ UNCHANGED offered

ReadyIn(ds) == {d.node : d \in {ds[i] : i \in {j \in DOMAIN ds : ds[j].kind = "ready"}}}

Step ==
    /\ Cascade
    /\ offered' = offered \cup ReadyIn(decisions')

DriverNext ==
    \/ ReportSatisfied
    \/ \E n \in Node, s \in Reportable : ReportOffered(n, s)
    \/ Step

DriverSpec == DriverInit /\ [][DriverNext]_driverVars /\ WF_driverVars(Step)
-----------------------------------------------------------------------------
(* Properties                                                               *)

DriverTypes ==
    /\ plan \in Plans
    /\ remaining \in [Node -> Nat]
    /\ upstreams \in [Node -> Seq(Node)]
    /\ decided \in [Node -> TerminalState \cup {None}]
    /\ work \in Seq([node : Node, state : TerminalState])
    /\ visiting \subseteq Tracked
    /\ visiting # {} => telling \in Tracked
    /\ offered \subseteq Tracked
    /\ decisions \in Seq(Decision)

\* A node is handed out only when every upstream, over data and ordering
\* edges alike, has its state: a rule never fires on a partial picture.
NeverEarly ==
    \A n \in offered : \A u \in Upstream(n) : decided[u] # None

\* The tracker's verdict on a node is final: the step that returns a decision
\* for a node never does so for one already handed out or already decided,
\* however the reports are ordered or repeated.
OneVerdict ==
    [][\A d \in {decisions'[i] : i \in DOMAIN decisions' \ DOMAIN decisions} :
         d.node \notin offered /\ decided[d.node] = None]_driverVars

\* The identity a propagated state carries points at a cause: an upstream of
\* the node, failure-like for an upstream-failed node that has a failure-like
\* upstream, and never a success for a state the default rule propagates.
OriginIsACause ==
    \A i \in DOMAIN decisions :
      LET d == decisions[i] IN
        d.kind = "propagated" =>
          /\ d.origin \in Upstream(d.node)
          /\ plan.rule[d.node] = "all-succeeded" => decided[d.origin] \notin SuccessLike
          /\ /\ d.state = "upstream-failed"
             /\ \E u \in Upstream(d.node) : decided[u] \in FailureLike
             => decided[d.origin] \in FailureLike

\* No node is stranded: once every node handed out has been reported and the
\* call is over, the cascade has decided every other node the tracker holds.
NothingStranded ==
    Idle /\ (\A n \in offered \cup plan.satisfied : decided[n] # None)
        => \A n \in Tracked : decided[n] # None

\* Every state the tracker decides is one the run contract allows: the gate,
\* the verdict and the once-only rule, for every order of reports.
TrackerContract == INSTANCE RunContract WITH outcome <- decided
TrackerKeepsContract == TrackerContract!CSpec
=============================================================================
