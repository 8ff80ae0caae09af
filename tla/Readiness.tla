------------------------------ MODULE Readiness ------------------------------
(***************************************************************************)
(* The readiness tracker (crates/core/src/readiness.rs): the countdown of  *)
(* every node's upstreams, the gate that evaluates a node's trigger rule   *)
(* when the countdown reaches zero, and the cascade by which a rule that   *)
(* can never fire decides a node without executing it.                     *)
(*                                                                         *)
(* notify_terminal is one Rust call; here it is NotifyTerminal (the call), *)
(* then PopWork and VisitDependent until the work list is empty.  Nothing  *)
(* else runs between them: the tracker is owned by one thread.             *)
(***************************************************************************)
EXTENDS TriggerRules, Nodes, Sequences

CONSTANT Plans   \* the pipelines explored, one chosen at the start

\* A pipeline as the tracker reads it.  data and order are the distinct
\* upstreams over data edges and over ordering edges (structural or
\* run-level); teardown nodes belong to a later phase; satisfied are the
\* nodes a resume carries forward.
PipelineType == [data : [Node -> SUBSET Node], order : [Node -> SUBSET Node],
                 rule : [Node -> TriggerRule],
                 teardown : SUBSET Node, satisfied : SUBSET Node]

ASSUME PlansAssumption == Plans \subseteq PipelineType

VARIABLES plan,       \* the pipeline: never changes
          remaining,  \* NodeState.remaining, the countdown
          upstreams,  \* NodeState.upstream_states: terminal upstreams, as told
          decided,    \* NodeState.decided
          work,       \* notify_terminal's work list, popped from its end
          visiting,   \* dependents of the popped node still to be told
          telling,    \* the popped node (0 before the first)
          decisions   \* the decisions this call returns

tracker == <<remaining, upstreams, decided>>
call    == <<work, visiting, telling, decisions>>

Upstream(n) == plan.data[n] \cup plan.order[n]
Tracked     == Node \ plan.teardown
Dependents(n) == {d \in Tracked : n \in Upstream(d)}

\* Mutant: ordering edges are not counted.
DataCountOnly(n) == Cardinality(plan.data[n])

\* Data upstreams and ordering upstreams are counted apart, so one that is
\* both counts twice.
InitialCount(n) == Cardinality(plan.data[n]) + Cardinality(plan.order[n])
\* Mutant: a node that only follows others is ready at once.
ReadyWithoutData == {n \in Tracked : plan.data[n] = {}}
InitialReady    == {n \in Tracked : InitialCount(n) = 0}

\* The pipelines whose countdowns come out even.  Registration by handles of
\* earlier nodes makes every pipeline acyclic; that no upstream is both
\* consumed and ordered after, and that no node of the main graph follows a
\* teardown node, is up to the author.
Countable(p) ==
    /\ \A S \in SUBSET Node :
         S # {} => \E n \in S : (p.data[n] \cup p.order[n]) \cap S = {}
    /\ \A n \in Node : p.data[n] \cap p.order[n] = {}
    /\ \A n \in Node \ p.teardown : (p.data[n] \cup p.order[n]) \cap p.teardown = {}

Told(n) == {upstreams[n][i] : i \in DOMAIN upstreams[n]}

\* The states a node that was handed out can be reported with.
Reportable == ExecutedState \cup StopLike

Decision == [kind : {"ready"}, node : Tracked]
            \cup [kind : {"propagated"}, node : Tracked, state : TerminalState, origin : Node]

Ready(d) == [kind |-> "ready", node |-> d]
Propagated(d, s, o) ==
    [kind |-> "propagated", node |-> d, state |-> s, origin |-> o]

-----------------------------------------------------------------------------
InitTracker ==
    /\ plan \in Plans
    /\ remaining = [n \in Node |-> InitialCount(n)]
    /\ upstreams = [n \in Node |-> << >>]
    /\ decided   = [n \in Node |-> None]
    /\ work = << >>
    /\ visiting = {}
    /\ telling = 0
    /\ decisions = << >>

Idle == work = << >> /\ visiting = {}

\* The call: the work list starts with the node just reported.
NotifyTerminal(n, s) ==
    /\ Idle
    /\ work' = <<[node |-> n, state |-> s]>>
    /\ decisions' = << >>
    /\ UNCHANGED <<plan, tracker, visiting, telling>>

\* Mutant: a node reported again is walked again.
PopWorkAgain ==
    /\ visiting = {} /\ work # << >>
    /\ LET item == work[Len(work)]
       IN  /\ work' = SubSeq(work, 1, Len(work) - 1)
           /\ decided' = [decided EXCEPT ![item.node] = item.state]
           /\ visiting' = Dependents(item.node)
           /\ telling' = item.node
    /\ UNCHANGED <<plan, remaining, upstreams, decisions>>

\* Pop the newest item.  A teardown node is unknown to the tracker and a
\* decided node is decided once, so both are dropped.
PopWork ==
    /\ visiting = {} /\ work # << >>
    /\ LET item == work[Len(work)]
       IN  /\ work' = SubSeq(work, 1, Len(work) - 1)
           /\ IF item.node \in Tracked /\ decided[item.node] = None
              THEN /\ decided' = [decided EXCEPT ![item.node] = item.state]
                   /\ visiting' = Dependents(item.node)
                   /\ telling' = item.node
              ELSE UNCHANGED <<decided, visiting, telling>>
    /\ UNCHANGED <<plan, remaining, upstreams, decisions>>

\* Mutant: the countdown stops at one.
CountDownToOne(k) == IF k = 1 THEN 1 ELSE k - 1
CountDown(k) == IF k = 0 THEN 0 ELSE k - 1

\* Mutant: the first upstream told is blamed.
OriginFirst(told, s) == told[1]

\* origin_for: the earliest upstream of the propagated state's class, else
\* the earliest that is not a success, else the earliest.
OriginFor(told, s) ==
    LET SameClass == {i \in DOMAIN told : ClassOf(decided[told[i]]) = ClassOf(s)}
        NotSuccess == {i \in DOMAIN told : decided[told[i]] \notin SuccessLike}
        Earliest(S) == CHOOSE i \in S : \A j \in S : i <= j
    IN  told[Earliest(IF SameClass # {} THEN SameClass
                      ELSE IF NotSuccess # {} THEN NotSuccess
                      ELSE DOMAIN told)]

\* Mutant: a propagated state stops at the node that inherits it.
StopsThere(d, s) == work
Requeue(d, s) == Append(work, [node |-> d, state |-> s])

\* Tell one dependent, in name order.  The gate opens on the step that takes
\* its countdown to zero; a propagated state joins the work list.
VisitDependent ==
    \E d \in visiting :
      /\ \A e \in visiting : d <= e
      /\ visiting' = visiting \ {d}
      /\ IF decided[d] # None
         THEN UNCHANGED <<remaining, upstreams, work, decisions>>
         ELSE LET told    == Append(upstreams[d], telling)
                  count   == CountDown(remaining[d])
                  verdict == EvaluateRule(plan.rule[d],
                                          {decided[told[i]] : i \in DOMAIN told})
              IN  /\ upstreams' = [upstreams EXCEPT ![d] = told]
                  /\ remaining' = [remaining EXCEPT ![d] = count]
                  /\ \/ /\ count # 0
                        /\ UNCHANGED <<work, decisions>>
                     \/ /\ count = 0
                        /\ verdict = Fires
                        /\ decisions' = Append(decisions, Ready(d))
                        /\ UNCHANGED work
                     \/ /\ count = 0
                        /\ verdict # Fires
                        /\ decisions' = Append(decisions,
                               Propagated(d, verdict, OriginFor(told, verdict)))
                        /\ work' = Requeue(d, verdict)
      /\ UNCHANGED <<plan, decided, telling>>

Cascade == PopWork \/ VisitDependent
=============================================================================
