--------------------------- MODULE ReadinessProofs ---------------------------
(***************************************************************************)
(* The readiness tracker.  First what holds of it whoever drives it: the   *)
(* invariant of its books, its work list and its decisions, and what every *)
(* call and every step of a cascade does to the set of nodes handed out as *)
(* ready.  Then what it does under its driver, for every pipeline: it      *)
(* never evaluates a rule on a partial picture, gives one verdict per      *)
(* node, implements the run contract and, on pipelines it can count,       *)
(* strands nobody.                                                         *)
(***************************************************************************)
EXTENDS ReadinessDriver, CommonLemmas

-----------------------------------------------------------------------------
(* The inductive invariant.                                                 *)

\* The upstreams of n that have been told to it are decided, each was told
\* once, and the countdown is what is left of the initial count.
Books(n) ==
    /\ upstreams[n] \in Seq(Node) /\ remaining[n] \in Nat
    /\ \A u \in Told(n) : u \in Upstream(n) /\ decided[u] # None
    /\ Cardinality(Told(n)) = Len(upstreams[n])
    /\ remaining[n] + Len(upstreams[n]) = InitialCount(n)

\* The dependents still to be told have not been told of the popped node.
VisitsFresh ==
    visiting # {} => /\ telling \in Tracked
                     /\ decided[telling] # None
                     /\ \A d \in visiting : /\ telling \in Upstream(d)
                                            /\ telling \notin Told(d)

Complete(n) == \A u \in Upstream(n) : decided[u] # None
Verdict(n)  == EvaluateRule(plan.rule[n], {decided[u] : u \in Upstream(n)})
RuleFired(n) == Complete(n) /\ (Upstream(n) = {} \/ Verdict(n) = Fires)

\* The nodes the tracker has handed out as ready: counted down to nothing, and
\* with a rule that fired.
Offered == {n \in Tracked : remaining[n] = 0 /\ RuleFired(n)}

\* What a work item says of its node is one of the three ways a node ends.
Justified(n, s) ==
    \/ n \in plan.satisfied /\ s = "satisfied-from-prior"
    \/ RuleFired(n) /\ s \in Reportable
    \/ Complete(n) /\ Upstream(n) # {} /\ s = Verdict(n) /\ s # Fires
WorkSound == \A i \in DOMAIN work : Justified(work[i].node, work[i].state)

\* The identity blamed for a state n inherits is a cause of it.
Blames(n, s, o) ==
    /\ Complete(n) /\ o \in Upstream(n)
    /\ plan.rule[n] = "all-succeeded" => decided[o] \notin SuccessLike
    /\ s = "upstream-failed" /\ (\E u \in Upstream(n) : decided[u] \in FailureLike)
         => decided[o] \in FailureLike

\* The decisions of the call so far: who may run was handed out, who inherits
\* a state has its cause.
DecisionSound(d) ==
    /\ d.kind = "ready" => d.node \in Offered
    /\ d.kind = "propagated" => Blames(d.node, d.state, d.origin)
DecisionsSound == \A i \in DOMAIN decisions : DecisionSound(decisions[i])

\* The tracker's variables stay in their sets.
TrackerTypeOK ==
    /\ plan \in Plans
    /\ remaining \in [Node -> Nat]
    /\ upstreams \in [Node -> Seq(Node)]
    /\ decided \in [Node -> TerminalState \cup {None}]
    /\ work \in Seq([node : Node, state : TerminalState])
    /\ visiting \subseteq Tracked
    /\ visiting # {} => telling \in Tracked
    /\ decisions \in Seq(Decision)

TrackerInv == /\ TrackerTypeOK
              /\ \A n \in Node : Books(n)
              /\ VisitsFresh /\ WorkSound /\ DecisionsSound

-----------------------------------------------------------------------------
(* Facts about the pipeline and the rules.                                  *)

\* The edges of a pipeline end in nodes, are finitely many, and an upstream
\* that is both consumed and ordered after makes the count larger, not smaller.
LEMMA PlanTyped ==
    ASSUME plan \in Plans, NEW n \in Node
    PROVE  /\ plan.data[n] \subseteq Node /\ plan.order[n] \subseteq Node
           /\ plan.rule[n] \in TriggerRule
           /\ Upstream(n) \subseteq Node /\ IsFiniteSet(Upstream(n))
           /\ InitialCount(n) \in Nat
           /\ Cardinality(Upstream(n)) \in Nat
           /\ Cardinality(Upstream(n)) <= InitialCount(n)
           /\ plan.data[n] \cap plan.order[n] = {}
                => InitialCount(n) = Cardinality(Upstream(n))
<1>1. plan.data[n] \subseteq Node /\ plan.order[n] \subseteq Node /\ plan.rule[n] \in TriggerRule
  BY PlansAssumption DEF PipelineType
<1>2. Upstream(n) \subseteq Node
  BY <1>1 DEF Upstream
<1>3. IsFiniteSet(plan.data[n]) /\ IsFiniteSet(plan.order[n]) /\ IsFiniteSet(Upstream(n))
  BY <1>1, <1>2, NodeAssumption, FS_Subset
<1>4. IsFiniteSet(plan.data[n] \cap plan.order[n])
  BY <1>3, FS_Subset, plan.data[n] \cap plan.order[n] \subseteq plan.data[n]
<1>5. /\ Cardinality(plan.data[n]) \in Nat /\ Cardinality(plan.order[n]) \in Nat
      /\ Cardinality(Upstream(n)) \in Nat
      /\ Cardinality(plan.data[n] \cap plan.order[n]) \in Nat
  BY <1>3, <1>4, FS_CardinalityType
<1>6. Cardinality(Upstream(n)) = Cardinality(plan.data[n]) + Cardinality(plan.order[n])
                                 - Cardinality(plan.data[n] \cap plan.order[n])
  BY <1>3, FS_Union DEF Upstream
<1>7. plan.data[n] \cap plan.order[n] = {} => Cardinality(plan.data[n] \cap plan.order[n]) = 0
  BY FS_EmptySet
<1>8. QED
  BY <1>1, <1>2, <1>3, <1>5, <1>6, <1>7 DEF InitialCount

\* A rule fires or yields a terminal state.
LEMMA VerdictTyped ==
    ASSUME NEW rule \in TriggerRule, NEW states
    PROVE  EvaluateRule(rule, states) \in TerminalState \cup {Fires}
BY DEF TriggerRule, EvaluateRule, EvalAllSucceeded, EvalAnyFailed, TerminalState,
       SuccessLike, SkipLike, FailureLike, StopLike, Fires

\* The classes of a success, of a failure, and of what the default rule
\* propagates.
LEMMA ClassesDiffer ==
    /\ \A s \in SuccessLike : ClassOf(s) = "success"
    /\ \A s \in TerminalState : ClassOf(s) = "failure" <=> s \in FailureLike
    /\ ClassOf("upstream-skipped") = "skip"
    /\ ClassOf("cancelled") = "stop"
    /\ ClassOf("upstream-failed") = "failure"
BY DEF ClassOf, TerminalState, SuccessLike, SkipLike, FailureLike, StopLike

\* "No state" is not a state, and neither is "fires".
LEMMA NoneIsNoState ==
    /\ None \notin TerminalState /\ Fires \notin TerminalState
    /\ Reportable \subseteq TerminalState /\ "satisfied-from-prior" \in TerminalState
BY DEF None, Fires, TerminalState, SuccessLike, SkipLike, FailureLike, StopLike,
       Reportable, ExecutedState

\* The set of what was told is finite, and grows by what is appended.
LEMMA ToldTyped ==
    ASSUME plan \in Plans, NEW n \in Node, Books(n)
    PROVE  Told(n) \subseteq Upstream(n) /\ IsFiniteSet(Told(n)) /\ Cardinality(Told(n)) \in Nat
<1>1. Told(n) \subseteq Upstream(n)
  BY DEF Books
<1>2. IsFiniteSet(Told(n))
  BY <1>1, PlanTyped, FS_Subset
<1>3. QED
  BY <1>1, <1>2, FS_CardinalityType

\* As many upstreams told as were counted means all of them told.
LEMMA CountedAll ==
    ASSUME plan \in Plans, NEW n \in Node, NEW T \in SUBSET Upstream(n),
           Cardinality(T) = InitialCount(n)
    PROVE  T = Upstream(n)
<1>1. IsFiniteSet(Upstream(n)) /\ IsFiniteSet(T)
  BY PlanTyped, FS_Subset
<1>2. Cardinality(T) \in Nat /\ Cardinality(T) <= Cardinality(Upstream(n))
  BY <1>1, FS_Subset, FS_CardinalityType
<1>3. Cardinality(T) = Cardinality(Upstream(n))
  BY <1>2, PlanTyped
<1>4. QED
  BY <1>1, <1>3, FS_Subset

\* An upstream that has not been told keeps the countdown above zero.
LEMMA UntoldHoldsCount ==
    ASSUME plan \in Plans, NEW n \in Node, Books(n),
           NEW u \in Upstream(n), u \notin Told(n)
    PROVE  remaining[n] \in Nat /\ remaining[n] # 0
<1>1. remaining[n] \in Nat /\ Len(upstreams[n]) \in Nat
  BY DEF Books
<1>2. ASSUME remaining[n] = 0 PROVE FALSE
  <2>1. InitialCount(n) = Len(upstreams[n])
    BY <1>1, <1>2, PlanTyped DEF Books
  <2>2. Cardinality(Told(n)) = InitialCount(n)
    BY <2>1 DEF Books
  <2>3. QED
    BY <2>2, CountedAll, ToldTyped
<1>3. QED
  BY <1>1, <1>2

-----------------------------------------------------------------------------
(* What is decided stays decided.                                           *)

\* No node's state, once given, is changed by the step.
Keeps == /\ plan' = plan
         /\ \A u \in Node : decided[u] # None => decided'[u] = decided[u]

\* A complete picture is final: so are the verdict on it and a fired rule.
LEMMA PictureIsFinal ==
    ASSUME plan \in Plans, Keeps, NEW n \in Node, Complete(n)
    PROVE  Complete(n)' /\ Verdict(n)' = Verdict(n) /\ (RuleFired(n) => RuleFired(n)')
<1>1. Upstream(n)' = Upstream(n) /\ Upstream(n) \subseteq Node
  BY PlanTyped DEF Keeps, Upstream
<1>2. \A u \in Upstream(n) : decided[u] # None /\ decided'[u] = decided[u]
  BY <1>1 DEF Complete, Keeps
<1>3. Complete(n)'
  BY <1>1, <1>2 DEF Complete
<1>4. {decided'[u] : u \in Upstream(n)} = {decided[u] : u \in Upstream(n)}
  BY <1>2
<1>5. Verdict(n)' = Verdict(n)
  BY <1>1, <1>4 DEF Verdict, Keeps
<1>6. QED
  BY <1>1, <1>3, <1>5 DEF RuleFired

\* What justified a work item still does.
LEMMA JustifiedStays ==
    ASSUME plan \in Plans, Keeps, NEW n \in Node, NEW s, Justified(n, s)
    PROVE  Justified(n, s)'
<1>1. Upstream(n)' = Upstream(n) /\ plan' = plan
  BY DEF Keeps, Upstream
<1>2. CASE n \in plan.satisfied /\ s = "satisfied-from-prior"
  BY <1>1, <1>2 DEF Justified
<1>3. CASE RuleFired(n) /\ s \in Reportable
  <2>1. RuleFired(n)'
    BY <1>3, PictureIsFinal DEF RuleFired
  <2>2. QED
    BY <1>3, <2>1 DEF Justified
<1>4. CASE Complete(n) /\ Upstream(n) # {} /\ s = Verdict(n) /\ s # Fires
  <2>1. Complete(n)' /\ Verdict(n)' = Verdict(n)
    BY <1>4, PictureIsFinal
  <2>2. QED
    BY <1>1, <1>4, <2>1 DEF Justified
<1>5. QED
  BY <1>2, <1>3, <1>4 DEF Justified

\* What a work item says stays justified while it is in the list.
LEMMA ItemStays ==
    ASSUME TrackerInv, Keeps, NEW i \in DOMAIN work, work'[i] = work[i]
    PROVE  Justified(work[i].node, work[i].state)'
<1>1. work[i] \in [node : Node, state : TerminalState]
  BY LenProperties, ElementOfSeq DEF TrackerInv, TrackerTypeOK
<1>2. PICK n \in Node, s \in TerminalState :
        n = work[i].node /\ s = work[i].state /\ Justified(n, s)
  BY <1>1 DEF TrackerInv, WorkSound
<1>3. Justified(n, s)'
  BY <1>2, JustifiedStays DEF TrackerInv, TrackerTypeOK
<1>4. QED
  BY <1>2, <1>3 DEF Justified, RuleFired, Complete, Verdict, Upstream

\* Who was to blame still is.
LEMMA BlameStays ==
    ASSUME plan \in Plans, Keeps, NEW n \in Node, NEW s, NEW o, Blames(n, s, o)
    PROVE  Blames(n, s, o)'
<1>1. Upstream(n)' = Upstream(n) /\ Upstream(n) \subseteq Node /\ plan' = plan
  BY PlanTyped DEF Keeps, Upstream
<1>2. \A u \in Upstream(n) : decided'[u] = decided[u]
  BY <1>1 DEF Blames, Complete, Keeps
<1>3. Complete(n)'
  BY PictureIsFinal DEF Blames
<1>4. QED
  BY <1>1, <1>2, <1>3 DEF Blames

\* A decision of the call stays sound while the call goes on.
LEMMA DecisionStays ==
    ASSUME TrackerTypeOK, Keeps, DecisionsSound, Offered \subseteq Offered',
           NEW i \in DOMAIN decisions, decisions'[i] = decisions[i]
    PROVE  DecisionSound(decisions[i])'
<1>1. ASSUME decisions[i].kind = "propagated"
      PROVE  Blames(decisions[i].node, decisions[i].state, decisions[i].origin)'
  <2>1. decisions[i].node \in Node
    <3>1. decisions \in Seq(Decision)
      BY DEF TrackerTypeOK
    <3>2. decisions[i] \in Decision
      BY <3>1, LenProperties, ElementOfSeq
    <3>3. QED
      BY <3>2 DEF Decision, Tracked
  <2>2. PICK n, s, o : n \in Node /\ n = decisions[i].node /\ s = decisions[i].state
                      /\ o = decisions[i].origin
    BY <2>1
  <2>3. Blames(n, s, o)
    BY <1>1, <2>2 DEF DecisionsSound, DecisionSound
  <2>4. Blames(n, s, o)'
    BY <2>2, <2>3, BlameStays DEF TrackerTypeOK
  <2>5. QED
    BY <2>2, <2>4 DEF Blames, Complete, Upstream
<1>2. QED
  BY <1>1 DEF DecisionsSound, DecisionSound

\* The book of a node that is told nothing in a step stays in order.
LEMMA BooksStay ==
    ASSUME plan \in Plans, Keeps, NEW n \in Node, Books(n),
           upstreams'[n] = upstreams[n], remaining'[n] = remaining[n]
    PROVE  Books(n)' /\ Told(n)' = Told(n)
<1>1. Told(n)' = Told(n)
  BY DEF Told
<1>2. Upstream(n)' = Upstream(n) /\ InitialCount(n)' = InitialCount(n) /\ Upstream(n) \subseteq Node
  BY PlanTyped DEF Keeps, Upstream, InitialCount
<1>3. \A u \in Told(n) : u \in Upstream(n) /\ decided'[u] # None
  BY <1>2 DEF Books, Keeps
<1>4. QED
  BY <1>1, <1>2, <1>3 DEF Books

\* A countdown at nothing has been told of every upstream.
LEMMA CountedDown ==
    ASSUME plan \in Plans, NEW n \in Node, Books(n), remaining[n] = 0
    PROVE  Told(n) = Upstream(n) /\ Complete(n)
<1>1. Len(upstreams[n]) \in Nat /\ Cardinality(Told(n)) = InitialCount(n)
  <2>1. Len(upstreams[n]) \in Nat
    BY LenProperties DEF Books
  <2>2. QED
    BY <2>1 DEF Books
<1>2. Told(n) = Upstream(n)
  BY <1>1, CountedAll, ToldTyped
<1>3. QED
  BY <1>2 DEF Books, Complete

\* Whether a node was handed out does not change while its countdown stands.
LEMMA OfferStays ==
    ASSUME plan \in Plans, Keeps, NEW n \in Node, Books(n),
           remaining'[n] = remaining[n]
    PROVE  n \in Offered' <=> n \in Offered
<1>1. Tracked' = Tracked /\ Upstream(n)' = Upstream(n)
  BY DEF Keeps, Tracked, Upstream
<1>2. CASE remaining[n] = 0
  <2>1. Complete(n) /\ Complete(n)' /\ Verdict(n)' = Verdict(n)
    BY <1>2, CountedDown, PictureIsFinal
  <2>2. RuleFired(n)' <=> RuleFired(n)
    BY <1>1, <2>1 DEF RuleFired
  <2>3. QED
    BY <1>1, <2>2 DEF Offered
<1>3. QED
  BY <1>2 DEF Offered

\* A step that moves no countdown hands nobody out.
LEMMA OffersStay ==
    ASSUME TrackerInv, Keeps, remaining' = remaining
    PROVE  Offered' = Offered
<1>1. \A n \in Offered \cup Offered' : n \in Node
  BY DEF Offered, Tracked, Keeps
<1>2. plan \in Plans /\ \A n \in Node : Books(n)
  BY DEF TrackerInv, TrackerTypeOK
<1>3. \A n \in Node : n \in Offered' <=> n \in Offered
  BY <1>2, OfferStays
<1>4. QED
  BY <1>1, <1>3

-----------------------------------------------------------------------------
(* The initial state.                                                       *)

\* A tracker that has heard nothing is sound, and what it offers is what is ready.
LEMMA InitTracks == InitTracker => TrackerInv /\ Offered = InitialReady
<1> SUFFICES ASSUME InitTracker PROVE TrackerInv /\ Offered = InitialReady
  OBVIOUS
<1> USE DEF InitTracker
<1>1. plan \in Plans
  OBVIOUS
<1>2. \A n \in Node : Told(n) = {}
  BY DEF Told
<1>3. ASSUME NEW n \in Node PROVE InitialCount(n) \in Nat /\ Books(n)
  <2>1. InitialCount(n) \in Nat
    BY <1>1, PlanTyped
  <2>2. Cardinality({}) = 0
    BY FS_EmptySet
  <2>3. upstreams[n] = << >> /\ remaining[n] = InitialCount(n) /\ Told(n) = {}
    BY <1>2
  <2>4. upstreams[n] \in Seq(Node) /\ Len(upstreams[n]) = 0
    BY <2>3
  <2>5. remaining[n] + Len(upstreams[n]) = InitialCount(n)
    BY <2>1, <2>3, <2>4
  <2>6. Cardinality(Told(n)) = Len(upstreams[n])
    BY <2>2, <2>3, <2>4
  <2>7. \A u \in Told(n) : u \in Upstream(n) /\ decided[u] # None
    BY <2>3
  <2>8. Books(n)
    BY <2>1, <2>3, <2>4, <2>5, <2>6, <2>7 DEF Books
  <2>9. QED
    BY <2>1, <2>8
<1>4. ASSUME NEW n \in InitialReady PROVE RuleFired(n)
  <2>1. n \in Node /\ InitialCount(n) = 0
    BY <1>4 DEF InitialReady, Tracked
  <2>2. IsFiniteSet(Upstream(n)) /\ Cardinality(Upstream(n)) = 0
    BY <1>1, <2>1, PlanTyped
  <2>3. Upstream(n) = {}
    BY <2>2, FS_EmptySet
  <2>4. QED
    BY <2>3 DEF RuleFired, Complete
<1>5. TrackerTypeOK
  BY <1>3 DEF TrackerTypeOK
<1>6. Offered = InitialReady
  <2>1. \A n \in Tracked : n \in Node /\ (remaining[n] = 0 <=> InitialCount(n) = 0)
    BY DEF Tracked
  <2>2. QED
    BY <1>4, <2>1 DEF Offered, InitialReady
<1>7. QED
  BY <1>3, <1>5, <1>6 DEF TrackerInv, VisitsFresh, WorkSound, DecisionsSound

-----------------------------------------------------------------------------
(* The calls.                                                               *)

\* A call with a justified report starts the work list with it, and hands
\* nobody out.
LEMMA CallTracks ==
    ASSUME TrackerInv, NEW n \in Node, NEW s \in TerminalState, Justified(n, s),
           NotifyTerminal(n, s)
    PROVE  TrackerInv' /\ Offered' = Offered /\ Keeps
<1> USE DEF NotifyTerminal, tracker
<1>1. plan \in Plans /\ Keeps
  BY DEF TrackerInv, TrackerTypeOK, Keeps
<1>2. TrackerTypeOK'
  <2>1. work' \in Seq([node : Node, state : TerminalState])
    OBVIOUS
  <2>2. Tracked' = Tracked
    BY DEF Tracked
  <2>3. QED
    BY <2>1, <2>2 DEF TrackerInv, TrackerTypeOK
<1>3. \A m \in Node : Books(m)'
  BY <1>1, BooksStay DEF TrackerInv
<1>4. VisitsFresh'
  BY DEF VisitsFresh, Idle
<1>5. WorkSound'
  <2>1. Justified(n, s)'
    BY <1>1, JustifiedStays
  <2>2. ASSUME NEW i \in DOMAIN work' PROVE work'[i].node = n /\ work'[i].state = s
    OBVIOUS
  <2>3. QED
    BY <2>1, <2>2 DEF WorkSound, Justified, RuleFired, Complete, Verdict, Upstream
<1>6. DecisionsSound'
  BY DEF DecisionsSound
<1>7. Offered' = Offered
  BY <1>1, OffersStay
<1>8. QED
  BY <1>1, <1>2, <1>3, <1>4, <1>5, <1>6, <1>7 DEF TrackerInv

\* The driver takes the decisions one after the other.
LEMMA TakingTracks ==
    ASSUME TrackerInv, decisions # << >>, decisions' = Tail(decisions),
           UNCHANGED <<plan, tracker, work, visiting, telling>>
    PROVE  TrackerInv' /\ Offered' = Offered /\ Keeps
<1> USE DEF tracker
<1>1. plan \in Plans /\ Keeps /\ decisions \in Seq(Decision) /\ Decision' = Decision
      /\ Tracked' = Tracked
  BY DEF TrackerInv, TrackerTypeOK, Keeps, Decision, Tracked
<1>2. Offered' = Offered
  BY <1>1, OffersStay
<1>3. /\ decisions' \in Seq(Decision)
      /\ \A i \in DOMAIN decisions' : i + 1 \in DOMAIN decisions /\ decisions'[i] = decisions[i + 1]
  BY <1>1, TailElements
<1>4. \A n \in Node : Books(n)'
  BY <1>1, BooksStay DEF TrackerInv
<1>5. VisitsFresh'
  BY <1>1 DEF TrackerInv, VisitsFresh, Told, Upstream
<1>6. WorkSound'
  BY <1>1, ItemStays DEF WorkSound
<1>7. DecisionsSound'
  <2>1. ASSUME NEW i \in DOMAIN decisions'
        PROVE  \E e : decisions'[i] = e /\ DecisionSound(e)'
    <3>1. PICK e : e = decisions[i + 1] /\ e = decisions'[i] /\ DecisionSound(e)
      BY <1>3 DEF TrackerInv, DecisionsSound
    <3>2. DecisionSound(e)'
      <4>1. plan' = plan /\ decided' = decided
        OBVIOUS
      <4>2. Upstream(e.node)' = Upstream(e.node) /\ Complete(e.node)' = Complete(e.node)
        BY <4>1 DEF Upstream, Complete
      <4>3. Blames(e.node, e.state, e.origin) => Blames(e.node, e.state, e.origin)'
        BY <4>1, <4>2 DEF Blames
      <4>4. QED
        BY <1>2, <3>1, <4>3 DEF DecisionSound
    <3>3. QED
      BY <3>1, <3>2
  <2>2. ASSUME NEW i \in DOMAIN decisions' PROVE DecisionSound(decisions[i])'
    <3>1. PICK e : decisions'[i] = e /\ DecisionSound(e)'
      BY <2>1
    <3>2. QED
      BY <3>1 DEF DecisionSound, Blames, Complete, Upstream
  <2>3. QED
    BY <2>2 DEF DecisionsSound
<1>8. QED
  BY <1>1, <1>2, <1>3, <1>4, <1>5, <1>6, <1>7 DEF TrackerInv, TrackerTypeOK

\* A step that leaves the tracker and the call alone.
LEMMA StillTracks ==
    ASSUME TrackerInv, UNCHANGED <<plan, tracker, call>>
    PROVE  TrackerInv' /\ Offered' = Offered /\ Keeps
<1> USE DEF tracker, call
<1>1. TrackerTypeOK' /\ Keeps
  BY DEF TrackerInv, TrackerTypeOK, Tracked, Decision, Keeps
<1>2. \A n \in Node : Books(n)'
  BY DEF TrackerInv, Books, Told, Upstream, InitialCount
<1>3. VisitsFresh'
  BY DEF TrackerInv, VisitsFresh, Tracked, Upstream, Told
<1>4. Offered' = Offered
  BY <1>1, OffersStay
<1>5. WorkSound'
  BY <1>1, ItemStays DEF WorkSound
<1>6. DecisionsSound'
  BY <1>4 DEF TrackerInv, DecisionsSound, DecisionSound, Blames, Complete, Upstream
<1>7. QED
  BY <1>1, <1>2, <1>3, <1>4, <1>5, <1>6 DEF TrackerInv

-----------------------------------------------------------------------------
(* Popping the work list.                                                   *)

\* The newest item: a node of the pipeline with a state it may end in.
LEMMA NewestItem ==
    ASSUME TrackerInv, work # << >>
    PROVE  /\ work[Len(work)].node \in Node /\ work[Len(work)].state \in TerminalState
           /\ Justified(work[Len(work)].node, work[Len(work)].state)
<1>1. work \in Seq([node : Node, state : TerminalState])
  BY DEF TrackerInv, TrackerTypeOK
<1>2. Len(work) \in DOMAIN work /\ work[Len(work)] \in [node : Node, state : TerminalState]
  BY <1>1, LastAndRest
<1>3. Justified(work[Len(work)].node, work[Len(work)].state)
  BY <1>2 DEF TrackerInv, WorkSound
<1>4. QED
  BY <1>2, <1>3

\* A pop decides a node that had no state, or drops the item.
LEMMA PopDecides ==
    ASSUME TrackerInv, PopWork
    PROVE  /\ Keeps
           /\ decided' \in [Node -> TerminalState \cup {None}]
           /\ Tracked' = Tracked
<1>1. plan' = plan /\ work # << >>
  BY DEF PopWork
<1>2. work[Len(work)].node \in Node /\ work[Len(work)].state \in TerminalState
  BY <1>1, NewestItem
<1>3. decided \in [Node -> TerminalState \cup {None}]
  BY DEF TrackerInv, TrackerTypeOK
<1>4. CASE work[Len(work)].node \in Tracked /\ decided[work[Len(work)].node] = None
  <2>1. decided' = [decided EXCEPT ![work[Len(work)].node] = work[Len(work)].state]
    BY <1>4 DEF PopWork
  <2>2. QED
    BY <1>1, <1>2, <1>3, <1>4, <2>1 DEF Keeps, Tracked
<1>5. CASE ~(work[Len(work)].node \in Tracked /\ decided[work[Len(work)].node] = None)
  BY <1>1, <1>3, <1>5 DEF PopWork, Keeps, Tracked
<1>6. QED
  BY <1>4, <1>5

\* A pop hands nobody out.
LEMMA PopTracks ==
    ASSUME TrackerInv, PopWork
    PROVE  TrackerInv' /\ Offered' = Offered /\ Keeps
<1> DEFINE node == work[Len(work)].node
           state == work[Len(work)].state
<1>1. /\ visiting = {} /\ work # << >> /\ plan \in Plans /\ plan' = plan
      /\ work \in Seq([node : Node, state : TerminalState])
      /\ work' = SubSeq(work, 1, Len(work) - 1)
      /\ remaining' = remaining /\ upstreams' = upstreams /\ decisions' = decisions
  BY DEF PopWork, TrackerInv, TrackerTypeOK
<1>2. node \in Node /\ state \in TerminalState
  BY <1>1, NewestItem
<1>3. Keeps /\ decided' \in [Node -> TerminalState \cup {None}] /\ Tracked' = Tracked
  BY PopDecides
<1>4. Offered' = Offered
  BY <1>1, <1>3, OffersStay
<1>5. ASSUME node \in Tracked, decided[node] = None
      PROVE  visiting' \subseteq Tracked' /\ telling' \in Tracked' /\ VisitsFresh'
  <2>1. /\ decided' = [decided EXCEPT ![node] = state]
        /\ visiting' = Dependents(node) /\ telling' = node
    BY <1>5 DEF PopWork
  <2>2. visiting' \subseteq Tracked
    BY <2>1 DEF Dependents
  <2>3. decided'[node] # None
    BY <1>2, <2>1, NoneIsNoState DEF TrackerInv, TrackerTypeOK
  <2>4. \A d \in Dependents(node) : d \in Node /\ node \in Upstream(d) /\ node \notin Told(d)
    BY <1>5 DEF Dependents, Tracked, TrackerInv, Books
  <2>5. \A d \in Dependents(node) : node \in Upstream(d)' /\ node \notin Told(d)'
    BY <1>1, <2>4 DEF Upstream, Told
  <2>6. VisitsFresh'
    BY <1>3, <1>5, <2>1, <2>3, <2>5 DEF VisitsFresh
  <2>7. QED
    BY <1>3, <1>5, <2>1, <2>2, <2>6
<1>6. visiting' \subseteq Tracked' /\ (visiting' # {} => telling' \in Tracked') /\ VisitsFresh'
  <2>1. CASE node \in Tracked /\ decided[node] = None
    BY <1>5, <2>1
  <2>2. CASE ~(node \in Tracked /\ decided[node] = None)
    <3>1. visiting' = {}
      BY <1>1, <2>2 DEF PopWork
    <3>2. QED
      BY <3>1 DEF VisitsFresh
  <2>3. QED
    BY <2>1, <2>2
<1>7. work' \in Seq([node : Node, state : TerminalState])
  BY <1>1, LastAndRest
<1>8. TrackerTypeOK'
  <2>1. Decision' = Decision
    BY <1>3 DEF Decision
  <2>2. QED
    BY <1>1, <1>3, <1>4, <1>6, <1>7, <2>1 DEF TrackerInv, TrackerTypeOK
<1>9. \A n \in Node : Books(n)'
  BY <1>1, <1>3, BooksStay DEF TrackerInv
<1>11. WorkSound'
  <2>1. ASSUME NEW i \in DOMAIN work' PROVE i \in DOMAIN work /\ work'[i] = work[i]
    BY <1>1, <2>1, LastAndRest
  <2>2. QED
    BY <1>3, <2>1, ItemStays DEF WorkSound
<1>12. DecisionsSound'
  BY <1>1, <1>3, <1>4, DecisionStays DEF TrackerInv, DecisionsSound
<1>13. QED
  BY <1>3, <1>4, <1>6, <1>8, <1>9, <1>11, <1>12 DEF TrackerInv

-----------------------------------------------------------------------------
(* Telling one dependent.                                                   *)

\* The part of the step that tells d of the popped node.
Tells(d) ==
    /\ plan' = plan /\ decided' = decided /\ telling' = telling
    /\ visiting' = visiting \ {d}
    /\ upstreams' = [upstreams EXCEPT ![d] = Append(upstreams[d], telling)]
    /\ remaining' = [remaining EXCEPT ![d] = CountDown(remaining[d])]

\* Its book stays in order, no other book is touched, a countdown that
\* reaches zero has been told of everything, and d was not handed out before.
LEMMA TellKeepsBooks ==
    ASSUME TrackerInv, NEW d \in visiting, decided[d] = None, Tells(d)
    PROVE  /\ Books(d)' /\ Told(d)' = Told(d) \cup {telling}
           /\ \A n \in Node \ {d} : Books(n)' /\ Told(n)' = Told(n)
           /\ remaining'[d] = 0 => Told(d)' = Upstream(d)
           /\ upstreams' \in [Node -> Seq(Node)] /\ remaining' \in [Node -> Nat]
           /\ d \in Node /\ d \in Tracked /\ d \notin Offered
<1> USE DEF Tells
<1>1. /\ plan \in Plans /\ d \in Node /\ d \in Tracked /\ telling \in Node
      /\ upstreams \in [Node -> Seq(Node)] /\ remaining \in [Node -> Nat]
  BY DEF TrackerInv, TrackerTypeOK, Tracked
<1>2. Books(d) /\ telling \in Upstream(d) /\ telling \notin Told(d) /\ decided[telling] # None
  BY <1>1 DEF TrackerInv, VisitsFresh
<1>3. Keeps /\ Upstream(d)' = Upstream(d) /\ InitialCount(d)' = InitialCount(d)
  BY DEF Keeps, Upstream, InitialCount
<1>4. remaining[d] \in Nat /\ remaining[d] # 0
  BY <1>1, <1>2, UntoldHoldsCount
<1>5. upstreams'[d] = Append(upstreams[d], telling) /\ remaining'[d] = remaining[d] - 1
  BY <1>1, <1>4 DEF CountDown
<1>6. upstreams[d] \in Seq(Node) /\ Len(upstreams[d]) \in Nat
  BY <1>1, LenProperties
<1>7. upstreams'[d] \in Seq(Node) /\ Len(upstreams'[d]) = Len(upstreams[d]) + 1
  BY <1>1, <1>5, <1>6, AppendProperties
<1>8. Told(d)' = Told(d) \cup {telling}
  BY <1>5, <1>6 DEF Told
<1>9. Cardinality(Told(d)') = Cardinality(Told(d)) + 1
  <2>1. IsFiniteSet(Told(d))
    BY <1>1, <1>2, ToldTyped
  <2>2. QED
    BY <1>2, <1>8, <2>1, FS_AddElement
<1>10. Cardinality(Told(d)') = Len(upstreams'[d])
  BY <1>2, <1>7, <1>9 DEF Books
<1>11. remaining'[d] \in Nat /\ remaining'[d] + Len(upstreams'[d]) = InitialCount(d)
  BY <1>2, <1>4, <1>5, <1>6, <1>7 DEF Books
<1>12. Told(d)' \subseteq Upstream(d) /\ \A u \in Told(d)' : decided[u] # None
  BY <1>2, <1>8 DEF Books
<1>13. Books(d)'
  BY <1>3, <1>7, <1>10, <1>11, <1>12 DEF Books
<1>14. ASSUME NEW n \in Node \ {d} PROVE Books(n)' /\ Told(n)' = Told(n)
  <2>1. upstreams'[n] = upstreams[n] /\ remaining'[n] = remaining[n]
    BY <1>1
  <2>2. QED
    BY <1>1, <1>3, <2>1, BooksStay DEF TrackerInv
<1>15. ASSUME remaining'[d] = 0 PROVE Told(d)' = Upstream(d)
  <2>1. Cardinality(Told(d)') = InitialCount(d)
    BY <1>7, <1>6, <1>10, <1>11, <1>15
  <2>2. QED
    BY <1>1, <1>12, <2>1, CountedAll
<1>16. upstreams' \in [Node -> Seq(Node)] /\ remaining' \in [Node -> Nat]
  BY <1>1, <1>4, <1>5, <1>6, <1>7
<1>17. d \notin Offered
  BY <1>4 DEF Offered
<1>18. QED
  BY <1>1, <1>8, <1>13, <1>14, <1>15, <1>16, <1>17

\* The identity blamed is one of the upstreams told: of the propagated
\* state's class if there is one, else not a success if there is one.
LEMMA OriginIsTold ==
    ASSUME NEW told \in Seq(Node), told # << >>, NEW s
    PROVE  \E i \in DOMAIN told :
             /\ OriginFor(told, s) = told[i] /\ told[i] \in Node
             /\ (\E j \in DOMAIN told : ClassOf(decided[told[j]]) = ClassOf(s))
                  => ClassOf(decided[told[i]]) = ClassOf(s)
             /\ \/ ClassOf(decided[told[i]]) = ClassOf(s)
                \/ (\E j \in DOMAIN told : decided[told[j]] \notin SuccessLike)
                     => decided[told[i]] \notin SuccessLike
<1> DEFINE SameClass == {i \in DOMAIN told : ClassOf(decided[told[i]]) = ClassOf(s)}
           NotSuccess == {i \in DOMAIN told : decided[told[i]] \notin SuccessLike}
           Earliest(S) == CHOOSE i \in S : \A j \in S : i <= j
           from == IF SameClass # {} THEN SameClass
                   ELSE IF NotSuccess # {} THEN NotSuccess
                   ELSE DOMAIN told
<1>1. DOMAIN told = 1..Len(told) /\ Len(told) \in Nat /\ Len(told) # 0
  BY EmptySeq, LenProperties
<1>2. from \in SUBSET (1..Len(told)) /\ from # {}
  BY <1>1
<1>3. \E m \in from : \A k \in from : m <= k
  <2> HIDE DEF from
  <2>1. QED
    BY <1>1, <1>2, LeastExists
<1>4. Earliest(from) \in from
  <2> HIDE DEF from
  <2>1. QED
    BY <1>3
<1>5. OriginFor(told, s) = told[Earliest(from)]
  BY DEF OriginFor
<1>6. Earliest(from) \in DOMAIN told /\ told[Earliest(from)] \in Node
  <2>1. Earliest(from) \in 1..Len(told)
    BY <1>2, <1>4
  <2>2. QED
    BY <1>1, <2>1, ElementOfSeq
<1>7. SameClass # {} => Earliest(from) \in SameClass
  BY <1>4
<1>8. SameClass = {} /\ NotSuccess # {} => Earliest(from) \in NotSuccess
  BY <1>4
<1> HIDE DEF from, Earliest
<1>9. QED
  BY <1>5, <1>6, <1>7, <1>8

\* A rule that did not fire blames the identity the tracker picks.
LEMMA BlameFound ==
    ASSUME TrackerTypeOK, NEW n \in Node, Complete(n), Upstream(n) # {},
           NEW told \in Seq(Node), {told[i] : i \in DOMAIN told} = Upstream(n),
           Verdict(n) # Fires
    PROVE  Blames(n, Verdict(n), OriginFor(told, Verdict(n)))
<1> DEFINE s == Verdict(n)
           o == OriginFor(told, s)
<1>1. told # << >>
  <2> SUFFICES ASSUME told = << >> PROVE FALSE
    OBVIOUS
  <2>1. {told[i] : i \in DOMAIN told} = {}
    OBVIOUS
  <2>2. QED
    BY <2>1
<1>2. PICK i \in DOMAIN told :
        /\ o = told[i]
        /\ (\E j \in DOMAIN told : ClassOf(decided[told[j]]) = ClassOf(s))
             => ClassOf(decided[told[i]]) = ClassOf(s)
        /\ \/ ClassOf(decided[told[i]]) = ClassOf(s)
           \/ (\E j \in DOMAIN told : decided[told[j]] \notin SuccessLike)
                => decided[told[i]] \notin SuccessLike
  BY <1>1, OriginIsTold
<1>3. o \in Upstream(n) /\ \A u \in Upstream(n) : \E j \in DOMAIN told : u = told[j]
  BY <1>2
<1>4. plan.rule[n] \in TriggerRule /\ Upstream(n) \subseteq Node
  BY PlanTyped DEF TrackerTypeOK
<1>5. \A u \in Upstream(n) : decided[u] \in TerminalState
  BY <1>4 DEF TrackerTypeOK, Complete
<1>6. ASSUME plan.rule[n] = "all-succeeded" PROVE decided[o] \notin SuccessLike
  <2>1. s = EvalAllSucceeded({decided[u] : u \in Upstream(n)})
    BY <1>6 DEF Verdict, EvaluateRule
  <2>2. \E u \in Upstream(n) : decided[u] \notin SuccessLike
    <3>1. {decided[u] : u \in Upstream(n)} \ SuccessLike # {}
      BY <2>1 DEF EvalAllSucceeded
    <3>2. QED
      BY <3>1
  <2>3. s \in {"upstream-skipped", "cancelled", "upstream-failed"}
    BY <2>1 DEF EvalAllSucceeded
  <2>4. CASE ClassOf(decided[o]) = ClassOf(s)
    <3>1. ClassOf(s) # "success"
      BY <2>3, ClassesDiffer
    <3>2. QED
      BY <2>4, <3>1, ClassesDiffer
  <2>5. QED
    BY <1>2, <1>3, <2>2, <2>4
<1>7. ASSUME s = "upstream-failed", NEW u \in Upstream(n), decided[u] \in FailureLike
      PROVE  decided[o] \in FailureLike
  <2>1. ClassOf(s) = "failure" /\ ClassOf(decided[u]) = "failure"
    BY <1>7 DEF ClassOf, SuccessLike, SkipLike, FailureLike, StopLike
  <2>2. ClassOf(decided[o]) = "failure"
    BY <1>2, <1>3, <2>1
  <2>3. QED
    BY <1>3, <1>5, <2>2 DEF ClassOf, TerminalState, SuccessLike, SkipLike, FailureLike, StopLike
<1>8. QED
  BY <1>3, <1>6, <1>7 DEF Blames

\* The gate of d opens on the whole picture.
LEMMA GateSeesAll ==
    ASSUME TrackerInv, NEW d \in visiting, decided[d] = None, Tells(d), remaining'[d] = 0
    PROVE  /\ Complete(d) /\ Upstream(d) # {} /\ Told(d)' = Upstream(d)
           /\ Verdict(d) = EvaluateRule(plan.rule[d],
                  {decided[upstreams'[d][i]] : i \in DOMAIN upstreams'[d]})
           /\ Verdict(d) \in TerminalState \cup {Fires}
<1>1. /\ d \in Node /\ Books(d)' /\ Told(d)' = Upstream(d)
      /\ Told(d)' = Told(d) \cup {telling}
  BY TellKeepsBooks
<1>2. Upstream(d)' = Upstream(d) /\ decided' = decided
  BY DEF Tells, Upstream
<1>3. Complete(d)
  BY <1>1, <1>2 DEF Books, Complete
<1>4. {decided[upstreams'[d][i]] : i \in DOMAIN upstreams'[d]} = {decided[u] : u \in Upstream(d)}
  BY <1>1 DEF Told
<1>5. Verdict(d) = EvaluateRule(plan.rule[d],
                  {decided[upstreams'[d][i]] : i \in DOMAIN upstreams'[d]})
  BY <1>4 DEF Verdict
<1>6. plan.rule[d] \in TriggerRule
  BY <1>1, PlanTyped DEF TrackerInv, TrackerTypeOK
<1>7. QED
  BY <1>1, <1>3, <1>5, <1>6, VerdictTyped

\* What a visit comes to: the dependent has a state and is passed over; it
\* counts down; its rule fires; or it inherits a state and is to be walked.
PassesOver(d) == /\ decided[d] # None /\ visiting' = visiting \ {d}
                 /\ UNCHANGED <<plan, tracker, telling, work, decisions>>
CountsDown(d) == /\ decided[d] = None /\ Tells(d)
                 /\ remaining'[d] # 0 /\ UNCHANGED <<work, decisions>>
FiresAt(d) ==    /\ decided[d] = None /\ Tells(d)
                 /\ remaining'[d] = 0 /\ Verdict(d) = Fires
                 /\ decisions' = Append(decisions, Ready(d))
                 /\ UNCHANGED work
InheritsAt(d) == /\ decided[d] = None /\ Tells(d)
                 /\ remaining'[d] = 0 /\ Verdict(d) # Fires
                 /\ decisions' = Append(decisions, Propagated(d, Verdict(d),
                                    OriginFor(upstreams'[d], Verdict(d))))
                 /\ work' = Append(work, [node |-> d, state |-> Verdict(d)])

\* A visit to a dependent passes it over, counts it down, or decides it.
LEMMA VisitSplit ==
    ASSUME TrackerInv, VisitDependent
    PROVE  \E d \in visiting : PassesOver(d) \/ CountsDown(d) \/ FiresAt(d) \/ InheritsAt(d)
<1> DEFINE told(d) == Append(upstreams[d], telling)
           count(d) == CountDown(remaining[d])
           verdict(d) == EvaluateRule(plan.rule[d], {decided[told(d)[i]] : i \in DOMAIN told(d)})
<1>1. PICK d \in visiting :
        /\ visiting' = visiting \ {d}
        /\ plan' = plan /\ decided' = decided /\ telling' = telling
        /\ IF decided[d] # None
           THEN UNCHANGED <<remaining, upstreams, work, decisions>>
           ELSE /\ upstreams' = [upstreams EXCEPT ![d] = told(d)]
                /\ remaining' = [remaining EXCEPT ![d] = count(d)]
                /\ \/ /\ count(d) # 0
                      /\ UNCHANGED <<work, decisions>>
                   \/ /\ count(d) = 0
                      /\ verdict(d) = Fires
                      /\ decisions' = Append(decisions, Ready(d))
                      /\ UNCHANGED work
                   \/ /\ count(d) = 0
                      /\ verdict(d) # Fires
                      /\ decisions' = Append(decisions,
                             Propagated(d, verdict(d), OriginFor(told(d), verdict(d))))
                      /\ work' = Append(work, [node |-> d, state |-> verdict(d)])
  BY DEF VisitDependent, Requeue
<1>2. CASE decided[d] # None
  BY <1>1, <1>2 DEF PassesOver, tracker
<1>3. CASE decided[d] = None
  <2>1. Tells(d)
    BY <1>1, <1>3 DEF Tells
  <2>2. /\ d \in Node /\ upstreams \in [Node -> Seq(Node)] /\ remaining \in [Node -> Nat]
    BY DEF TrackerInv, TrackerTypeOK, Tracked
  <2>3. upstreams'[d] = told(d) /\ remaining'[d] = count(d)
    BY <2>1, <2>2 DEF Tells
  <2>4. remaining'[d] = 0 => Verdict(d) = verdict(d)
    BY <1>3, <2>1, <2>3, GateSeesAll
  <2> HIDE DEF told, count, verdict
  <2>5. CASE count(d) # 0 /\ UNCHANGED <<work, decisions>>
    BY <1>3, <2>1, <2>3, <2>5 DEF CountsDown
  <2>6. CASE /\ count(d) = 0 /\ verdict(d) = Fires
             /\ decisions' = Append(decisions, Ready(d)) /\ UNCHANGED work
    BY <1>3, <2>1, <2>3, <2>4, <2>6 DEF FiresAt
  <2>7. CASE /\ count(d) = 0 /\ verdict(d) # Fires
             /\ decisions' = Append(decisions,
                    Propagated(d, verdict(d), OriginFor(told(d), verdict(d))))
             /\ work' = Append(work, [node |-> d, state |-> verdict(d)])
    BY <1>3, <2>1, <2>3, <2>4, <2>7 DEF InheritsAt
  <2>8. QED
    BY <1>1, <1>3, <2>5, <2>6, <2>7
<1>4. QED
  BY <1>2, <1>3

\* A state a dependent inherits comes with somebody to blame.
LEMMA InheritedTyped ==
    ASSUME TrackerInv, NEW d \in visiting, InheritsAt(d),
           NEW o, o = OriginFor(upstreams'[d], Verdict(d))
    PROVE  Blames(d, Verdict(d), o) /\ Propagated(d, Verdict(d), o) \in Decision
<1>1. /\ Complete(d) /\ Upstream(d) # {} /\ Told(d)' = Upstream(d)
      /\ Verdict(d) \in TerminalState /\ Verdict(d) # Fires
  BY GateSeesAll DEF InheritsAt
<1>2. plan \in Plans /\ d \in Node /\ d \in Tracked /\ upstreams' \in [Node -> Seq(Node)]
  BY TellKeepsBooks DEF InheritsAt, TrackerInv, TrackerTypeOK
<1>3. Blames(d, Verdict(d), o)
  <2>1. upstreams'[d] \in Seq(Node)
    BY <1>2
  <2>2. {upstreams'[d][i] : i \in DOMAIN upstreams'[d]} = Upstream(d)
    BY <1>1 DEF Told
  <2>3. QED
    BY <1>2, <1>1, <2>1, <2>2, BlameFound DEF TrackerInv
<1>4. o \in Node
  BY <1>2, <1>3, PlanTyped DEF Blames
<1>5. QED
  BY <1>1, <1>2, <1>3, <1>4 DEF Propagated, Decision

\* A visit that changes the list by one item about d at most keeps it sound.
LEMMA VisitTracks ==
    ASSUME TrackerInv, NEW d \in visiting,
           PassesOver(d) \/ CountsDown(d) \/ FiresAt(d) \/ InheritsAt(d)
    PROVE  /\ TrackerInv' /\ Keeps
           /\ Offered' = IF FiresAt(d) THEN Offered \cup {d} ELSE Offered
<1>1. PassesOver(d) \/ CountsDown(d) \/ FiresAt(d) \/ InheritsAt(d)
  OBVIOUS
<1>2. /\ plan \in Plans /\ d \in Node /\ d \in Tracked /\ telling \in Tracked
      /\ decisions \in Seq(Decision) /\ work \in Seq([node : Node, state : TerminalState])
  BY DEF TrackerInv, TrackerTypeOK, Tracked
<1>3. /\ Keeps /\ Tracked' = Tracked /\ Decision' = Decision /\ decided' = decided
      /\ visiting' = visiting \ {d} /\ telling' = telling
  BY <1>1 DEF PassesOver, CountsDown, FiresAt, InheritsAt, Tells, Keeps, tracker,
              Tracked, Decision
<1>4. /\ \A n \in Node : Books(n)'
      /\ \A n \in Node \ {d} : Told(n)' = Told(n) /\ remaining'[n] = remaining[n]
      /\ upstreams' \in [Node -> Seq(Node)] /\ remaining' \in [Node -> Nat]
  <2>1. CASE PassesOver(d)
    <3>1. \A n \in Node : Books(n)' /\ Told(n)' = Told(n)
      BY <1>2, <1>3, <2>1, BooksStay DEF PassesOver, tracker, TrackerInv
    <3>2. QED
      BY <2>1, <3>1 DEF PassesOver, tracker, TrackerInv, TrackerTypeOK
  <2>2. CASE decided[d] = None /\ Tells(d)
    <3>1. \A n \in Node \ {d} : remaining'[n] = remaining[n]
      BY <2>2 DEF Tells, TrackerInv, TrackerTypeOK
    <3>2. QED
      BY <2>2, <3>1, TellKeepsBooks
  <2>3. QED
    BY <1>1, <2>1, <2>2 DEF CountsDown, FiresAt, InheritsAt
<1>4a. Offered' = IF FiresAt(d) THEN Offered \cup {d} ELSE Offered
  <2>1. \A n \in Node \ {d} : n \in Offered' <=> n \in Offered
    BY <1>2, <1>3, <1>4, OfferStays DEF TrackerInv
  <2>2. \A n \in Offered \cup Offered' : n \in Node
    BY <1>3 DEF Offered, Tracked
  <2>3. d \in Offered' <=> d \in Offered \/ FiresAt(d)
    <3>1. CASE PassesOver(d)
      <4>1. Offered' = Offered /\ ~FiresAt(d)
        BY <1>3, <3>1, OffersStay DEF PassesOver, FiresAt, tracker
      <4>2. QED
        BY <4>1
    <3>2. CASE CountsDown(d)
      <4>1. remaining'[d] # 0 /\ d \notin Offered /\ ~FiresAt(d)
        BY <3>2, TellKeepsBooks DEF CountsDown, FiresAt
      <4>2. QED
        BY <4>1 DEF Offered
    <3>3. CASE FiresAt(d)
      <4>1. Complete(d) /\ RuleFired(d) /\ remaining'[d] = 0
        BY <3>3, GateSeesAll DEF FiresAt, RuleFired
      <4>2. RuleFired(d)'
        BY <1>2, <1>3, <4>1, PictureIsFinal
      <4>3. QED
        BY <1>2, <1>3, <3>3, <4>1, <4>2 DEF Offered
    <3>4. CASE InheritsAt(d)
      <4>1. /\ Complete(d) /\ Upstream(d) # {} /\ Verdict(d) # Fires /\ d \notin Offered
            /\ ~FiresAt(d)
        BY <3>4, GateSeesAll, TellKeepsBooks DEF InheritsAt, FiresAt
      <4>2. Upstream(d)' = Upstream(d) /\ Verdict(d)' = Verdict(d)
        BY <1>2, <1>3, <4>1, PictureIsFinal DEF Upstream, Keeps
      <4>3. ~RuleFired(d)'
        BY <4>1, <4>2 DEF RuleFired
      <4>4. QED
        BY <4>1, <4>3 DEF Offered
    <3>5. QED
      BY <1>1, <3>1, <3>2, <3>3, <3>4
  <2>4. CASE FiresAt(d)
    <3>1. \A n \in Node : n \in Offered' <=> n \in Offered \cup {d}
      BY <2>1, <2>3, <2>4
    <3>2. \A n \in Offered \cup {d} : n \in Node
      BY <1>2, <2>2
    <3>3. Offered' = Offered \cup {d}
      BY <2>2, <3>1, <3>2
    <3>4. QED
      BY <2>4, <3>3
  <2>5. CASE ~FiresAt(d)
    <3>1. \A n \in Node : n \in Offered' <=> n \in Offered
      BY <2>1, <2>3, <2>5
    <3>2. Offered' = Offered
      BY <2>2, <3>1
    <3>3. QED
      BY <2>5, <3>2
  <2>6. QED
    BY <2>4, <2>5
<1>5. VisitsFresh'
  <2>1. ASSUME NEW e \in visiting'
        PROVE  telling \in Upstream(e)' /\ telling \notin Told(e)'
    <3>1. e \in visiting /\ e \in Node \ {d}
      BY <1>2, <1>3, <2>1 DEF TrackerInv, TrackerTypeOK, Tracked
    <3>2. telling \in Upstream(e) /\ telling \notin Told(e)
      BY <3>1 DEF TrackerInv, VisitsFresh
    <3>3. QED
      BY <1>3, <1>4, <3>1, <3>2 DEF Upstream, Keeps
  <2>2. visiting # {} /\ decided[telling] # None
    BY DEF TrackerInv, VisitsFresh
  <2>3. QED
    BY <1>2, <1>3, <2>1, <2>2 DEF VisitsFresh
<1>6. decisions' \in Seq(Decision) /\ DecisionsSound'
  <2>1. CASE PassesOver(d) \/ CountsDown(d)
    <3>1. decisions' = decisions /\ Offered' = Offered
      BY <1>4a, <2>1 DEF PassesOver, CountsDown, FiresAt
    <3>2. QED
      BY <1>2, <1>3, <3>1, DecisionStays DEF TrackerInv, DecisionsSound
  <2>2. CASE FiresAt(d)
    <3>1. decisions' = Append(decisions, Ready(d)) /\ Ready(d) \in Decision
      BY <1>2, <2>2 DEF FiresAt, Ready, Decision
    <3>2. /\ decisions' \in Seq(Decision)
          /\ DOMAIN decisions' = DOMAIN decisions \cup {Len(decisions) + 1}
          /\ \A i \in DOMAIN decisions : decisions'[i] = decisions[i]
          /\ decisions'[Len(decisions) + 1] = Ready(d)
      BY <1>2, <3>1, OneMoreDecision
    <3>3. Offered' = Offered \cup {d}
      BY <1>4a, <2>2
    <3>6. DecisionsSound'
      <4>1. ASSUME NEW i \in DOMAIN decisions PROVE DecisionSound(decisions[i])'
        BY <1>3, <3>2, <3>3, DecisionStays DEF TrackerInv
      <4>2. DecisionSound(Ready(d))'
        BY <3>3 DEF DecisionSound, Ready
      <4>3. decisions'[Len(decisions) + 1].kind = "ready"
            /\ decisions'[Len(decisions) + 1].node \in Offered'
        BY <3>2, <3>3 DEF Ready
      <4>4. QED
        BY <3>2, <4>1, <4>3 DEF DecisionsSound, DecisionSound
    <3>7. QED
      BY <3>2, <3>6
  <2>3. CASE InheritsAt(d)
    <3> DEFINE o == OriginFor(upstreams'[d], Verdict(d))
    <3> HIDE DEF o
    <3>2. Blames(d, Verdict(d), o) /\ Propagated(d, Verdict(d), o) \in Decision
      BY <2>3, InheritedTyped DEF o
    <3>4. decisions' = Append(decisions, Propagated(d, Verdict(d), o))
      BY <2>3 DEF InheritsAt, o
    <3>5. /\ decisions' \in Seq(Decision)
          /\ DOMAIN decisions' = DOMAIN decisions \cup {Len(decisions) + 1}
          /\ \A i \in DOMAIN decisions : decisions'[i] = decisions[i]
          /\ decisions'[Len(decisions) + 1] = Propagated(d, Verdict(d), o)
      BY <1>2, <3>2, <3>4, OneMoreDecision
    <3>6. Offered' = Offered
      BY <1>4a, <2>3 DEF InheritsAt, FiresAt
    <3>8. DecisionsSound'
      <4>1. ASSUME NEW i \in DOMAIN decisions PROVE DecisionSound(decisions[i])'
        BY <1>3, <3>5, <3>6, DecisionStays DEF TrackerInv
      <4>2. PICK s, b : s = Verdict(d) /\ b = o /\ Blames(d, s, b)
        BY <3>2
      <4>3. Blames(d, s, b)'
        BY <1>2, <1>3, <4>2, BlameStays
      <4>4. PICK k : /\ DOMAIN decisions' = DOMAIN decisions \cup {k}
                     /\ decisions'[k] = Propagated(d, s, b)
        BY <3>5, <4>2
      <4>5. DecisionSound(decisions[k])'
        BY <4>3, <4>4 DEF DecisionSound, Propagated, Blames, Complete, Upstream
      <4>6. QED
        BY <3>5, <4>1, <4>4, <4>5 DEF DecisionsSound, DecisionSound, Blames, Complete, Upstream
    <3>9. QED
      BY <3>5, <3>8
  <2>4. QED
    BY <1>1, <2>1, <2>2, <2>3
<1>7. work' \in Seq([node : Node, state : TerminalState]) /\ WorkSound'
  <2>1. CASE PassesOver(d) \/ CountsDown(d) \/ FiresAt(d)
    <3>1. work' = work
      BY <2>1 DEF PassesOver, CountsDown, FiresAt
    <3>2. QED
      BY <1>2, <1>3, <3>1, ItemStays DEF WorkSound
  <2>2. CASE InheritsAt(d)
    <3> DEFINE item == [node |-> d, state |-> Verdict(d)]
    <3>1. /\ Complete(d) /\ Upstream(d) # {}
          /\ Verdict(d) \in TerminalState /\ Verdict(d) # Fires
      BY <2>2, GateSeesAll DEF InheritsAt
    <3>2. item \in [node : Node, state : TerminalState]
      BY <1>2, <3>1
    <3>3. /\ work' \in Seq([node : Node, state : TerminalState])
          /\ DOMAIN work' = DOMAIN work \cup {Len(work) + 1}
          /\ \A i \in DOMAIN work : work'[i] = work[i]
          /\ work'[Len(work) + 1] = item
      <4> HIDE DEF item
      <4>1. work' = Append(work, item)
        BY <2>2 DEF InheritsAt, item
      <4>2. QED
        BY <1>2, <3>2, <4>1, OneMoreDecision
    <3>4. PICK s : s = Verdict(d) /\ Justified(d, s)
      BY <3>1 DEF Justified
    <3>5. Justified(d, s)'
      BY <1>2, <1>3, <3>4, JustifiedStays
    <3>6. PICK k : DOMAIN work' = DOMAIN work \cup {k} /\ work'[k] = item
      BY <3>3
    <3>7. Justified(work[k].node, work[k].state)'
      BY <3>4, <3>5, <3>6 DEF Justified, RuleFired, Complete, Verdict, Upstream
    <3>8. ASSUME NEW i \in DOMAIN work PROVE Justified(work[i].node, work[i].state)'
      BY <1>3, <3>3, ItemStays
    <3>9. WorkSound'
      <4>1. ASSUME NEW i \in DOMAIN work' PROVE Justified(work[i].node, work[i].state)'
        <5>1. CASE i = k
          BY <3>7, <5>1
        <5>2. CASE i \in DOMAIN work
          BY <3>8, <5>2
        <5>3. QED
          BY <3>6, <5>1, <5>2
      <4>2. QED
        BY <4>1 DEF WorkSound
    <3>10. QED
      BY <3>3, <3>9
  <2>3. QED
    BY <1>1, <2>1, <2>2
<1>8. TrackerTypeOK'
  BY <1>2, <1>3, <1>4, <1>6, <1>7 DEF TrackerInv, TrackerTypeOK, Keeps
<1>9. QED
  BY <1>3, <1>4, <1>4a, <1>5, <1>6, <1>7, <1>8 DEF TrackerInv

\* A visit takes at most one decision, and hands out whom it decides is ready.
LEMMA VisitDecides ==
    ASSUME TrackerInv, NEW d \in visiting,
           PassesOver(d) \/ CountsDown(d) \/ FiresAt(d) \/ InheritsAt(d)
    PROVE  \/ decisions' = decisions
           \/ \E e \in Decision : /\ Appended(decisions', decisions, e)
                                  /\ e.kind = "ready" => e.node \in Offered' \ Offered
<1>1. CASE PassesOver(d) \/ CountsDown(d)
  BY <1>1 DEF PassesOver, CountsDown
<1>2. CASE FiresAt(d)
  <2>1. d \in Tracked /\ d \notin Offered /\ Offered' = Offered \cup {d}
    BY <1>2, TellKeepsBooks, VisitTracks DEF FiresAt
  <2>2. Ready(d) \in Decision /\ Ready(d).node = d
    BY <2>1 DEF Ready, Decision
  <2>3. Appended(decisions', decisions, Ready(d))
    BY <1>2 DEF FiresAt, Appended
  <2>4. QED
    BY <2>1, <2>2, <2>3
<1>3. CASE InheritsAt(d)
  <2>1. PICK o : o = OriginFor(upstreams'[d], Verdict(d))
    OBVIOUS
  <2>2. /\ Propagated(d, Verdict(d), o) \in Decision
        /\ Propagated(d, Verdict(d), o).kind # "ready"
    BY <1>3, <2>1, InheritedTyped DEF Propagated
  <2>3. Appended(decisions', decisions, Propagated(d, Verdict(d), o))
    BY <1>3, <2>1 DEF InheritsAt, Appended
  <2>4. QED
    BY <2>2, <2>3
<1>4. QED
  BY <1>1, <1>2, <1>3

-----------------------------------------------------------------------------
(* Teardown nodes are none of the tracker's.                                *)

NoCleanUp == \A t \in plan.teardown : decided[t] = None

\* The tracker starts without a state for them, and gives none.
LEMMA InitNoCleanUp == InitTracker => NoCleanUp
<1> SUFFICES ASSUME InitTracker, NEW t \in plan.teardown PROVE decided[t] = None
  BY DEF NoCleanUp
<1>1. t \in Node
  BY PlansAssumption DEF InitTracker, PipelineType
<1>2. QED
  BY <1>1 DEF InitTracker

\* Taking an item of work gives no teardown node a state.
LEMMA PopNoCleanUp == ASSUME TrackerInv, NoCleanUp, PopWork PROVE NoCleanUp'
<1> DEFINE node == work[Len(work)].node
           state == work[Len(work)].state
<1>1. plan' = plan /\ node \in Node
  BY NewestItem DEF PopWork
<1>2. CASE node \in Tracked /\ decided[node] = None
  <2>1. decided' = [decided EXCEPT ![node] = state]
    BY <1>2 DEF PopWork
  <2>2. node \notin plan.teardown
    BY <1>2 DEF Tracked
  <2> HIDE DEF node, state
  <2>3. \A t \in plan.teardown : decided'[t] = decided[t]
    BY <2>1, <2>2
  <2>4. QED
    BY <1>1, <2>3 DEF NoCleanUp
<1>3. CASE ~(node \in Tracked /\ decided[node] = None)
  BY <1>3 DEF PopWork, NoCleanUp
<1>4. QED
  BY <1>2, <1>3

-----------------------------------------------------------------------------
(* Nobody is lost, on pipelines whose countdowns come out even.             *)

\* An upstream with a state has been told, or is being told, to a node that
\* has none; a node told of everything was handed out or is to be walked.
Heard(n, u) == u \in Told(n) \/ (n \in visiting /\ telling = u)
Queued(n)   == \E i \in DOMAIN work : work[i].node = n
Pending(n) ==
    /\ \A u \in Upstream(n) : decided[u] # None => Heard(n, u)
    /\ Told(n) = Upstream(n) => n \in Offered \/ Queued(n)
NobodyLost == \A n \in Tracked : decided[n] = None => Pending(n)

\* At the start every undecided node still has an upstream to hear of.
LEMMA InitLosesNobody == InitTracker /\ Countable(plan) => NobodyLost
<1> SUFFICES ASSUME InitTracker, Countable(plan), NEW n \in Tracked PROVE Pending(n)
  BY DEF NobodyLost
<1> USE DEF InitTracker
<1>1. n \in Node /\ plan \in Plans /\ \A u \in Upstream(n) : u \in Node
  BY PlanTyped DEF Tracked
<1>2. Told(n) = {}
  BY <1>1 DEF Told
<1>3. ASSUME Upstream(n) = {} PROVE n \in Offered
  <2>1. plan.data[n] = {} /\ plan.order[n] = {}
    BY <1>3 DEF Upstream
  <2>2. Cardinality({}) = 0
    BY FS_EmptySet
  <2>3. InitialCount(n) = 0
    BY <2>1, <2>2 DEF InitialCount
  <2>4. QED
    BY <2>3, InitTracks DEF InitialReady
<1>4. QED
  BY <1>1, <1>2, <1>3 DEF Pending

\* A step that moves nothing of n's keeps it pending.
LEMMA CallLosesNobody ==
    ASSUME TrackerInv, NobodyLost, NEW m \in Node, NEW s \in TerminalState,
           NotifyTerminal(m, s)
    PROVE  NobodyLost'
<1> USE DEF NotifyTerminal, tracker
<1>1. ASSUME NEW n \in Tracked, decided[n] = None PROVE Pending(n)'
  <2>1. Upstream(n)' = Upstream(n) /\ Told(n)' = Told(n) /\ ~Queued(n)
    BY DEF Upstream, Told, Queued, Idle
  <2>2. Offered' = Offered
    BY OffersStay DEF Keeps
  <2>3. QED
    BY <1>1, <2>1, <2>2 DEF NobodyLost, Pending, Heard
<1>2. QED
  BY <1>1 DEF NobodyLost, Tracked

\* Taking an item of work loses nobody.
LEMMA PopLosesNobody ==
    ASSUME TrackerInv, NobodyLost, PopWork
    PROVE  NobodyLost'
<1> DEFINE node == work[Len(work)].node
           state == work[Len(work)].state
<1>1. /\ visiting = {} /\ work # << >> /\ plan' = plan /\ upstreams' = upstreams
      /\ work \in Seq([node : Node, state : TerminalState])
      /\ work' = SubSeq(work, 1, Len(work) - 1)
      /\ decided \in [Node -> TerminalState \cup {None}]
  BY DEF PopWork, TrackerInv, TrackerTypeOK
<1>2. Tracked' = Tracked /\ Keeps /\ node \in Node /\ state \in TerminalState
  BY <1>1, PopDecides, NewestItem
<1>3. ASSUME NEW n \in Tracked, decided'[n] = None PROVE Pending(n)'
  <2>1. /\ decided[n] = None /\ n # node /\ n \in Node
        /\ \A u \in Node : decided'[u] # None =>
             \/ decided[u] # None
             \/ u = node /\ visiting' = Dependents(node) /\ telling' = node
    <3>1. n \in Node
      BY DEF Tracked
    <3>2. CASE node \in Tracked /\ decided[node] = None
      <4>1. /\ decided' = [decided EXCEPT ![node] = state]
            /\ visiting' = Dependents(node) /\ telling' = node
        BY <3>2 DEF PopWork
      <4>2. state # None
        BY <1>2, NoneIsNoState
      <4> HIDE DEF node, state
      <4>3. QED
        BY <1>1, <1>2, <1>3, <3>1, <4>1, <4>2
    <3>3. CASE ~(node \in Tracked /\ decided[node] = None)
      <4>1. decided' = decided
        BY <3>3 DEF PopWork
      <4>2. QED
        BY <1>3, <3>1, <3>3, <4>1
    <3>4. QED
      BY <3>2, <3>3
  <2>2. Pending(n) /\ Upstream(n)' = Upstream(n) /\ Told(n)' = Told(n)
    BY <1>1, <1>3, <2>1 DEF NobodyLost, Upstream, Told
  <2>3. \A u \in Upstream(n) : u \in Node
    BY <2>1, PlanTyped DEF TrackerInv, TrackerTypeOK
  <2>4. ASSUME NEW u \in Upstream(n), decided'[u] # None PROVE Heard(n, u)'
    <3>1. CASE decided[u] # None
      BY <1>1, <2>2, <3>1 DEF Pending, Heard
    <3>2. CASE u = node /\ visiting' = Dependents(node) /\ telling' = node
      BY <1>3, <2>4, <3>2 DEF Dependents, Heard
    <3>3. QED
      BY <2>1, <2>3, <2>4, <3>1, <3>2
  <2>5. ASSUME Queued(n) PROVE Queued(n)'
    <3>1. PICK i \in DOMAIN work : work[i].node = n
      BY <2>5 DEF Queued
    <3>2. i # Len(work)
      BY <2>1, <3>1
    <3>3. i \in DOMAIN work' /\ work'[i] = work[i]
      BY <1>1, <3>1, <3>2, LastAndRest
    <3>4. QED
      BY <3>1, <3>3 DEF Queued
  <2>6. Offered' = Offered
    BY PopTracks
  <2>7. QED
    BY <2>2, <2>4, <2>5, <2>6 DEF Pending
<1>4. QED
  BY <1>2, <1>3 DEF NobodyLost

\* A visit loses nobody.
LEMMA VisitLosesNobody ==
    ASSUME TrackerInv, Countable(plan), NobodyLost, VisitDependent
    PROVE  NobodyLost'
<1>1. PICK d \in visiting : PassesOver(d) \/ CountsDown(d) \/ FiresAt(d) \/ InheritsAt(d)
  BY VisitSplit
<1>2. /\ d \in Node /\ d \in Tracked /\ plan \in Plans
      /\ decisions \in Seq(Decision) /\ work \in Seq([node : Node, state : TerminalState])
  BY DEF TrackerInv, TrackerTypeOK, Tracked
<1>3. /\ plan' = plan /\ decided' = decided /\ telling' = telling
      /\ visiting' = visiting \ {d} /\ Tracked' = Tracked
      /\ \A n \in Node : Upstream(n)' = Upstream(n)
  BY <1>1 DEF PassesOver, CountsDown, FiresAt, InheritsAt, Tells, tracker, Tracked, Upstream
<1>4. \A n \in Node : Queued(n) => Queued(n)'
  <2>1. CASE PassesOver(d) \/ CountsDown(d) \/ FiresAt(d)
    BY <2>1 DEF PassesOver, CountsDown, FiresAt, Queued
  <2>2. CASE InheritsAt(d)
    <3> DEFINE item == [node |-> d, state |-> Verdict(d)]
    <3>1. Verdict(d) \in TerminalState
      BY <2>2, GateSeesAll DEF InheritsAt
    <3>2. work' = Append(work, item) /\ item \in [node : Node, state : TerminalState]
      BY <1>2, <2>2, <3>1 DEF InheritsAt
    <3> HIDE DEF item
    <3>3. /\ DOMAIN work' = DOMAIN work \cup {Len(work) + 1}
          /\ \A i \in DOMAIN work : work'[i] = work[i]
      BY <1>2, <3>2, OneMoreDecision
    <3>4. QED
      BY <3>3 DEF Queued
  <2>3. QED
    BY <1>1, <2>1, <2>2
<1>4a. Offered' = IF FiresAt(d) THEN Offered \cup {d} ELSE Offered
  BY <1>1, VisitTracks
<1>5. ASSUME NEW n \in Tracked, decided[n] = None, n # d PROVE Pending(n)'
  <2>1. Told(n)' = Told(n) /\ n \in Node
    <3>1. n \in Node \ {d}
      BY <1>5 DEF Tracked
    <3>2. CASE PassesOver(d)
      BY <3>1, <3>2 DEF PassesOver, tracker, Told
    <3>3. CASE decided[d] = None /\ Tells(d)
      BY <3>1, <3>3, TellKeepsBooks
    <3>4. QED
      BY <1>1, <3>1, <3>2, <3>3 DEF CountsDown, FiresAt, InheritsAt
  <2>2. QED
    BY <1>3, <1>4, <1>4a, <1>5, <2>1 DEF NobodyLost, Pending, Heard
<1>6. ASSUME decided[d] = None PROVE Pending(d)'
  <2>1. Tells(d) /\ Told(d)' = Told(d) \cup {telling} /\ Books(d)'
    BY <1>1, <1>6, TellKeepsBooks DEF PassesOver, CountsDown, FiresAt, InheritsAt
  <2>2. \A u \in Upstream(d) : decided[u] # None => u \in Told(d)'
    BY <1>2, <1>6, <2>1 DEF NobodyLost, Pending, Heard
  <2>3. ASSUME Told(d)' = Upstream(d) PROVE remaining'[d] = 0
    <3>1. InitialCount(d)' = InitialCount(d) /\ InitialCount(d) = Cardinality(Upstream(d))
      BY <1>2, <1>3, PlanTyped DEF Countable, InitialCount
    <3>2. Cardinality(Upstream(d)) = Len(upstreams'[d]) /\ Cardinality(Upstream(d)) \in Nat
      BY <1>2, <2>1, <2>3, PlanTyped DEF Books
    <3>3. remaining'[d] \in Nat /\ remaining'[d] + Len(upstreams'[d]) = InitialCount(d)
      BY <2>1, <3>1 DEF Books
    <3>4. QED
      BY <3>1, <3>2, <3>3
  <2>4. ASSUME remaining'[d] = 0 PROVE d \in Offered' \/ Queued(d)'
    <3>1. CASE FiresAt(d)
      BY <1>4a, <3>1
    <3>2. CASE InheritsAt(d)
      <4> DEFINE item == [node |-> d, state |-> Verdict(d)]
      <4>1. Verdict(d) \in TerminalState
        BY <3>2, GateSeesAll DEF InheritsAt
      <4>2. work' = Append(work, item) /\ item \in [node : Node, state : TerminalState]
        BY <1>2, <3>2, <4>1 DEF InheritsAt
      <4>3. Len(work) + 1 \in DOMAIN work' /\ work'[Len(work) + 1].node = d
        <5>1. item.node = d
          OBVIOUS
        <5> HIDE DEF item
        <5>2. QED
          BY <1>2, <4>2, <5>1, OneMoreDecision
      <4>4. QED
        BY <4>3 DEF Queued
    <3>3. QED
      BY <1>1, <1>6, <2>4, <3>1, <3>2 DEF PassesOver, CountsDown
  <2>5. QED
    BY <1>2, <1>3, <2>2, <2>3, <2>4 DEF Pending, Heard
<1>7. QED
  BY <1>3, <1>5, <1>6 DEF NobodyLost

\* In a still tracker with nobody lost, a node without a state has an
\* upstream without one, and so on down: there is none.
LEMMA StillMeansDone ==
    ASSUME TrackerInv, NobodyLost, Countable(plan), Idle,
           \A n \in Offered \cup plan.satisfied : decided[n] # None
    PROVE  \A n \in Tracked : decided[n] # None
<1> DEFINE waiting == {n \in Tracked : decided[n] = None}
<1> SUFFICES ASSUME waiting # {} PROVE FALSE
  OBVIOUS
<1>1. PICK n \in waiting : Upstream(n) \cap waiting = {}
  BY DEF Countable, Tracked, Upstream
<1>2. /\ n \in Node /\ n \in Tracked /\ decided[n] = None /\ Pending(n) /\ Books(n)
      /\ Upstream(n) \subseteq Node /\ Upstream(n) \cap plan.teardown = {}
  BY PlanTyped DEF Tracked, NobodyLost, TrackerInv, TrackerTypeOK, Countable, Upstream
<1>3. \A u \in Upstream(n) : decided[u] # None
  BY <1>1, <1>2 DEF Tracked
<1>4. Told(n) = Upstream(n)
  BY <1>2, <1>3 DEF Pending, Heard, Idle, Books
<1>5. n \in Offered
  BY <1>2, <1>4 DEF Pending, Queued, Idle
<1>6. QED
  BY <1>2, <1>5
-----------------------------------------------------------------------------
(* The tracker under its driver                                             *)

\* What the driver was handed is what the tracker's books say was ready.
IInv == TrackerInv /\ offered = Offered

\* The invariant implies the types.
LEMMA InvTyped == IInv => DriverTypes
<1> SUFFICES ASSUME IInv PROVE DriverTypes
  OBVIOUS
<1>1. offered \subseteq Tracked
  BY DEF IInv, Offered
<1>2. QED
  BY <1>1 DEF IInv, TrackerInv, TrackerTypeOK, DriverTypes

\* The ready decisions of the call so far are all known to the driver.
LEMMA ReadyKnown ==
    ASSUME DecisionsSound
    PROVE  ReadyIn(decisions) \subseteq Offered
BY DEF DecisionsSound, DecisionSound, ReadyIn

-----------------------------------------------------------------------------
(* The steps.                                                               *)

\* The two reports the driver makes are justified.
LEMMA SatisfiedKeeps == ASSUME IInv, ReportSatisfied PROVE IInv'
<1>1. PICK n \in Unreported : NotifyTerminal(n, "satisfied-from-prior") /\ offered' = offered
  BY DEF ReportSatisfied
<1>2. n \in Node /\ n \in plan.satisfied
  BY <1>1, PlansAssumption DEF Unreported, IInv, TrackerInv, TrackerTypeOK, PipelineType
<1>3. Justified(n, "satisfied-from-prior")
  BY <1>2 DEF Justified
<1>4. QED
  BY <1>1, <1>2, <1>3, CallTracks, NoneIsNoState DEF IInv

\* A report of a node the tracker handed out.
LEMMA OfferedKeeps ==
    ASSUME IInv, NEW n \in Node, NEW s \in Reportable, ReportOffered(n, s) PROVE IInv'
<1>1. n \in Offered /\ NotifyTerminal(n, s) /\ offered' = offered
  BY DEF ReportOffered, IInv
<1>2. Justified(n, s)
  BY <1>1 DEF Justified, Offered
<1>3. QED
  BY <1>1, <1>2, CallTracks, NoneIsNoState DEF IInv

\* A pop returns no decision.
LEMMA PopKeeps ==
    ASSUME IInv, PopWork, offered' = offered \cup ReadyIn(decisions')
    PROVE  IInv'
<1>1. decisions' = decisions /\ ReadyIn(decisions) \subseteq Offered
  BY ReadyKnown DEF PopWork, IInv, TrackerInv
<1>2. TrackerInv' /\ Offered' = Offered
  BY PopTracks DEF IInv
<1>3. QED
  BY <1>1, <1>2 DEF IInv

\* A visit hands out the node whose rule fires, and returns that decision.
LEMMA VisitKeeps ==
    ASSUME IInv, VisitDependent, offered' = offered \cup ReadyIn(decisions')
    PROVE  IInv'
<1>1. PICK d \in visiting : PassesOver(d) \/ CountsDown(d) \/ FiresAt(d) \/ InheritsAt(d)
  BY VisitSplit DEF IInv
<1>2. TrackerInv' /\ Offered' = IF FiresAt(d) THEN Offered \cup {d} ELSE Offered
  BY <1>1, VisitTracks DEF IInv
<1>3. ReadyIn(decisions) \subseteq Offered /\ decisions \in Seq(Decision) /\ d \in Tracked
  BY ReadyKnown DEF IInv, TrackerInv, TrackerTypeOK
<1>4. CASE PassesOver(d) \/ CountsDown(d)
  <2>1. decisions' = decisions /\ ~FiresAt(d)
    BY <1>4 DEF PassesOver, CountsDown, FiresAt
  <2>2. QED
    BY <1>2, <1>3, <2>1 DEF IInv
<1>5. CASE FiresAt(d) \/ InheritsAt(d)
  <2>1. PICK e : decisions' = Append(decisions, e) /\ e.node = d
                 /\ (e.kind = "ready" <=> FiresAt(d))
    <3>1. CASE FiresAt(d)
      BY <3>1 DEF FiresAt, Ready
    <3>2. CASE InheritsAt(d)
      BY <3>2 DEF InheritsAt, FiresAt, Propagated
    <3>3. QED
      BY <1>5, <3>1, <3>2
  <2>2. decisions \in Seq(Decision \cup {e}) /\ e \in Decision \cup {e}
    BY <1>3, SeqMonotonic
  <2>3. /\ DOMAIN decisions' = DOMAIN decisions \cup {Len(decisions) + 1}
        /\ \A i \in DOMAIN decisions : decisions'[i] = decisions[i]
        /\ decisions'[Len(decisions) + 1] = e
    BY <2>1, <2>2, OneMoreDecision
  <2>4. CASE FiresAt(d)
    <3>1. ReadyIn(decisions') = ReadyIn(decisions) \cup {d}
      BY <2>1, <2>3, <2>4 DEF ReadyIn
    <3>2. QED
      BY <1>2, <1>3, <2>4, <3>1 DEF IInv
  <2>5. CASE ~FiresAt(d)
    <3>1. ReadyIn(decisions') = ReadyIn(decisions)
      BY <2>1, <2>3, <2>5 DEF ReadyIn
    <3>2. QED
      BY <1>2, <1>3, <2>5, <3>1 DEF IInv
  <2>6. QED
    BY <2>4, <2>5
<1>6. QED
  BY <1>1, <1>4, <1>5

\* Every step of the tracker and its driver.
LEMMA DriverKeeps == IInv /\ [DriverNext]_driverVars => IInv'
<1> SUFFICES ASSUME IInv, [DriverNext]_driverVars PROVE IInv'
  OBVIOUS
<1>1. CASE ReportSatisfied
  BY <1>1, SatisfiedKeeps
<1>2. ASSUME NEW n \in Node, NEW s \in Reportable, ReportOffered(n, s) PROVE IInv'
  BY <1>2, OfferedKeeps
<1>3. CASE Step
  BY <1>3, PopKeeps, VisitKeeps DEF Step, Cascade
<1>4. CASE UNCHANGED driverVars
  BY <1>4, StillTracks DEF IInv, driverVars
<1>5. QED
  BY <1>1, <1>2, <1>3, <1>4 DEF DriverNext

-----------------------------------------------------------------------------
(* The theorems.                                                            *)

\* The inductive invariant: the books balance, offers and work are justified.
THEOREM TrackerInvariant == DriverSpec => []IInv
<1>1. DriverInit => IInv
  BY InitTracks DEF DriverInit, IInv
<1>2. IInv /\ [DriverNext]_driverVars => IInv'
  BY DriverKeeps
<1>3. QED
  BY <1>1, <1>2, PTL DEF DriverSpec

\* Every variable of the tracker keeps its type, whatever is reported.
THEOREM TrackerTyped == DriverSpec => []DriverTypes
<1>1. IInv => DriverTypes
  BY InvTyped
<1>2. QED
  BY <1>1, TrackerInvariant, PTL

\* A rule is never evaluated, nor a node handed out, on a partial picture.
THEOREM GateNeverEarly == DriverSpec => []NeverEarly
<1>1. IInv => NeverEarly
  BY DEF IInv, Offered, RuleFired, Complete, NeverEarly
<1>2. QED
  BY <1>1, TrackerInvariant, PTL

\* Every state a decision propagates carries the identity of a cause.
THEOREM OriginIsTrue == DriverSpec => []OriginIsACause
<1>1. IInv => OriginIsACause
  BY DEF IInv, TrackerInv, DecisionsSound, DecisionSound, Blames, OriginIsACause
<1>2. QED
  BY <1>1, TrackerInvariant, PTL

\* The tracker returns one verdict per node, however often it is told.
THEOREM VerdictOnce == DriverSpec => OneVerdict
<1> DEFINE Once == \A d \in {decisions'[i] : i \in DOMAIN decisions' \ DOMAIN decisions} :
                     d.node \notin offered /\ decided[d.node] = None
<1>1. ASSUME IInv, [DriverNext]_driverVars PROVE Once
  <2>1. CASE VisitDependent
    <3>1. PICK d \in visiting : PassesOver(d) \/ CountsDown(d) \/ FiresAt(d) \/ InheritsAt(d)
      BY <1>1, <2>1, VisitSplit DEF IInv
    <3>2. CASE PassesOver(d) \/ CountsDown(d)
      BY <3>2 DEF PassesOver, CountsDown
    <3>3. CASE FiresAt(d) \/ InheritsAt(d)
      <4>1. d \notin offered /\ decided[d] = None
        BY <1>1, <3>3, TellKeepsBooks DEF FiresAt, InheritsAt, IInv
      <4>2. PICK e : decisions' = Append(decisions, e) /\ e.node = d
        BY <3>3 DEF FiresAt, InheritsAt, Ready, Propagated
      <4>3. decisions \in Seq(Decision \cup {e}) /\ e \in Decision \cup {e}
        BY <1>1, SeqMonotonic DEF IInv, TrackerInv, TrackerTypeOK
      <4>4. /\ DOMAIN decisions' = DOMAIN decisions \cup {Len(decisions) + 1}
            /\ decisions'[Len(decisions) + 1] = e
        BY <4>2, <4>3, OneMoreDecision
      <4>5. QED
        BY <4>1, <4>2, <4>4
    <3>4. QED
      BY <3>1, <3>2, <3>3
  <2>2. CASE PopWork \/ UNCHANGED driverVars
    BY <2>2 DEF PopWork, driverVars, call
  <2>3. CASE \E n \in Node, s \in TerminalState : NotifyTerminal(n, s)
    <3>1. decisions' = << >>
      BY <2>3 DEF NotifyTerminal
    <3>2. DOMAIN decisions' = {}
      BY <3>1
    <3>3. QED
      BY <3>2
  <2>4. ASSUME ReportSatisfied PROVE \E n \in Node, s \in TerminalState : NotifyTerminal(n, s)
    <3>1. PICK n \in Unreported : NotifyTerminal(n, "satisfied-from-prior")
      BY <2>4 DEF ReportSatisfied
    <3>2. n \in Node
      BY <1>1, PlansAssumption DEF Unreported, IInv, TrackerInv, TrackerTypeOK, PipelineType
    <3>3. QED
      BY <3>1, <3>2, NoneIsNoState
  <2>5. ASSUME NEW n \in Node, NEW s \in Reportable, ReportOffered(n, s)
        PROVE  \E m \in Node, r \in TerminalState : NotifyTerminal(m, r)
    BY <2>5, NoneIsNoState DEF ReportOffered
  <2>6. QED
    BY <1>1, <2>1, <2>2, <2>3, <2>4, <2>5 DEF DriverNext, Step, Cascade
<1>2. IInv /\ [DriverNext]_driverVars => [Once]_driverVars
  BY <1>1
<1>3. QED
  BY <1>2, TrackerInvariant, PTL DEF DriverSpec, OneVerdict

\* The contract speaks of the same states and rules.
LEMMA SameVocabulary ==
    /\ TrackerContract!None = None /\ TrackerContract!Fires = Fires
    /\ TrackerContract!TerminalState = TerminalState
    /\ TrackerContract!ExecutedState \cup TrackerContract!StopLike = Reportable
    /\ \A r, S : TrackerContract!EvaluateRule(r, S) = EvaluateRule(r, S)
<1>1. /\ TrackerContract!SuccessLike = SuccessLike /\ TrackerContract!SkipLike = SkipLike
      /\ TrackerContract!FailureLike = FailureLike /\ TrackerContract!StopLike = StopLike
      /\ TrackerContract!None = None /\ TrackerContract!Fires = Fires
  BY DEF TrackerContract!SuccessLike, SuccessLike, TrackerContract!SkipLike, SkipLike, TrackerContract!FailureLike,
         FailureLike, TrackerContract!StopLike, StopLike, TrackerContract!None, None, TrackerContract!Fires, Fires
<1>2. /\ TrackerContract!TerminalState = TerminalState
      /\ TrackerContract!ExecutedState \cup TrackerContract!StopLike = Reportable
  BY <1>1 DEF TrackerContract!TerminalState, TerminalState, TrackerContract!ExecutedState, Reportable,
              ExecutedState
<1>3. ASSUME NEW S PROVE /\ TrackerContract!EvalAllSucceeded(S) = EvalAllSucceeded(S)
                         /\ TrackerContract!EvalAnyFailed(S) = EvalAnyFailed(S)
  BY <1>1 DEF TrackerContract!EvalAllSucceeded, EvalAllSucceeded, TrackerContract!EvalAnyFailed, EvalAnyFailed
<1>4. ASSUME NEW r, NEW S PROVE TrackerContract!EvaluateRule(r, S) = EvaluateRule(r, S)
  BY <1>1, <1>3 DEF TrackerContract!EvaluateRule, EvaluateRule
<1>5. QED
  BY <1>1, <1>2, <1>4

\* The tracker never decides a teardown node.
LEMMA StepNoCleanUp == IInv /\ NoCleanUp /\ [DriverNext]_driverVars => NoCleanUp'
<1> SUFFICES ASSUME IInv, NoCleanUp, [DriverNext]_driverVars PROVE NoCleanUp'
  OBVIOUS
<1>1. CASE PopWork
  BY <1>1, PopNoCleanUp DEF IInv
<1>2. CASE VisitDependent \/ ReportSatisfied \/ (\E n \in Node, s \in Reportable : ReportOffered(n, s))
  BY <1>2 DEF VisitDependent, ReportSatisfied, ReportOffered, NotifyTerminal, tracker, NoCleanUp
<1>3. CASE UNCHANGED driverVars
  BY <1>3 DEF driverVars, tracker, NoCleanUp
<1>4. QED
  BY <1>1, <1>2, <1>3 DEF DriverNext, Step, Cascade

\* The tracker implements the run contract: a state is given once, on the
\* complete picture, and as the node's own rule says of that picture.
THEOREM ImplementsContract == DriverSpec => TrackerKeepsContract
<1>1. DriverInit => TrackerContract!CInit
  BY SameVocabulary DEF DriverInit, InitTracker, TrackerContract!CInit
<1>2. ASSUME IInv, NoCleanUp, [DriverNext]_driverVars PROVE [TrackerContract!CNext]_(TrackerContract!cvars)
  <2>1. CASE PopWork
    <3> DEFINE node == work[Len(work)].node
               state == work[Len(work)].state
    <3>1. /\ plan' = plan /\ node \in Node /\ state \in TerminalState
          /\ Justified(node, state)
      BY <1>2, <2>1, NewestItem DEF PopWork, IInv
    <3>2. CASE node \in Tracked /\ decided[node] = None
      <4>1. TrackerContract!Decide(node, state)
        BY <1>2, <2>1, <3>1, <3>2, SameVocabulary
           DEF PopWork, TrackerContract!Decide, TrackerContract!Give, NoCleanUp, Tracked
      <4> HIDE DEF node, state
      <4>2. Upstream(node) = TrackerContract!UpstreamOf(node)
            /\ (Complete(node) <=> TrackerContract!GateOpen(node))
            /\ (RuleFired(node) <=> TrackerContract!MayRun(node))
        BY SameVocabulary
           DEF Upstream, TrackerContract!UpstreamOf, Complete, TrackerContract!GateOpen, RuleFired,
               TrackerContract!MayRun, Verdict, TrackerContract!Picture
      <4>3. CASE node \in plan.satisfied /\ state = "satisfied-from-prior"
        BY <3>1, <4>1, <4>3 DEF TrackerContract!CarryForward, TrackerContract!CNext
      <4>4. CASE RuleFired(node) /\ state \in Reportable
        BY <3>1, <4>1, <4>2, <4>4, SameVocabulary DEF TrackerContract!Conclude, TrackerContract!CNext
      <4>5. CASE Complete(node) /\ Upstream(node) # {} /\ state = Verdict(node) /\ state # Fires
        <5>1. TrackerContract!GateOpen(node) /\ ~TrackerContract!MayRun(node)
          BY <4>2, <4>5 DEF RuleFired
        <5>2. state = EvaluateRule(plan.rule[node], TrackerContract!Picture(node))
          BY <4>2, <4>5 DEF Verdict, TrackerContract!Picture
        <5>3. QED
          BY <3>1, <4>1, <5>1, <5>2, SameVocabulary DEF TrackerContract!Inherit, TrackerContract!CNext
      <4>6. QED
        BY <3>1, <4>3, <4>4, <4>5 DEF Justified
    <3>3. CASE ~(node \in Tracked /\ decided[node] = None)
      BY <2>1, <3>1, <3>3 DEF PopWork, TrackerContract!cvars
    <3>4. QED
      BY <3>2, <3>3
  <2>2. CASE VisitDependent
    BY <2>2 DEF VisitDependent, TrackerContract!cvars
  <2>3. CASE ReportSatisfied \/ (\E n \in Node, s \in Reportable : ReportOffered(n, s))
    BY <2>3 DEF ReportSatisfied, ReportOffered, NotifyTerminal, tracker, TrackerContract!cvars
  <2>4. CASE UNCHANGED driverVars
    BY <2>4 DEF driverVars, tracker, TrackerContract!cvars
  <2>5. QED
    BY <1>2, <2>1, <2>2, <2>3, <2>4 DEF DriverNext, Step, Cascade
<1>3. QED
  BY <1>1, <1>2, InitNoCleanUp, StepNoCleanUp, TrackerInvariant, PTL
     DEF DriverSpec, DriverInit, TrackerKeepsContract, TrackerContract!CSpec

-----------------------------------------------------------------------------
(* Nobody is stranded, on pipelines whose countdowns come out even.         *)

\* No step of the driver loses a node.
LEMMA StepLosesNobody ==
    IInv /\ Countable(plan) /\ NobodyLost /\ [DriverNext]_driverVars => Countable(plan)' /\ NobodyLost'
<1> SUFFICES ASSUME IInv, Countable(plan), NobodyLost, [DriverNext]_driverVars
             PROVE  Countable(plan)' /\ NobodyLost'
  OBVIOUS
<1>1. plan' = plan
  BY DEF DriverNext, ReportSatisfied, ReportOffered, NotifyTerminal, Step, Cascade, PopWork,
         VisitDependent, driverVars
<1>2. CASE ReportSatisfied
  <2>1. PICK n \in Unreported : NotifyTerminal(n, "satisfied-from-prior") /\ offered' = offered
    BY <1>2 DEF ReportSatisfied
  <2>2. n \in Node
    BY PlansAssumption DEF Unreported, IInv, TrackerInv, TrackerTypeOK, PipelineType
  <2>3. QED
    BY <1>1, <2>1, <2>2, CallLosesNobody, NoneIsNoState DEF Countable, IInv
<1>3. ASSUME NEW n \in Node, NEW s \in Reportable, ReportOffered(n, s) PROVE NobodyLost'
  BY <1>3, CallLosesNobody, NoneIsNoState DEF ReportOffered, IInv
<1>4. CASE Step
  BY <1>1, <1>4, PopLosesNobody, VisitLosesNobody DEF Step, Cascade, Countable, IInv
<1>5. CASE UNCHANGED driverVars
  BY <1>1, <1>5 DEF driverVars, tracker, call, NobodyLost, Pending, Heard, Queued, Told,
                    Upstream, Tracked, Countable, Offered, RuleFired, Complete, Verdict
<1>6. Countable(plan)'
  BY <1>1 DEF Countable
<1>7. QED
  BY <1>2, <1>3, <1>4, <1>5, <1>6 DEF DriverNext

\* Once everything handed out is reported and the call is over, every node of
\* the main graph has its state: a countdown that comes out even strands nobody.
THEOREM NobodyStranded ==
    ASSUME \A p \in Plans : Countable(p)
    PROVE  DriverSpec => []NothingStranded
<1>1. DriverInit => IInv /\ Countable(plan) /\ NobodyLost
  BY InitTracks, InitLosesNobody DEF DriverInit, InitTracker, IInv
<1>2. IInv /\ Countable(plan) /\ NobodyLost /\ [DriverNext]_driverVars => Countable(plan)' /\ NobodyLost'
  BY StepLosesNobody
<1>3. IInv /\ Countable(plan) /\ NobodyLost => NothingStranded
  BY StillMeansDone DEF IInv, NothingStranded
<1>4. IInv /\ [DriverNext]_driverVars => IInv'
  BY DriverKeeps
<1>5. QED
  BY <1>1, <1>2, <1>3, <1>4, PTL DEF DriverSpec
==============================================================================
