------------------------------- MODULE RunProofs -----------------------------
(***************************************************************************)
(* The run loop beside its threads, for every set of nodes, every pipeline *)
(* and every cost, capacity, retry budget, deadline and failure mode: that *)
(* nothing is in two hands (RunInv), and, for every pipeline whose         *)
(* carried-forward nodes have no upstream, that what a run says of its     *)
(* nodes is true: the table of terminal states, the event stream, the      *)
(* tracker, the attempts' records and the output slots agree (TruthInv).   *)
(***************************************************************************)
EXTENDS RunProperties, ReadinessProofs

-----------------------------------------------------------------------------
(* The inductive invariant.                                                 *)

\* Tracked nodes whose closure was dispatched, and where it still runs.
Started == {n \in Tracked : runner[n] \notin {"waiting", "absent"}}
Busy == {"body", "backoff", "finishing", "returned", "unwound"}

\* Up to the end of the initial frontier the run has not looked at its queue.
Starting == pc \in {"boot", "seed", "frontier"} \/ (pc \in {"cascade", "apply"} /\ back = "seed")

\* A node the tracker handed out is in one hand at a time: in the frontier the
\* start-up has still to offer, a decision to apply, the line of waiters, a
\* report in the queue, or a closure.
Unoffered == IF pc = "frontier" THEN agenda ELSE IF Starting THEN InitialReady ELSE {}
ReadyNodes == NodesOf(decisions, "ready")
Waiters    == ToSet(pending)
Reported   == NodesOf(queue, "done")
Warned     == NodesOf(queue, "deadline")
StatesSound(q) == \A i \in DOMAIN q : q[i].kind = "done" => q[i].state \in Reportable

Points ==
    /\ ~Starting \/ pc = "frontier" => back = "drain"
    /\ pc \in {"boot", "seed"} => back = "seed"
    /\ pc = "frontier" => agenda \subseteq InitialReady
    /\ Starting /\ pc # "frontier" => agenda \subseteq plan.satisfied
    /\ pc = "teardown" => agenda \subseteq plan.teardown

OneHand ==
    /\ Unoffered \cup ReadyNodes \cup Waiters \cup Reported \cup Started \subseteq Offered
    /\ Unoffered \cap (ReadyNodes \cup Waiters \cup Reported \cup Started) = {}
    /\ ReadyNodes \cap (Waiters \cup Reported \cup Started) = {}
    /\ Waiters \cap (Reported \cup Started) = {}
    /\ Distinct(pending) /\ Single(decisions, "ready") /\ Single(queue, "done")
    /\ \A n \in Reported : runner[n] \notin Busy

\* A closure is live until the loop recorded its node; a message about a
\* deadline is about a closure.
Closures ==
    /\ live \subseteq Started /\ timedOut \subseteq Started /\ live \cap timedOut = {}
    /\ \A n \in Tracked : runner[n] \in Busy => n \in live \cup timedOut
    /\ \A n \in Started \ live : terminal[n] # None
    /\ Warned \subseteq Started
    /\ \A n \in Tracked : timer[n] # "off" => n \in Started
    /\ StatesSound(queue)

\* The done messages that are counted in flight: of closures neither live nor
\* timed out.
Loose(S) == {m \in Message : m.kind = "done" /\ m.node \notin S}
InFlight == inFlight = Cardinality(live) + Cardinality(Places(queue, Loose(live \cup timedOut)))

Ledger ==
    /\ free \in [Pool -> Nat] /\ permits = Charged /\ CapacityFollowsThreads
    /\ zombies \in Seq(Node) /\ Distinct(zombies) /\ ZombieUntilReturn

\* Nobody waits in a drain, and no default-rule node in a run that is stopping.
Stops ==
    /\ Starting => ~stopping /\ ~draining
    /\ draining => pending = << >>
    /\ stopping => Waiters \cap Default = {}

\* The attempt a runner is in.
Budget ==
    /\ \A n \in Node : runner[n] \in Busy => attempt[n] # 0
    /\ \A n \in Node : runner[n] = "backoff" => attempt[n] < MaxAttempts[n]
    /\ \A n \in Node : runner[n] \in {"finishing", "returned"} => result[n] \in ExecutedState

RunInv == /\ TypeOK /\ TrackerInv /\ Points /\ OneHand /\ Closures /\ InFlight
          /\ Ledger /\ Stops /\ Budget

-----------------------------------------------------------------------------
(* What a step leaves alone.                                                *)

\* What the types say of the variables the invariant is about.
LEMMA RunTyped ==
    ASSUME RunInv
    PROVE  /\ plan \in Plans /\ Tracked \subseteq Node /\ Started \subseteq Tracked
           /\ plan.satisfied \subseteq Node /\ plan.teardown \subseteq Node
           /\ runner \in [Node -> RunnerState] /\ queue \in Seq(Message) /\ pending \in Seq(Node)
           /\ decisions \in Seq(Decision) /\ InitialReady \subseteq Tracked
           /\ Offered \subseteq Tracked /\ Reported \subseteq Offered /\ Waiters \subseteq Offered
           /\ live \subseteq Node /\ timedOut \subseteq Node
           /\ IsFiniteSet(live) /\ Cardinality(live) \in Nat /\ inFlight \in Nat
<1>1. plan \in Plans /\ plan.satisfied \subseteq Node /\ plan.teardown \subseteq Node
  BY PlansAssumption DEF RunInv, TrackerInv, TrackerTypeOK, PipelineType
<1>2. /\ runner \in [Node -> RunnerState] /\ queue \in Seq(Message) /\ pending \in Seq(Node)
      /\ live \subseteq Node /\ timedOut \subseteq Node /\ inFlight \in Nat
  BY DEF RunInv, TypeOK, LoopTyped, ThreadsTyped
<1>3. IsFiniteSet(live) /\ Cardinality(live) \in Nat
  BY <1>2, NodeAssumption, FS_Subset, FS_CardinalityType
<1>4. QED
  BY <1>1, <1>2, <1>3 DEF RunInv, TrackerInv, TrackerTypeOK, Tracked, Started, InitialReady,
                          Offered, OneHand

\* The closures are sound as long as nothing about them changes.
LEMMA ClosuresStay ==
    ASSUME Closures, UNCHANGED <<plan, live, timedOut, runner, terminal, queue, timer>>
    PROVE  Closures'
BY DEF Closures, Started, Warned, StatesSound, NodesOf, Tracked

\* The count is right as long as neither it nor what it counts changes.
LEMMA InFlightStays ==
    ASSUME InFlight, UNCHANGED <<inFlight, live, timedOut, queue>>
    PROVE  InFlight'
BY DEF InFlight, Places, Loose

\* The ledger is right as long as the same nodes are working.
LEMMA LedgerStays ==
    ASSUME Ledger, UNCHANGED <<plan, ledger, timedOut>>, Charged' = Charged
    PROVE  Ledger'
BY DEF Ledger, ledger, CapacityFollowsThreads, ZombieUntilReturn, Tokens, Distinct, ToSet

\* Attempts stay in their budget as long as no runner moves.
LEMMA BudgetStays ==
    ASSUME Budget, UNCHANGED <<runner, attempt, result>>
    PROVE  Budget'
BY DEF Budget

\* A step of the loop that only touches the queue leaves the threads typed.
LEMMA ThreadsStayTyped ==
    ASSUME ThreadsTyped, UNCHANGED threads, queue' \in Seq(Message)
    PROVE  ThreadsTyped'
BY DEF ThreadsTyped, threads

\* The hands when only the frontier still to be offered may have shrunk.
LEMMA HandsStay ==
    ASSUME OneHand, UNCHANGED <<plan, decisions, pending, queue, runner>>,
           Offered \subseteq Offered', Unoffered' \subseteq Unoffered
    PROVE  OneHand'
<1>1. /\ ReadyNodes' = ReadyNodes /\ Waiters' = Waiters /\ Reported' = Reported
      /\ Started' = Started
      /\ Distinct(pending)' /\ Single(decisions, "ready")' /\ Single(queue, "done")'
  BY DEF OneHand, ReadyNodes, Waiters, Reported, Started, NodesOf, ToSet, Tracked, Distinct, Single
<1>2. QED
  BY <1>1 DEF OneHand

-----------------------------------------------------------------------------
(* Steps that only move the control, the clocks or what the loop writes at  *)
(* the end.                                                                 *)

Hands == <<plan, tracker, call, ledger, threads, queue, terminal, inFlight, live, pending,
           timedOut, stopping, draining>>

\* A step that moves only the loop's program counter, its agenda or its clocks.
LEMMA ControlKeeps ==
    ASSUME RunInv, UNCHANGED Hands, LoopTyped', Points',
           Unoffered' \subseteq Unoffered, Starting' => Starting
    PROVE  RunInv'
<1> USE DEF Hands
<1>1. TrackerInv' /\ Offered' = Offered
  BY StillTracks DEF RunInv
<1>2. OneHand'
  BY <1>1, HandsStay DEF RunInv, call, threads
<1>3. Closures' /\ InFlight' /\ Budget'
  BY ClosuresStay, InFlightStays, BudgetStays DEF RunInv, threads
<1>4. Ledger'
  BY LedgerStays DEF RunInv, Charged, threads, Tracked
<1>5. ThreadsTyped'
  BY ThreadsStayTyped DEF RunInv, TypeOK, ThreadsTyped
<1>6. Stops'
  BY DEF RunInv, Stops, Waiters, ToSet, Default, DefaultRule
<1>7. QED
  BY <1>1, <1>2, <1>3, <1>4, <1>5, <1>6 DEF RunInv, TypeOK

Moves == \/ InstallWaker \/ SeedingDone \/ FrontierDone \/ TopBusy \/ TopLeaves \/ TopPinned
         \/ WaitExpires \/ ApplyDone \/ DrainDone \/ Leave \/ Exit \/ TeardownDone \/ ClockPasses

\* The steps of the loop that only move it on to its next point leave every hand
\* and every record as it is.
LEMMA MovesFacts ==
    ASSUME RunInv, Moves
    PROVE  /\ UNCHANGED Hands
           /\ UNCHANGED <<written, outcomes, candidates, trigger, requests, cancelOrigin>>
           /\ Points' /\ Unoffered' = Unoffered /\ (Starting' => Starting)
<1> USE DEF Quiet, records, counts, modes, outside
<1>1. UNCHANGED Hands
  BY DEF Moves, Hands, InstallWaker, SeedingDone, FrontierDone, TopBusy, TopLeaves, EmptyHanded, TopPinned,
         WaitExpires, ApplyDone, DrainDone, Leave, Exit, TeardownDone, ClockPasses, control
<1>2. UNCHANGED <<written, outcomes, candidates, trigger, requests, cancelOrigin>>
  BY DEF Moves, InstallWaker, SeedingDone, FrontierDone, TopBusy, TopLeaves, EmptyHanded, TopPinned,
         WaitExpires, ApplyDone, DrainDone, Leave, Exit, TeardownDone, ClockPasses, control
<1>3. InitialReady' = InitialReady /\ plan' = plan
  BY <1>1 DEF Hands, InitialReady, InitialCount, Tracked
<1> USE DEF RunInv, Points, Unoffered, Starting
<1>4. CASE InstallWaker \/ SeedingDone \/ FrontierDone \/ TopBusy \/ TopLeaves
  BY <1>1, <1>2, <1>3, <1>4 DEF InstallWaker, SeedingDone, FrontierDone, TopBusy, TopLeaves, EmptyHanded
<1>5. CASE TopPinned \/ WaitExpires \/ ApplyDone \/ DrainDone
  BY <1>1, <1>2, <1>3, <1>5 DEF TopPinned, Pinned, EmptyHanded, WaitExpires, ApplyDone, DrainDone
<1>6. CASE Leave \/ Exit \/ TeardownDone \/ ClockPasses
  BY <1>1, <1>2, <1>3, <1>6 DEF Leave, Exit, TeardownDone, ClockPasses, control
<1>7. QED
  BY <1>4, <1>5, <1>6 DEF Moves

\* They keep the invariant.
LEMMA MovesKeep == ASSUME RunInv, Moves PROVE RunInv'
<1>1. /\ UNCHANGED Hands /\ UNCHANGED <<written, outcomes, candidates, trigger, requests, cancelOrigin>>
      /\ Points' /\ Unoffered' = Unoffered /\ (Starting' => Starting)
  BY MovesFacts
<1>2. /\ pc' \in Point /\ back' \in {"seed", "drain"} /\ agenda' \subseteq Node
      /\ drainClock' \in ClockState /\ zombieClock' \in ClockState /\ atExit' \subseteq Node
  <2> USE RunTyped DEF RunInv, TypeOK, LoopTyped, Point, ClockState, Quiet, counts, modes, outside, records
  <2>1. CASE InstallWaker \/ SeedingDone \/ FrontierDone \/ TopBusy \/ TopLeaves
    BY <2>1 DEF InstallWaker, SeedingDone, FrontierDone, TopBusy, TopLeaves, EmptyHanded, DrainOver
  <2>2. CASE TopPinned \/ WaitExpires \/ ApplyDone \/ DrainDone
    BY <2>2 DEF TopPinned, Pinned, EmptyHanded, WaitExpires, ApplyDone, DrainDone
  <2>3. CASE Leave \/ Exit \/ TeardownDone \/ ClockPasses
    BY <2>3 DEF Leave, Exit, TeardownDone, ClockPasses, control
  <2>4. QED
    BY <2>1, <2>2, <2>3 DEF Moves
<1>3. LoopTyped'
  BY <1>1, <1>2 DEF RunInv, TypeOK, LoopTyped, Hands
<1>4. QED
  BY <1>1, <1>3, ControlKeeps

-----------------------------------------------------------------------------
(* The channel.                                                             *)

Counted(q, S) == Cardinality(Places(q, Loose(S)))

\* The number of counted messages is a natural number.
LEMMA CountedTyped ==
    ASSUME NEW q \in Seq(Message), NEW S PROVE Counted(q, S) \in Nat
BY PlacesFinite DEF Counted

\* A message is counted once more if it is a done message of a node that has
\* no closure.
LEMMA QueueGrows ==
    ASSUME NEW q \in Seq(Message), NEW m \in Message, NEW q2, Appended(q2, q, m)
    PROVE  /\ q2 \in Seq(Message)
           /\ NodesOf(q2, m.kind) = NodesOf(q, m.kind) \cup {m.node}
           /\ \A kind : kind # m.kind => NodesOf(q2, kind) = NodesOf(q, kind)
           /\ Single(q, "done") /\ (m.kind = "done" => m.node \notin NodesOf(q, "done"))
                => Single(q2, "done")
           /\ StatesSound(q) /\ (m.kind = "done" => m.state \in Reportable) => StatesSound(q2)
           /\ \A S : m.kind # "done" \/ m.node \in S => Counted(q2, S) = Counted(q, S)
           /\ \A S : m.kind = "done" /\ m.node \notin S => Counted(q2, S) = Counted(q, S) + 1
<1>1. /\ q2 \in Seq(Message) /\ DOMAIN q2 = DOMAIN q \cup {Len(q) + 1}
      /\ \A i \in DOMAIN q : q2[i] = q[i]
      /\ q2[Len(q) + 1] = m
  BY OneMoreDecision DEF Appended
<1>2. StatesSound(q) /\ (m.kind = "done" => m.state \in Reportable) => StatesSound(q2)
  BY <1>1 DEF StatesSound
<1>3. ASSUME NEW S
      PROVE  /\ m.kind # "done" \/ m.node \in S => Counted(q2, S) = Counted(q, S)
             /\ m.kind = "done" /\ m.node \notin S => Counted(q2, S) = Counted(q, S) + 1
  BY PlacesFinite, PlacesAppend DEF Counted, Loose, Appended
<1>4. /\ NodesOf(q2, m.kind) = NodesOf(q, m.kind) \cup {m.node}
      /\ \A kind : kind # m.kind => NodesOf(q2, kind) = NodesOf(q, kind)
  BY NodesOfAppend
<1>5. Single(q, "done") /\ (m.kind = "done" => m.node \notin NodesOf(q, "done"))
        => Single(q2, "done")
  BY NodesOfAppend
<1>6. QED
  BY <1>1, <1>2, <1>3, <1>4, <1>5

\* Receiving the head.
LEMMA QueueShrinks ==
    ASSUME NEW q \in Seq(Message), q # << >>
    PROVE  /\ Tail(q) \in Seq(Message) /\ Head(q) \in Message
           /\ Single(q, "done") => Single(Tail(q), "done")
           /\ NodesOf(Tail(q), "deadline") \subseteq NodesOf(q, "deadline")
           /\ Head(q).kind # "done" => NodesOf(Tail(q), "done") = NodesOf(q, "done")
           /\ Head(q).kind = "done" /\ Single(q, "done")
                => NodesOf(Tail(q), "done") = NodesOf(q, "done") \ {Head(q).node}
           /\ Head(q).node \in NodesOf(q, Head(q).kind)
           /\ StatesSound(q) => /\ StatesSound(Tail(q))
                                /\ Head(q).kind = "done" => Head(q).state \in Reportable
           /\ \A S : Counted(q, S) = Counted(Tail(q), S)
                       + (IF Head(q).kind = "done" /\ Head(q).node \notin S THEN 1 ELSE 0)
<1>1. /\ Tail(q) \in Seq(Message) /\ Head(q) = q[1] /\ 1 \in DOMAIN q /\ q[1] \in Message
      /\ \A i \in DOMAIN Tail(q) : i + 1 \in DOMAIN q /\ Tail(q)[i] = q[i + 1]
  BY TailElements
<1>2. StatesSound(q) => /\ StatesSound(Tail(q))
                        /\ Head(q).kind = "done" => Head(q).state \in Reportable
  BY <1>1 DEF StatesSound
<1>3. ASSUME NEW S
      PROVE  Counted(q, S) = Counted(Tail(q), S)
                       + (IF Head(q).kind = "done" /\ Head(q).node \notin S THEN 1 ELSE 0)
  BY <1>1, PlacesTail DEF Counted, Loose
<1>4. QED
  BY <1>1, <1>2, <1>3, NodesOfTail

\* Answers to a line of nodes that have no closure.
LEMMA QueueAnswers ==
    ASSUME NEW q \in Seq(Message), NEW t \in Seq(Message), NEW ns, AboutEach(t, ns, "done"),
           StatesSound(t), NEW q2, Joined(q2, q, t)
    PROVE  /\ q2 \in Seq(Message)
           /\ NodesOf(q2, "done") = NodesOf(q, "done") \cup ToSet(ns)
           /\ NodesOf(q2, "deadline") = NodesOf(q, "deadline")
           /\ Single(q, "done") /\ Distinct(ns) /\ ToSet(ns) \cap NodesOf(q, "done") = {}
                => Single(q2, "done")
           /\ StatesSound(q) => StatesSound(q2)
           /\ \A S : ToSet(ns) \cap S = {} => Counted(q2, S) = Counted(q, S) + Len(t)
<1>1. /\ Len(q) \in Nat /\ Len(t) \in Nat /\ DOMAIN q = 1..Len(q) /\ DOMAIN t = 1..Len(t)
      /\ DOMAIN q2 = 1..(Len(q) + Len(t)) /\ q2 \in Seq(Message)
      /\ \A i \in 1..(Len(q) + Len(t)) :
            q2[i] = IF i <= Len(q) THEN q[i] ELSE t[i - Len(q)]
  BY ConcatProperties, LenProperties DEF Joined
<1>2. ASSUME StatesSound(q) PROVE StatesSound(q2)
  <2>1. ASSUME NEW i \in DOMAIN q2, q2[i].kind = "done" PROVE q2[i].state \in Reportable
    <3>1. CASE i <= Len(q)
      <4>1. i \in DOMAIN q /\ q2[i] = q[i]
        BY <1>1, <3>1
      <4>2. QED
        BY <1>2, <2>1, <4>1 DEF StatesSound
    <3>2. CASE ~(i <= Len(q))
      <4>1. i - Len(q) \in DOMAIN t /\ q2[i] = t[i - Len(q)]
        BY <1>1, <3>2
      <4>2. QED
        BY <2>1, <4>1 DEF StatesSound
    <3>3. QED
      BY <3>1, <3>2
  <2>2. QED
    BY <2>1 DEF StatesSound
<1>3. ASSUME NEW S, ToSet(ns) \cap S = {} PROVE Counted(q2, S) = Counted(q, S) + Len(t)
  <2>1. ASSUME NEW i \in DOMAIN t PROVE t[i] \in Loose(S)
    <3>1. t[i] \in Message /\ t[i].kind = "done" /\ t[i].node = ns[i] /\ i \in DOMAIN ns
      BY <1>1, ElementOfSeq DEF AboutEach
    <3>2. ns[i] \in ToSet(ns)
      BY <3>1 DEF ToSet
    <3>3. QED
      BY <1>3, <3>1, <3>2 DEF Loose
  <2>2. QED
    BY <2>1, PlacesConcat DEF Counted, Joined
<1>4. /\ NodesOf(q2, "done") = NodesOf(q, "done") \cup ToSet(ns)
      /\ \A other : other # "done" => NodesOf(q2, other) = NodesOf(q, other)
      /\ Single(q, "done") /\ Distinct(ns) /\ ToSet(ns) \cap NodesOf(q, "done") = {}
            => Single(q2, "done")
  BY NodesOfConcat
<1>5. NodesOf(q2, "deadline") = NodesOf(q, "deadline")
  BY <1>4
<1>6. QED
  BY <1>1, <1>2, <1>3, <1>4, <1>5

\* Whom the loop still waits for does not matter for nodes without a report.
LEMMA CountedAlike ==
    ASSUME NEW q, NEW S, NEW S2,
           \A n \in NodesOf(q, "done") : n \in S <=> n \in S2
    PROVE  Counted(q, S) = Counted(q, S2)
<1>1. \A i \in DOMAIN q : q[i] \in Loose(S) <=> q[i] \in Loose(S2)
  BY DEF Loose, NodesOf
<1>2. Places(q, Loose(S)) = Places(q, Loose(S2))
  BY <1>1 DEF Places
<1>3. QED
  BY <1>2 DEF Counted

-----------------------------------------------------------------------------
(* Steps that send or drop a message that is no report.                     *)

MessageAside == <<plan, tracker, call, ledger, runner, attempt, result, terminal, inFlight, live,
                  pending, timedOut, stopping, draining>>

\* A step that adds or takes a wake or a deadline message no count depends on.
LEMMA MessageKeeps ==
    ASSUME RunInv, UNCHANGED MessageAside, TypeOK', Points',
           Unoffered' \subseteq Unoffered, Starting' => Starting,
           Reported' = Reported, Single(queue', "done"), StatesSound(queue'),
           Warned' \subseteq Started, \A n \in Tracked : timer'[n] # "off" => n \in Started,
           Counted(queue', live \cup timedOut) = Counted(queue, live \cup timedOut)
    PROVE  RunInv'
<1> USE DEF MessageAside
<1>1. TrackerInv' /\ Offered' = Offered
  BY StillTracks DEF RunInv
<1>2. OneHand'
  <2>1. /\ ReadyNodes' = ReadyNodes /\ Waiters' = Waiters /\ Started' = Started
        /\ Distinct(pending)' /\ Single(decisions, "ready")' /\ Single(queue, "done")'
    BY DEF RunInv, OneHand, ReadyNodes, Waiters, Started, NodesOf, ToSet, Tracked, Distinct,
           Single, call
  <2>2. QED
    BY <1>1, <2>1 DEF RunInv, OneHand
<1>3. Closures'
  <2>1. Tracked' = Tracked /\ Started' = Started /\ StatesSound(queue)'
    BY DEF Tracked, Started, StatesSound
  <2>2. QED
    BY <2>1 DEF RunInv, Closures
<1>4. InFlight'
  BY DEF RunInv, InFlight, Counted, Places, Loose
<1>5. Budget' /\ Ledger'
  BY BudgetStays, LedgerStays DEF RunInv, Charged, Tracked
<1>6. Stops'
  BY DEF RunInv, Stops, Waiters, ToSet, Default, DefaultRule
<1>7. QED
  BY <1>1, <1>2, <1>3, <1>4, <1>5, <1>6 DEF RunInv

\* An interrupt sets the trigger and wakes the loop.
LEMMA InterruptKeeps == ASSUME RunInv, Interrupt PROVE RunInv'
<1> USE DEF Interrupt, threads, control, records, counts, modes
<1>1. UNCHANGED <<MessageAside, control, records, counts, modes, threads, atExit>>
  BY DEF MessageAside, call
<1>2. queue \in Seq(Message) /\ Wake \in Message /\ Single(queue, "done") /\ StatesSound(queue)
  BY RunTyped DEF RunInv, OneHand, Closures, Wake, Message, TerminalState, StopLike
<1>6. requests' \in 0..MaxRequests /\ trigger' \in Origin \cup {None}
  BY RunLoopAssumption DEF RunInv, TypeOK, LoopTyped, Request, Origin
<1>3. CASE queue' = queue
  <2>1. TypeOK'
    BY <1>1, <1>3, <1>6 DEF RunInv, TypeOK, LoopTyped, ThreadsTyped
  <2>2. Points' /\ Unoffered' = Unoffered /\ Starting' = Starting
    BY <1>1 DEF RunInv, Points, Unoffered, Starting, InitialReady, InitialCount, Tracked, MessageAside
  <2>3. /\ Reported' = Reported /\ Warned' = Warned
        /\ \A n \in Tracked : timer'[n] # "off" => n \in Started
        /\ Warned \subseteq Started
    BY <1>1, <1>3 DEF Reported, Warned, NodesOf, RunInv, Closures
  <2>4. QED
    BY <1>1, <1>2, <1>3, <2>1, <2>2, <2>3, MessageKeeps
<1>4. CASE queue' = Append(queue, Wake)
  <2>1. /\ queue' \in Seq(Message) /\ Single(queue', "done") /\ StatesSound(queue')
        /\ NodesOf(queue', "done") = NodesOf(queue, "done")
        /\ NodesOf(queue', "deadline") = NodesOf(queue, "deadline")
        /\ Counted(queue', live \cup timedOut) = Counted(queue, live \cup timedOut)
    <3>1. Wake.kind # "done" /\ Wake.kind # "deadline"
      BY DEF Wake
    <3>2. Counted(queue, live \cup timedOut) \in Nat
      BY <1>2, CountedTyped
    <3>3. Appended(queue', queue, Wake)
      BY <1>4 DEF Appended
    <3>4. QED
      BY <1>2, <3>1, <3>2, <3>3, QueueGrows
  <2>2. TypeOK'
    BY <1>1, <1>6, <2>1 DEF RunInv, TypeOK, LoopTyped, ThreadsTyped
  <2>3. Points' /\ Unoffered' = Unoffered /\ Starting' = Starting
    BY <1>1 DEF RunInv, Points, Unoffered, Starting, InitialReady, InitialCount, Tracked, MessageAside
  <2>4. /\ Reported' = Reported /\ Warned' = Warned
        /\ \A n \in Tracked : timer'[n] # "off" => n \in Started
        /\ Warned \subseteq Started
    BY <1>1, <2>1 DEF Reported, Warned, NodesOf, RunInv, Closures
  <2>5. QED
    BY <1>1, <2>1, <2>2, <2>3, <2>4, MessageKeeps
<1>5. QED
  BY <1>3, <1>4 DEF Request

\* A deadline of a node that is decided is dropped.
LEMMA StaleDeadlineKeeps == ASSUME RunInv, TakeStaleDeadline PROVE RunInv'
<1> USE DEF TakeStaleDeadline, counts, modes, records, outside
<1>1. /\ UNCHANGED <<MessageAside, back, agenda, records, counts, modes, outside, atExit>>
      /\ UNCHANGED <<fate, filled, buffer>> /\ TakesInHand(Head(queue).node)
      /\ pc = "await" /\ pc' = "top" /\ queue # << >> /\ Head(queue).kind = "deadline"
      /\ queue' = Tail(queue)
  BY DEF MessageAside, call, Receives
<1> HIDE DEF TakeStaleDeadline
<1>2. queue \in Seq(Message) /\ Single(queue, "done") /\ StatesSound(queue)
  BY RunTyped DEF RunInv, OneHand, Closures
<1>3. /\ queue' \in Seq(Message) /\ Single(queue', "done") /\ StatesSound(queue')
      /\ NodesOf(queue', "done") = NodesOf(queue, "done")
      /\ NodesOf(queue', "deadline") \subseteq NodesOf(queue, "deadline")
      /\ Counted(queue', live \cup timedOut) = Counted(queue, live \cup timedOut)
  <2>1. Counted(Tail(queue), live \cup timedOut) \in Nat
    BY <1>1, <1>2, CountedTyped, QueueShrinks
  <2>2. QED
    BY <1>1, <1>2, <2>1, QueueShrinks
<1>4. /\ timer' \in [Node -> TimerState]
      /\ \A m \in Node : m # Head(queue).node => timer'[m] = timer[m]
  BY <1>1 DEF TakesInHand, TimerState, RunInv, TypeOK, ThreadsTyped
<1>4a. TypeOK'
  BY <1>1, <1>3, <1>4 DEF RunInv, TypeOK, LoopTyped, ThreadsTyped, Point, MessageAside
<1>5. Points' /\ Unoffered' \subseteq Unoffered /\ (Starting' => Starting)
  BY <1>1 DEF RunInv, Points, Unoffered, Starting, InitialReady, InitialCount, Tracked, MessageAside
<1>6. /\ Reported' = Reported /\ Warned' \subseteq Warned
      /\ \A n \in Tracked : timer'[n] # "off" => n \in Started
      /\ Warned \subseteq Started
  <2>1. Head(queue).node \in Warned
    BY <1>1, <1>2, QueueShrinks DEF Warned
  <2>2. QED
    BY <1>3, <1>4, <2>1, RunTyped DEF Reported, Warned, NodesOf, RunInv, Closures
<1>7. QED
  BY <1>1, <1>3, <1>4a, <1>5, <1>6, MessageKeeps

\* A timer sends its deadline message.
LEMMA TimerKeeps ==
    ASSUME RunInv, NEW n \in Tracked, TimerFires(n), UNCHANGED <<plan, tracker, call, loop>>
    PROVE  RunInv'
<1> USE DEF TimerFires, loop, threads, counts, modes, records, control, outside
<1>1. /\ UNCHANGED <<MessageAside, control, records, counts, modes, outside, atExit>>
      /\ UNCHANGED <<runner, attempt, result, fate, filled, buffer>>
      /\ n \in Node /\ timer' = [timer EXCEPT ![n] = "fired"]
      /\ queue' = Append(queue, Deadline(n))
  BY RunTyped DEF MessageAside, call
<1>2. queue \in Seq(Message) /\ Single(queue, "done") /\ StatesSound(queue)
  BY RunTyped DEF RunInv, OneHand, Closures
<1>3. /\ Deadline(n) \in Message /\ Deadline(n).kind = "deadline" /\ Deadline(n).node = n
  BY <1>1 DEF Deadline, Message, TerminalState, FailureLike
<1>4. /\ queue' \in Seq(Message) /\ Single(queue', "done") /\ StatesSound(queue')
      /\ NodesOf(queue', "done") = NodesOf(queue, "done")
      /\ NodesOf(queue', "deadline") = NodesOf(queue, "deadline") \cup {n}
      /\ Counted(queue', live \cup timedOut) = Counted(queue, live \cup timedOut)
  <2>1. Counted(queue, live \cup timedOut) \in Nat
    BY <1>2, CountedTyped
  <2>2. PICK m \in Message : m.kind = "deadline" /\ m.node = n /\ Appended(queue', queue, m)
    BY <1>1, <1>3 DEF Appended
  <2>3. queue' \in Seq(Message) /\ Single(queue', "done") /\ StatesSound(queue')
    BY <1>2, <2>2, QueueGrows
  <2>4. NodesOf(queue', "done") = NodesOf(queue, "done")
    BY <1>2, <2>2, QueueGrows
  <2>5. NodesOf(queue', "deadline") = NodesOf(queue, "deadline") \cup {n}
    <3>1. NodesOf(queue', m.kind) = NodesOf(queue, m.kind) \cup {m.node}
      BY <1>2, <2>2, QueueGrows
    <3>2. QED
      BY <2>2, <3>1
  <2>6. Counted(queue', live \cup timedOut) = Counted(queue, live \cup timedOut)
    BY <1>2, <2>1, <2>2, QueueGrows
  <2>7. QED
    BY <2>3, <2>4, <2>5, <2>6
<1>5. TypeOK'
  BY <1>1, <1>4 DEF RunInv, TypeOK, LoopTyped, ThreadsTyped, TimerState
<1>6. Points' /\ Unoffered' = Unoffered /\ Starting' = Starting
  BY <1>1 DEF RunInv, Points, Unoffered, Starting, InitialReady, InitialCount, Tracked, MessageAside
<1>7. n \in Started /\ \A m \in Tracked : timer'[m] # "off" => m \in Started
  BY <1>1 DEF RunInv, TypeOK, ThreadsTyped, Closures, TimerFires, Tracked
<1>8. Reported' = Reported /\ Warned' \subseteq Warned \cup {n} /\ Warned \subseteq Started
  BY <1>1, <1>4 DEF Reported, Warned, NodesOf, RunInv, Closures
<1>9. QED
  BY <1>1, <1>4, <1>5, <1>6, <1>7, <1>8, MessageKeeps

-----------------------------------------------------------------------------
(* Steps of the tracker, and records the loop writes.                       *)

RecordAside == <<plan, ledger, threads, queue, inFlight, live, pending, timedOut,
                 stopping, draining>>

\* A step that gives nodes a state, takes decisions away, or adds those of
\* nodes the tracker hands out with it.
LEMMA RecordKeeps ==
    ASSUME RunInv, UNCHANGED RecordAside, LoopTyped', Points',
           TrackerInv', Offered \subseteq Offered',
           Unoffered' \subseteq Unoffered, Starting' => Starting,
           \A n \in Node : terminal[n] # None => terminal'[n] # None,
           Single(decisions, "ready")',
           ReadyNodes' \subseteq ReadyNodes \cup (Offered' \ Offered)
    PROVE  RunInv'
<1> USE DEF RecordAside, threads
<1>1. /\ Waiters' = Waiters /\ Reported' = Reported /\ Started' = Started /\ Warned' = Warned
      /\ Tracked' = Tracked /\ Charged' = Charged
  BY DEF Waiters, Reported, Started, Warned, Charged, NodesOf, ToSet, Tracked
<1>2. OneHand'
  <2>1. Distinct(pending)' /\ Single(queue, "done")'
    BY DEF RunInv, OneHand, Distinct, Single
  <2>2. QED
    BY <1>1, <2>1 DEF RunInv, OneHand
<1>3. Closures'
  <2>1. StatesSound(queue)' /\ Started \subseteq Node
    BY RunTyped DEF StatesSound, RunInv, Closures
  <2>2. QED
    BY <1>1, <2>1 DEF RunInv, Closures
<1>4. InFlight' /\ Budget' /\ Ledger'
  BY <1>1, InFlightStays, BudgetStays, LedgerStays DEF RunInv
<1>5. ThreadsTyped'
  BY ThreadsStayTyped DEF RunInv, TypeOK, ThreadsTyped
<1>6. Stops'
  BY <1>1 DEF RunInv, Stops, Default, DefaultRule
<1>7. QED
  BY <1>2, <1>3, <1>4, <1>5, <1>6 DEF RunInv, TypeOK

\* The loop records a node it leaves behind as abandoned.
LEMMA AbandonKeeps == ASSUME RunInv, Abandon PROVE RunInv'
<1> USE DEF Abandon, counts, modes, outside
<1>1. /\ UNCHANGED <<RecordAside, tracker, call, control, outcomes, modes, outside, atExit>>
      /\ pc = "leave"
  BY DEF RecordAside
<1>2. PICK n \in Node : /\ terminal' = RecordTerminal(n, "abandoned")
                        /\ written' = Write(n, "abandoned")
                        /\ candidates' = candidates \cup {n}
  <2>1. Leftover # {} /\ Leftover \subseteq Node /\ IsFiniteSet(Leftover)
    BY RunTyped, FS_Subset DEF Leftover
  <2>2. Leftover \in SUBSET Nat
    BY <2>1, NodeAssumption
  <2>3. Lowest(Leftover) \in Leftover
    BY <2>1, <2>2, LeastOfFinite DEF Lowest
  <2>4. QED
    BY <2>1, <2>3
<1>3. LoopTyped'
  BY <1>1, <1>2 DEF RunInv, TypeOK, LoopTyped, RecordTerminal, Write, TerminalState, FailureLike,
                    control
<1>4. \A m \in Node : terminal[m] # None => terminal'[m] # None
  BY <1>2 DEF RunInv, TypeOK, LoopTyped, RecordTerminal
<1>5. TrackerInv' /\ Offered' = Offered
  BY <1>1, StillTracks DEF RunInv, RecordAside
<1>6. /\ Points' /\ Unoffered' = Unoffered /\ Starting' = Starting
      /\ ReadyNodes' = ReadyNodes /\ Single(decisions, "ready")'
  BY <1>1 DEF RunInv, OneHand, Points, Unoffered, Starting, InitialReady, InitialCount, Tracked,
              ReadyNodes, NodesOf, Single, RecordAside, control, call
<1>7. QED
  BY <1>1, <1>3, <1>4, <1>5, <1>6, RecordKeeps

\* The agenda's first node is a node of the agenda.
LEMMA LowestIsNode ==
    ASSUME NEW S \in SUBSET Node, S # {} PROVE Lowest(S) \in S /\ Lowest(S) \in Node
<1>1. S \in SUBSET Nat /\ IsFiniteSet(S)
  BY NodeAssumption, FS_Subset
<1>2. QED
  BY <1>1, LeastOfFinite DEF Lowest

\* The seed of a resumed run records a satisfied node and tells the tracker.
LEMMA SeedKeeps == ASSUME RunInv, SeedSatisfied PROVE RunInv'
<1> USE DEF SeedSatisfied, counts, modes, outside
<1>1. /\ UNCHANGED <<RecordAside, back, candidates, modes, outside, atExit>>
      /\ pc = "seed" /\ pc' = "cascade" /\ agenda # {}
  BY DEF RecordAside, NotifyTerminal
<1>2. PICK n \in plan.satisfied :
         /\ n \in Node /\ agenda' = agenda \ {n}
         /\ terminal' = RecordTerminal(n, "satisfied-from-prior")
         /\ written' = Write(n, "satisfied-from-prior")
         /\ outcomes' = [outcomes EXCEPT ![n] = @ \o Cut(1, "satisfied-from-prior")]
         /\ NotifyTerminal(n, "satisfied-from-prior")
  <2>1. agenda \subseteq plan.satisfied /\ agenda \in SUBSET Node
    BY <1>1 DEF RunInv, Points, Starting, TypeOK, LoopTyped
  <2>2. QED
    BY <1>1, <2>1, LowestIsNode
<1> HIDE DEF SeedSatisfied
<1>3. LoopTyped'
  <2>1. /\ terminal' \in [Node -> TerminalState \cup {None}]
        /\ written' \in [Node -> Seq(TerminalState)]
    <3>1. "satisfied-from-prior" \in TerminalState
      BY NoneIsNoState
    <3>2. PICK s \in TerminalState : terminal' = RecordTerminal(n, s) /\ written' = Write(n, s)
      BY <1>2, <3>1
    <3>3. QED
      BY <1>2, <3>2 DEF RunInv, TypeOK, LoopTyped, RecordTerminal, Write
  <2>2. agenda' \subseteq Node /\ pc' \in Point
    BY <1>1, <1>2 DEF RunInv, TypeOK, LoopTyped, Point
  <2>2a. outcomes' \in [Node -> Seq(OutcomeRecord)]
    <3>1. outcomes \in [Node -> Seq(OutcomeRecord)]
      BY DEF RunInv, TypeOK, LoopTyped
    <3>2. Cut(1, "satisfied-from-prior") \in Seq(OutcomeRecord)
      BY DEF Cut, OutcomeRecord
    <3>3. outcomes[n] \o Cut(1, "satisfied-from-prior") \in Seq(OutcomeRecord)
      BY <1>2, <3>1, <3>2, ConcatProperties
    <3>4. QED
      BY <1>2, <3>1, <3>3
  <2>3. QED
    BY <1>1, <2>1, <2>2, <2>2a DEF RunInv, TypeOK, LoopTyped, RecordAside
<1>4. \A m \in Node : terminal[m] # None => terminal'[m] # None
  BY <1>2 DEF RunInv, TypeOK, LoopTyped, RecordTerminal
<1>5. TrackerInv' /\ Offered' = Offered
  BY <1>2, CallTracks, NoneIsNoState DEF RunInv, Justified
<1>6. ReadyNodes' = {} /\ Single(decisions, "ready")'
  BY <1>2 DEF ReadyNodes, NodesOf, Single, NotifyTerminal
<1>7. /\ Points' /\ Unoffered' = Unoffered /\ Starting' = Starting
  BY <1>1, <1>2 DEF RunInv, Points, Unoffered, Starting, InitialReady, InitialCount, Tracked,
              RecordAside
<1>8. QED
  BY <1>1, <1>3, <1>4, <1>5, <1>6, <1>7, RecordKeeps

\* A step of the cascade hands nodes out and keeps the decisions it has.
LEMMA CascadeOffers ==
    ASSUME TrackerInv, Single(decisions, "ready"), ReadyNodes \subseteq Offered, Cascade
    PROVE  /\ TrackerInv' /\ Keeps /\ Offered \subseteq Offered'
           /\ Single(decisions, "ready")'
           /\ ReadyNodes' \subseteq ReadyNodes \cup (Offered' \ Offered)
<1>1. CASE PopWork
  BY <1>1, PopTracks DEF PopWork, ReadyNodes, NodesOf, Single
<1>2. CASE VisitDependent
  <2>1. PICK d \in visiting : PassesOver(d) \/ CountsDown(d) \/ FiresAt(d) \/ InheritsAt(d)
    BY <1>2, VisitSplit
  <2>2. TrackerInv' /\ Keeps /\ Offered \subseteq Offered'
    BY <2>1, VisitTracks
  <2>3. CASE decisions' = decisions
    BY <2>2, <2>3 DEF ReadyNodes, NodesOf, Single
  <2>4. ASSUME NEW e \in Decision, Appended(decisions', decisions, e),
               e.kind = "ready" => e.node \in Offered' \ Offered
        PROVE  /\ Single(decisions, "ready")'
               /\ ReadyNodes' \subseteq ReadyNodes \cup (Offered' \ Offered)
    <3>1. decisions \in Seq(Decision)
      BY DEF TrackerInv, TrackerTypeOK
    <3>2. /\ e.kind = "ready" => NodesOf(decisions', "ready") = NodesOf(decisions, "ready") \cup {e.node}
          /\ e.kind # "ready" => NodesOf(decisions', "ready") = NodesOf(decisions, "ready")
          /\ (e.kind = "ready" => e.node \notin NodesOf(decisions, "ready"))
                => Single(decisions', "ready")
      BY <2>4, <3>1, NodesOfAppend
    <3>3. ReadyNodes' = NodesOf(decisions', "ready") /\ ReadyNodes = NodesOf(decisions, "ready")
      BY DEF ReadyNodes, NodesOf
    <3>4. Single(decisions', "ready")
      BY <2>4, <3>2, <3>3
    <3>5. QED
      BY <2>4, <3>2, <3>3, <3>4 DEF Single
  <2>5. QED
    BY <2>1, <2>2, <2>3, <2>4, VisitDecides
<1>3. QED
  BY <1>1, <1>2 DEF Cascade

\* The tracker takes one step of its cascade.
LEMMA CascadeKeeps == ASSUME RunInv, CascadeStep PROVE RunInv'
<1> USE DEF CascadeStep, counts, modes, outside, records
<1>1. /\ UNCHANGED <<RecordAside, back, agenda, records, modes, outside, atExit>>
      /\ pc = "cascade" /\ pc' \in {"cascade", "apply"}
  BY DEF RecordAside, Cascade, PopWork, VisitDependent
<1>2. /\ TrackerInv' /\ Offered \subseteq Offered'
      /\ Single(decisions, "ready")'
      /\ ReadyNodes' \subseteq ReadyNodes \cup (Offered' \ Offered)
  <2>1. CASE Cascade
    BY <2>1, CascadeOffers DEF RunInv, OneHand
  <2>2. CASE UNCHANGED <<plan, tracker, call>>
    BY <2>2, StillTracks DEF RunInv, OneHand, ReadyNodes, NodesOf, Single, call
  <2>3. QED
    BY <2>1, <2>2
<1>3. LoopTyped'
  BY <1>1 DEF RunInv, TypeOK, LoopTyped, Point, RecordAside
<1>4. /\ Points' /\ Unoffered' = Unoffered /\ Starting' = Starting
  BY <1>1 DEF RunInv, Points, Unoffered, Starting, InitialReady, InitialCount, Tracked,
              RecordAside
<1>5. QED
  BY <1>1, <1>2, <1>3, <1>4, RecordKeeps

\* Taking the decision at the head.
LEMMA DecisionTaken ==
    ASSUME RunInv, NEW kind, Applying(kind), decisions' = Tail(decisions),
           UNCHANGED <<plan, tracker, work, visiting, telling>>
    PROVE  /\ TrackerInv' /\ Offered' = Offered /\ Head(decisions) \in Decision
           /\ Single(decisions, "ready")' /\ ReadyNodes' \subseteq ReadyNodes
           /\ kind = "ready" => /\ Head(decisions).node \in ReadyNodes
                                /\ Head(decisions).node \in Tracked
                                /\ ReadyNodes' = ReadyNodes \ {Head(decisions).node}
<1>1. decisions # << >> /\ decisions \in Seq(Decision) /\ Head(decisions).kind = kind
  BY RunTyped DEF Applying
<1>2. TrackerInv' /\ Offered' = Offered
  BY <1>1, TakingTracks DEF RunInv
<1>3. Head(decisions) \in Decision
  BY <1>1, TailElements
<1>4. /\ Single(decisions, "ready") => Single(Tail(decisions), "ready")
      /\ NodesOf(Tail(decisions), "ready") \subseteq NodesOf(decisions, "ready")
      /\ Head(decisions).kind = "ready" => Head(decisions).node \in NodesOf(decisions, "ready")
      /\ Head(decisions).kind = "ready" /\ Single(decisions, "ready")
           => NodesOf(Tail(decisions), "ready")
                = NodesOf(decisions, "ready") \ {Head(decisions).node}
  BY <1>1, NodesOfTail
<1>5. ReadyNodes' = NodesOf(Tail(decisions), "ready") /\ ReadyNodes = NodesOf(decisions, "ready")
  BY DEF ReadyNodes, NodesOf
<1>6. Single(decisions, "ready")
  BY DEF RunInv, OneHand
<1>7. Single(decisions, "ready")'
  BY <1>4, <1>6 DEF Single
<1>8. ReadyNodes \subseteq Tracked
  BY RunTyped DEF RunInv, OneHand
<1>9. QED
  BY <1>1, <1>2, <1>3, <1>4, <1>5, <1>6, <1>7, <1>8

\* The loop records a node the tracker decided.
LEMMA PropagatedKeeps == ASSUME RunInv, ApplyPropagated PROVE RunInv'
<1> USE DEF ApplyPropagated, Applied, counts, modes, outside
<1>1. /\ UNCHANGED <<RecordAside, control, outcomes, modes, outside, atExit, tracker, work,
                     visiting, telling>>
      /\ pc = "apply" /\ decisions' = Tail(decisions) /\ Applying("propagated")
  BY DEF RecordAside, Applying
<1>2. /\ TrackerInv' /\ Offered' = Offered /\ Head(decisions) \in Decision
      /\ Single(decisions, "ready")' /\ ReadyNodes' \subseteq ReadyNodes
      /\ Head(decisions).kind = "propagated"
  BY <1>1, DecisionTaken DEF RecordAside, Applying
<1>3. PICK n \in Node, s \in TerminalState :
         /\ terminal' = RecordTerminal(n, s) /\ written' = Write(n, s)
         /\ candidates' = candidates \cup (IF IsZombieCandidate(s) THEN {n} ELSE {})
  <2>1. Head(decisions).node \in Node /\ Head(decisions).state \in TerminalState
    BY <1>2, RunTyped DEF Decision
  <2>2. QED
    BY <2>1
<1>4. LoopTyped'
  BY <1>1, <1>3 DEF RunInv, TypeOK, LoopTyped, RecordTerminal, Write, control
<1>5. \A m \in Node : terminal[m] # None => terminal'[m] # None
  BY <1>3, NoneIsNoState DEF RunInv, TypeOK, LoopTyped, RecordTerminal
<1>6. /\ Points' /\ Unoffered' = Unoffered /\ Starting' = Starting
  BY <1>1 DEF RunInv, Points, Unoffered, Starting, InitialReady, InitialCount, Tracked,
              RecordAside, control
<1>7. QED
  BY <1>1, <1>2, <1>4, <1>5, <1>6, RecordKeeps

-----------------------------------------------------------------------------
(* The ledger: who works draws, who returns gives back, who is overtaken    *)
(* becomes a zombie.                                                        *)

Draws(p) == [n \in Node |-> Cost[n][p]]

\* What each node draws from a pool is a number.
LEMMA DrawsTyped ==
    ASSUME NEW p \in Pool
    PROVE  /\ Capacity[p] \in Nat
           /\ \E f \in [Node -> Nat] : f = Draws(p) /\ \A n \in Node : f[n] = Cost[n][p]
<1>1. Draws(p) \in [Node -> Nat] /\ \A n \in Node : Draws(p)[n] = Cost[n][p]
  BY PoolAssumption DEF Draws
<1>2. QED
  BY <1>1, PoolAssumption

\* A node that is admitted and starts to work leaves the ledger right.
LEMMA AdmitsLedger ==
    ASSUME RunInv, NEW n \in Tracked, n \notin timedOut, TryAdmit(n),
           Charged' = Charged \cup {n}, timedOut' = timedOut
    PROVE  Ledger'
<1> USE DEF TryAdmit, Charge
<1>1. /\ Charged \subseteq Node /\ n \in Node /\ n \notin Charged /\ permits = Charged
      /\ free \in [Pool -> Nat]
  BY RunTyped DEF RunInv, Ledger, Charged
<1>2. ASSUME NEW p \in Pool
      PROVE  /\ free[p] - Cost[n][p] \in Nat
             /\ (free[p] - Cost[n][p]) + Cardinality(Tokens(Charged \cup {n}, Draws(p)))
                  = Capacity[p]
  <2>1. PICK f \in [Node -> Nat] : f = Draws(p) /\ f[n] = Cost[n][p]
    BY <1>1, DrawsTyped
  <2>2. free[p] + Cardinality(Tokens(Charged, f)) = Capacity[p] /\ f[n] <= free[p] /\ free[p] \in Nat
    BY <1>1, <2>1 DEF RunInv, Ledger, CapacityFollowsThreads, Draws, Fits
  <2>3. /\ free[p] - f[n] \in Nat
        /\ (free[p] - f[n]) + Cardinality(Tokens(Charged \cup {n}, f)) = Capacity[p]
    BY <1>1, <2>2, ChargeIsPaired
  <2>4. QED
    BY <2>1, <2>3
<1>3. free' \in [Pool -> Nat] /\ \A p \in Pool : free'[p] = free[p] - Cost[n][p]
  BY <1>2
<1>4. CapacityFollowsThreads'
  <2>1. ASSUME NEW p \in Pool
        PROVE  free'[p] + Cardinality(Tokens(Charged', [m \in Node |-> Cost[m][p]])) = Capacity[p]
    BY <1>2, <1>3 DEF Draws
  <2>2. QED
    BY <2>1 DEF CapacityFollowsThreads, Tokens
<1>5. ToSet(zombies) = timedOut \cap permits /\ zombies \in Seq(Node) /\ Distinct(zombies)
  BY DEF RunInv, Ledger, ZombieUntilReturn
<1>6. ZombieUntilReturn' /\ zombies' \in Seq(Node) /\ Distinct(zombies)'
  BY <1>5 DEF ZombieUntilReturn, ToSet, Distinct
<1>7. QED
  BY <1>1, <1>3, <1>4, <1>6 DEF Ledger

\* A node that gives its permit back when it stops working leaves the ledger right.
LEMMA DropsLedger ==
    ASSUME RunInv, NEW n \in Tracked, DropPermit(n), Charged' = Charged \ {n},
           timedOut' = timedOut
    PROVE  Ledger'
<1> USE DEF DropPermit
<1>1. /\ Charged \subseteq Node /\ n \in Charged /\ permits = Charged
      /\ free \in [Pool -> Nat]
  BY RunTyped DEF RunInv, Ledger, Charged
<1>2. ASSUME NEW p \in Pool
      PROVE  /\ Credit(p, n) \in Nat
             /\ Credit(p, n) + Cardinality(Tokens(Charged \ {n}, Draws(p))) = Capacity[p]
  <2>1. PICK f \in [Node -> Nat] : f = Draws(p) /\ f[n] = Cost[n][p]
    BY <1>1, DrawsTyped
  <2>2. free[p] + Cardinality(Tokens(Charged, f)) = Capacity[p] /\ free[p] \in Nat
    BY <1>1, <2>1 DEF RunInv, Ledger, CapacityFollowsThreads, Draws
  <2>3. Credit(p, n) = IF free[p] + f[n] > Capacity[p] THEN Capacity[p] ELSE free[p] + f[n]
    BY <2>1 DEF Credit
  <2>4. Capacity[p] \in Nat
    BY DrawsTyped
  <2>5. PICK c : c = Credit(p, n)
    OBVIOUS
  <2>6. c \in Nat /\ c + Cardinality(Tokens(Charged \ {n}, f)) = Capacity[p]
    BY <1>1, <2>2, <2>3, <2>4, <2>5, CreditIsPaired
  <2>7. QED
    BY <2>1, <2>5, <2>6
<1>3. free' \in [Pool -> Nat] /\ \A p \in Pool : free'[p] = Credit(p, n)
  BY <1>2
<1>4. CapacityFollowsThreads'
  <2>1. ASSUME NEW p \in Pool
        PROVE  free'[p] + Cardinality(Tokens(Charged', [m \in Node |-> Cost[m][p]])) = Capacity[p]
    BY <1>2, <1>3 DEF Draws
  <2>2. QED
    BY <2>1 DEF CapacityFollowsThreads, Tokens
<1>5. ToSet(zombies) = timedOut \cap permits /\ zombies \in Seq(Node) /\ Distinct(zombies)
  BY DEF RunInv, Ledger, ZombieUntilReturn
<1>6. PICK z : z = zombies' /\ z \in Seq(Node) /\ Distinct(z) /\ ToSet(z) = ToSet(zombies) \ {n}
  BY <1>5, RemoveFirstDistinct
<1>7. ZombieUntilReturn' /\ zombies' \in Seq(Node) /\ Distinct(zombies)'
  <2>1. ToSet(z) = timedOut \cap (permits \ {n})
    BY <1>5, <1>6
  <2>2. QED
    BY <1>6, <2>1 DEF ZombieUntilReturn, ToSet, Distinct
<1>8. QED
  BY <1>1, <1>3, <1>4, <1>7 DEF Ledger

\* A closure its deadline overtakes is marked a zombie if it holds a permit.
LEMMA MarksLedger ==
    ASSUME RunInv, NEW n \in Tracked, n \notin timedOut, timedOut' = timedOut \cup {n},
           IF n \in permits THEN MarkZombie(n) ELSE UNCHANGED ledger,
           Charged' = Charged
    PROVE  Ledger'
<1> USE DEF MarkZombie, ledger
<1>1. free' = free /\ permits' = permits
  OBVIOUS
<1>2. CapacityFollowsThreads'
  BY <1>1 DEF RunInv, Ledger, CapacityFollowsThreads, Tokens
<1>3. ToSet(zombies) = timedOut \cap permits /\ zombies \in Seq(Node) /\ Distinct(zombies)
  BY DEF RunInv, Ledger, ZombieUntilReturn
<1>4. CASE n \in permits
  <2>1. n \in Node /\ \A i \in DOMAIN zombies : zombies[i] # n
    BY <1>3, RunTyped DEF ToSet
  <2> DEFINE more == Append(zombies, n)
  <2>2a. /\ more \in Seq(Node) /\ Distinct(more)
         /\ DOMAIN more = DOMAIN zombies \cup {Len(zombies) + 1}
         /\ \A i \in DOMAIN zombies : more[i] = zombies[i]
         /\ more[Len(zombies) + 1] = n
    BY <1>3, <2>1, AppendDistinct, OneMoreDecision
  <2>2b. zombies' = more
    BY <1>4
  <2> HIDE DEF more
  <2>2. PICK z : z = more /\ z = zombies'
    BY <2>2b
  <2>3. /\ z \in Seq(Node) /\ Distinct(z)
    BY <2>2a, <2>2
  <2>4. ToSet(z) = ToSet(zombies) \cup {n}
    BY <2>2, <2>2a DEF ToSet
  <2>5. ToSet(z) = (timedOut \cup {n}) \cap permits
    BY <1>3, <1>4, <2>4
  <2>6. QED
    BY <1>1, <1>2, <2>2, <2>3, <2>5 DEF RunInv, Ledger, ZombieUntilReturn, ToSet, Distinct
<1>5. CASE n \notin permits
  <2>1. ToSet(zombies) = (timedOut \cup {n}) \cap permits
    BY <1>3, <1>5
  <2>2. QED
    BY <1>1, <1>2, <1>3, <1>5, <2>1 DEF RunInv, Ledger, ZombieUntilReturn, ToSet, Distinct
<1>6. QED
  BY <1>4, <1>5

-----------------------------------------------------------------------------
(* Offering a node that was handed out: it is launched, answered, or it     *)
(* waits.                                                                   *)

OfferAside == <<plan, pc, back, terminal, written, outcomes, candidates, timedOut, modes,
                outside, atExit>>

\* n leaves the hand it is in and is in no other.
TakenUp(n) ==
    /\ n \in Offered /\ runner[n] \in {"waiting", "absent"} /\ n \notin Reported
    /\ UNCHANGED OfferAside /\ agenda' \subseteq agenda
    /\ TrackerInv' /\ Offered' = Offered
    /\ Unoffered' \subseteq Unoffered /\ n \notin Unoffered'
    /\ Single(decisions, "ready")' /\ ReadyNodes' \subseteq ReadyNodes /\ n \notin ReadyNodes'

\* The line of waiters without n.
StillInLine(n) ==
    /\ pending' \in Seq(Node) /\ Distinct(pending)'
    /\ Waiters' \subseteq Waiters /\ n \notin Waiters' /\ (draining => pending' = << >>)

\* What the books say of a node the loop takes up to admit, reject or cancel.
LEMMA TakenUpFacts ==
    ASSUME RunInv, NEW n, TakenUp(n)
    PROVE  /\ n \in Tracked /\ n \in Node /\ n \notin Started /\ n \notin live /\ n \notin timedOut
           /\ Tracked' = Tracked /\ Points' /\ Starting' = Starting /\ n \notin Charged
           /\ runner[n] \notin Busy
<1>1. n \in Tracked /\ n \in Node
  BY RunTyped DEF TakenUp
<1>2. n \notin Started /\ n \notin live /\ n \notin timedOut /\ n \notin Charged /\ runner[n] \notin Busy
  BY DEF RunInv, Closures, Started, TakenUp, Charged, Busy
<1>3. plan' = plan /\ pc' = pc /\ back' = back /\ agenda' \subseteq agenda
  BY DEF TakenUp, OfferAside
<1>4. Tracked' = Tracked /\ InitialReady' = InitialReady
  BY <1>3 DEF Tracked, InitialReady, InitialCount
<1>5. Points' /\ Starting' = Starting
  BY <1>3, <1>4 DEF RunInv, Points, Starting
<1>6. QED
  BY <1>1, <1>2, <1>4, <1>5

\* What the loop's own variables become.
LEMMA OfferTyped ==
    ASSUME RunInv, NEW n, TakenUp(n), pending' \in Seq(Node), inFlight' \in Nat, live' \subseteq Node
    PROVE  LoopTyped'
BY DEF RunInv, TypeOK, LoopTyped, TakenUp, OfferAside, modes, outside

\* A node that fits is admitted and its closure dispatched.
LEMMA LaunchKeeps ==
    ASSUME RunInv, NEW n, TakenUp(n), StillInLine(n), runner[n] = "waiting",
           TryAdmit(n), Dispatch(n), live' = live \cup {n}, inFlight' = inFlight + 1,
           queue' = queue
    PROVE  RunInv'
<1> USE DEF Dispatch
<1>1. /\ n \in Tracked /\ n \in Node /\ n \notin Started /\ n \notin live /\ n \notin timedOut
      /\ Tracked' = Tracked /\ Points' /\ Starting' = Starting /\ n \notin Charged
      /\ timedOut' = timedOut /\ terminal' = terminal
  BY TakenUpFacts DEF TakenUp, OfferAside
<1>2. /\ runner \in [Node -> RunnerState] /\ runner' = [runner EXCEPT ![n] = "body"]
      /\ runner'[n] = "body" /\ \A m \in Node \ {n} : runner'[m] = runner[m]
      /\ Started' = Started \cup {n} /\ Charged' = Charged \cup {n}
  <2>1. runner \in [Node -> RunnerState]
    BY RunTyped
  <2>2. runner'[n] = "body" /\ \A m \in Node \ {n} : runner'[m] = runner[m]
    BY <1>1, <2>1
  <2>3. \A m \in Tracked : m \in Node
    BY RunTyped
  <2>4. Started' = Started \cup {n} /\ Charged' = Charged \cup {n}
    BY <1>1, <2>2, <2>3 DEF Started, Charged
  <2>5. QED
    BY <2>1, <2>2, <2>4
<1>3. Ledger'
  BY <1>1, <1>2, AdmitsLedger
<1>4. TypeOK'
  <2>1. LoopTyped'
    BY <1>1, RunTyped, OfferTyped DEF StillInLine
  <2>2. ThreadsTyped'
    <3>1. runner' \in [Node -> RunnerState] /\ timer' \in [Node -> TimerState]
      BY <1>1, <1>2 DEF RunInv, TypeOK, ThreadsTyped, RunnerState, TimerState
    <3>2. attempt' \in [Node -> Nat] /\ \A m \in Node : attempt'[m] <= MaxAttempts[m]
      <4>1. \A m \in Node : MaxAttempts[m] \in Nat /\ MaxAttempts[m] # 0
        BY AttemptsAssumption
      <4>2. attempt' = [attempt EXCEPT ![n] = 1] /\ attempt \in [Node -> Nat]
        BY DEF RunInv, TypeOK, ThreadsTyped
      <4>3. \A m \in Node : attempt'[m] = attempt[m] \/ attempt'[m] = 1
        BY <4>2
      <4>4. \A m \in Node : attempt[m] <= MaxAttempts[m] /\ 1 <= MaxAttempts[m]
        BY <4>1 DEF RunInv, TypeOK, ThreadsTyped
      <4>5. attempt' \in [Node -> Nat]
        <5>1. attempt' = [m \in Node |-> IF m = n THEN 1 ELSE attempt[m]]
          BY <4>2
        <5>2. \A m \in Node : (IF m = n THEN 1 ELSE attempt[m]) \in Nat
          BY <4>2
        <5>3. QED
          BY <5>1, <5>2
      <4>6. \A m \in Node : attempt'[m] <= MaxAttempts[m]
        BY <4>3, <4>4
      <4>7. QED
        BY <4>5, <4>6
    <3>3. QED
      BY <3>1, <3>2 DEF RunInv, TypeOK, ThreadsTyped
  <2>3. QED
    BY <2>1, <2>2 DEF TypeOK
<1>5. OneHand'
  <2>1. Reported' = Reported /\ Single(queue, "done")'
    BY DEF Reported, NodesOf, Single, RunInv, OneHand
  <2>2. Distinct(pending)' /\ Single(decisions, "ready")'
    BY DEF TakenUp, StillInLine
  <2>3. \A m \in Reported : runner'[m] \notin Busy
    BY <1>2, RunTyped DEF RunInv, OneHand, TakenUp
  <2>4. QED
    BY <1>2, <2>1, <2>2, <2>3 DEF RunInv, OneHand, TakenUp, StillInLine
<1>6. Closures'
  <2>1. Warned' = Warned /\ StatesSound(queue)'
    BY DEF Warned, NodesOf, StatesSound, RunInv, Closures
  <2>2. \A m \in Tracked : timer'[m] # "off" => m \in Started'
    BY <1>1, <1>2, RunTyped DEF RunInv, Closures
  <2>3. \A m \in Tracked : runner'[m] \in Busy => m \in live' \cup timedOut'
    BY <1>1, <1>2, RunTyped DEF RunInv, Closures
  <2>4. \A m \in Started' \ live' : terminal'[m] # None
    BY <1>1, <1>2 DEF RunInv, Closures
  <2>5. QED
    BY <1>1, <1>2, <2>1, <2>2, <2>3, <2>4 DEF RunInv, Closures
<1>7. InFlight'
  <2>1. Cardinality(live \cup {n}) = Cardinality(live) + 1
    BY <1>1, RunTyped, FS_AddElement
  <2>2. Counted(queue, live \cup timedOut) = Counted(queue, live \cup {n} \cup timedOut)
    BY CountedAlike DEF TakenUp, Reported
  <2>3. Counted(queue, live \cup timedOut) \in Nat
    BY RunTyped, CountedTyped
  <2>4. inFlight' = Cardinality(live \cup {n}) + Counted(queue, live \cup {n} \cup timedOut)
    BY <2>1, <2>2, <2>3, RunTyped DEF RunInv, InFlight, Counted
  <2>5. QED
    BY <1>1, <2>4 DEF InFlight, Counted, Places, Loose
<1>8. Stops' /\ Budget'
  <2>1. Stops'
    BY <1>1 DEF RunInv, Stops, StillInLine, TakenUp, OfferAside, modes, Default, DefaultRule
  <2>2. attempt'[n] = 1 /\ \A m \in Node \ {n} : attempt'[m] = attempt[m] /\ result'[m] = result[m]
    BY <1>1 DEF RunInv, TypeOK, ThreadsTyped, Budget, Busy
  <2>3. Budget'
    BY <1>1, <1>2, <2>2 DEF RunInv, Budget, Busy
  <2>4. QED
    BY <2>1, <2>3
<1>9. QED
  BY <1>1, <1>3, <1>4, <1>5, <1>6, <1>7, <1>8 DEF RunInv, TakenUp

\* The messages the loop answers itself with, and those of a runner.
LEMMA AnswersTyped ==
    ASSUME NEW n \in Node, NEW s \in Reportable, NEW closing \in BOOLEAN
    PROVE  /\ Done(n, s, closing) \in Message /\ Done(n, s, closing).kind = "done"
           /\ Done(n, s, closing).node = n /\ Done(n, s, closing).state = s
BY NoneIsNoState DEF Done, Message

\* A report of n joins the queue.
LEMMA ReportJoins ==
    ASSUME RunInv, NEW n \in Node, n \notin Reported,
           NEW s \in Reportable, NEW closing \in BOOLEAN,
           queue' = Append(queue, Done(n, s, closing))
    PROVE  /\ queue' \in Seq(Message) /\ Reported' = Reported \cup {n} /\ Warned' = Warned
           /\ Single(queue, "done")' /\ StatesSound(queue)'
           /\ \A S : n \in S => Counted(queue', S) = Counted(queue, S)
           /\ \A S : n \notin S => Counted(queue', S) = Counted(queue, S) + 1
<1>1. queue \in Seq(Message) /\ Single(queue, "done") /\ StatesSound(queue)
  BY RunTyped DEF RunInv, OneHand, Closures
<1>2. PICK m \in Message : /\ m.kind = "done" /\ m.node = n /\ m.state = s
                           /\ Appended(queue', queue, m)
  BY AnswersTyped DEF Appended
<1>3. /\ NodesOf(queue', m.kind) = NodesOf(queue, m.kind) \cup {m.node}
      /\ NodesOf(queue', "deadline") = NodesOf(queue, "deadline")
  BY <1>1, <1>2, QueueGrows
<1>4. NodesOf(queue', "done") = NodesOf(queue, "done") \cup {n}
  BY <1>2, <1>3
<1>5. Reported' = Reported \cup {n} /\ Warned' = Warned
  BY <1>3, <1>4 DEF Reported, Warned, NodesOf
<1>6. queue' \in Seq(Message) /\ Single(queue', "done") /\ StatesSound(queue')
  BY <1>1, <1>2, QueueGrows DEF Reported
<1>7. /\ \A S : n \in S => Counted(queue', S) = Counted(queue, S)
      /\ \A S : n \notin S => Counted(queue', S) = Counted(queue, S) + 1
  BY <1>1, <1>2, QueueGrows
<1>8. QED
  BY <1>5, <1>6, <1>7 DEF Single, StatesSound

\* A node the loop answers for itself, by a rejection or a cancellation.
LEMMA AnswerKeeps ==
    ASSUME RunInv, NEW n, TakenUp(n), StillInLine(n),
           NEW s \in Reportable, NEW closing \in BOOLEAN,
           queue' = Append(queue, Done(n, s, closing)), inFlight' = inFlight + 1,
           UNCHANGED <<ledger, threads, live>>
    PROVE  RunInv'
<1>1. /\ n \in Tracked /\ n \in Node /\ n \notin Started /\ n \notin live /\ n \notin timedOut
      /\ Tracked' = Tracked /\ Points' /\ Starting' = Starting /\ n \notin Charged
      /\ timedOut' = timedOut /\ terminal' = terminal /\ plan' = plan /\ n \notin Reported
      /\ runner[n] \notin Busy
  BY TakenUpFacts DEF TakenUp, OfferAside
<1>2. /\ queue' \in Seq(Message) /\ Reported' = Reported \cup {n} /\ Warned' = Warned
      /\ Single(queue, "done")' /\ StatesSound(queue)'
  BY <1>1, ReportJoins
<1>3. Started' = Started /\ Charged' = Charged /\ runner' = runner /\ timer' = timer
  BY <1>1 DEF Started, Charged, threads
<1>4. Ledger'
  BY <1>1, <1>3, LedgerStays DEF RunInv
<1>5. TypeOK'
  <2>1. LoopTyped'
    BY <1>1, RunTyped, OfferTyped DEF StillInLine
  <2>2. ThreadsTyped'
    BY <1>2, ThreadsStayTyped DEF RunInv, TypeOK
  <2>3. QED
    BY <2>1, <2>2 DEF TypeOK
<1>6. OneHand'
  <2>1. Distinct(pending)' /\ Single(decisions, "ready")'
    BY DEF TakenUp, StillInLine
  <2>2. \A m \in Reported' : runner'[m] \notin Busy
    BY <1>1, <1>2, <1>3 DEF RunInv, OneHand
  <2>3. QED
    BY <1>1, <1>2, <1>3, <2>1, <2>2 DEF RunInv, OneHand, TakenUp, StillInLine
<1>7. Closures'
  BY <1>1, <1>2, <1>3 DEF RunInv, Closures
<1>8. InFlight'
  <2>1. Counted(queue', live \cup timedOut) = Counted(queue, live \cup timedOut) + 1
    BY <1>1, ReportJoins
  <2>2. Counted(queue, live \cup timedOut) \in Nat
    BY RunTyped, CountedTyped
  <2>3. inFlight' = Cardinality(live) + Counted(queue', live \cup timedOut)
    BY <2>1, <2>2, RunTyped DEF RunInv, InFlight, Counted
  <2>4. QED
    BY <1>1, <2>3 DEF InFlight, Counted, Places, Loose
<1>9. Stops' /\ Budget'
  BY <1>1, BudgetStays DEF RunInv, Stops, StillInLine, TakenUp, OfferAside, modes, Default,
                           DefaultRule, threads
<1>10. QED
  BY <1>1, <1>4, <1>5, <1>6, <1>7, <1>8, <1>9 DEF RunInv, TakenUp

\* n waits, or is passed over because it has a state.
LEMMA WaitKeeps ==
    ASSUME RunInv, NEW n, TakenUp(n),
           pending' = pending \/ (/\ pending' = Append(pending, n) /\ n \notin Waiters
                                  /\ ~draining /\ (stopping => n \notin Default)),
           UNCHANGED <<ledger, threads, queue, live, inFlight>>
    PROVE  RunInv'
<1>1. /\ n \in Tracked /\ n \in Node /\ n \notin Started
      /\ Tracked' = Tracked /\ Points' /\ Starting' = Starting
      /\ timedOut' = timedOut /\ terminal' = terminal /\ plan' = plan /\ n \notin Reported
  BY TakenUpFacts DEF TakenUp, OfferAside
<1>2. /\ Reported' = Reported /\ Warned' = Warned /\ Single(queue, "done")'
      /\ Started' = Started /\ Charged' = Charged
  BY <1>1 DEF Reported, Warned, NodesOf, RunInv, OneHand, Single, Started, Charged, threads
<1>3. /\ pending' \in Seq(Node) /\ Distinct(pending)' /\ Waiters' \subseteq Waiters \cup {n}
      /\ pending' # pending => n \in Offered /\ ~draining /\ (stopping => n \notin Default)
  <2>1. pending \in Seq(Node) /\ Distinct(pending)
    BY RunTyped DEF RunInv, OneHand
  <2>2. CASE pending' = pending
    BY <2>1, <2>2 DEF Waiters, ToSet, Distinct
  <2>3. CASE pending' # pending
    <3>1. \A i \in DOMAIN pending : pending[i] # n
      BY <2>3 DEF Waiters, ToSet
    <3>2. /\ Append(pending, n) \in Seq(Node) /\ Distinct(Append(pending, n))
          /\ \A k \in DOMAIN Append(pending, n) :
                Append(pending, n)[k] = n \/ \E j \in DOMAIN pending : Append(pending, n)[k] = pending[j]
      BY <1>1, <2>1, <3>1, AppendDistinct
    <3>3. pending' = Append(pending, n)
      BY <2>3
    <3>4. PICK w : w = Append(pending, n)
      OBVIOUS
    <3>5. ToSet(w) \subseteq ToSet(pending) \cup {n} /\ w \in Seq(Node) /\ Distinct(w)
      BY <3>2, <3>4 DEF ToSet
    <3>6. QED
      BY <2>3, <3>3, <3>4, <3>5 DEF Waiters, ToSet, Distinct, TakenUp
  <2>4. QED
    BY <2>2, <2>3
<1>4. Ledger'
  BY <1>1, <1>2, LedgerStays DEF RunInv
<1>5. TypeOK'
  BY <1>3, RunTyped, OfferTyped, ThreadsStayTyped DEF RunInv, TypeOK
<1>6. OneHand'
  <2>1. \A m \in Reported' : runner'[m] \notin Busy
    BY <1>2 DEF RunInv, OneHand, threads
  <2>2. n \in Offered /\ n \notin Unoffered' /\ n \notin ReadyNodes'
    BY DEF TakenUp
  <2>3. QED
    BY <1>1, <1>2, <1>3, <2>1, <2>2 DEF RunInv, OneHand, TakenUp
<1>7. Closures' /\ InFlight'
  BY <1>1, ClosuresStay, InFlightStays DEF RunInv, threads
<1>8. Stops'
  <2>1. stopping' = stopping /\ draining' = draining /\ Default' = Default
    BY DEF TakenUp, OfferAside, modes, Default, DefaultRule
  <2>2. CASE pending' = pending
    BY <1>1, <2>1, <2>2 DEF RunInv, Stops, Waiters, ToSet
  <2>3. CASE pending' # pending
    BY <1>1, <1>3, <2>1, <2>3 DEF RunInv, Stops
  <2>4. QED
    BY <2>2, <2>3
<1>9. Budget'
  BY BudgetStays DEF RunInv, threads
<1>10. QED
  BY <1>1, <1>4, <1>5, <1>6, <1>7, <1>8, <1>9 DEF RunInv, TakenUp

\* admit: the node is launched, or it has no runner and is answered.
LEMMA AdmitKeeps ==
    ASSUME RunInv, NEW n, TakenUp(n), StillInLine(n), Admit(n)
    PROVE  RunInv'
<1>1. CASE runner[n] # "waiting" /\ queue' = Append(queue, Done(n, "failed", FALSE))
           /\ UNCHANGED <<ledger, threads, live>>
  <2>1. "failed" \in Reportable
    BY DEF Reportable, ExecutedState
  <2>2. QED
    BY <1>1, <2>1, AnswerKeeps DEF Admit
<1>2. CASE runner[n] = "waiting" /\ TryAdmit(n) /\ Dispatch(n) /\ live' = live \cup {n}
           /\ UNCHANGED queue
  BY <1>2, LaunchKeeps DEF Admit
<1>3. QED
  BY <1>1, <1>2 DEF Admit

\* A node is offered: admitted, answered, or left waiting in line.
LEMMA OfferKeeps ==
    ASSUME RunInv, NEW n, TakenUp(n), OfferOrPend(n), n \notin Waiters, ~draining,
           stopping => n \notin Default
    PROVE  RunInv'
<1>1. pending' = pending => StillInLine(n)
  BY RunTyped DEF RunInv, OneHand, StillInLine, Waiters, ToSet, Distinct
<1>2. CASE Fits(n) /\ Admit(n) /\ UNCHANGED pending
  BY <1>1, <1>2, AdmitKeeps
<1>3. CASE /\ queue' = Append(queue, Rejected(n)) /\ inFlight' = inFlight + 1
           /\ UNCHANGED <<ledger, threads, live, pending>>
  <2>1. "failed" \in Reportable
    BY DEF Reportable, ExecutedState
  <2>2. QED
    BY <1>1, <1>3, <2>1, AnswerKeeps DEF Rejected
<1>4. CASE /\ pending' = Append(pending, n)
           /\ UNCHANGED <<ledger, threads, live, inFlight, queue>>
  BY <1>4, WaitKeeps
<1>5. QED
  BY <1>2, <1>3, <1>4 DEF OfferOrPend

\* The start-up offers a node of the initial frontier.
LEMMA FrontierKeeps == ASSUME RunInv, OfferFrontier PROVE RunInv'
<1>1. /\ pc = "frontier" /\ agenda # {} /\ UNCHANGED OfferAside
      /\ UNCHANGED <<plan, tracker, call>>
  BY DEF OfferFrontier, OfferAside, records
<1>2. PICK n \in agenda :
         /\ n \in Node /\ agenda' = agenda \ {n}
         /\ \/ UNCHANGED <<ledger, threads, queue, inFlight, live, pending>>
            \/ OfferOrPend(n)
  <2>1. Lowest(agenda) \in agenda /\ Lowest(agenda) \in Node
    BY <1>1, LowestIsNode DEF RunInv, TypeOK, LoopTyped
  <2>2. QED
    BY <2>1 DEF OfferFrontier
<1>3. /\ Unoffered = agenda /\ Unoffered' = agenda' /\ ReadyNodes' = ReadyNodes
      /\ Single(decisions, "ready")' /\ ~draining /\ ~stopping
  BY <1>1 DEF Unoffered, OfferAside, ReadyNodes, NodesOf, Single, RunInv, OneHand, Stops, Starting,
              call, modes
<1>4. /\ n \in Offered /\ n \notin Reported /\ n \notin ReadyNodes /\ n \notin Waiters
      /\ runner[n] \in {"waiting", "absent"}
  <2>1. n \in Offered /\ n \notin Reported /\ n \notin ReadyNodes /\ n \notin Waiters /\ n \notin Started
    BY <1>3 DEF RunInv, OneHand
  <2>2. n \in Tracked
    BY <2>1, RunTyped
  <2>3. QED
    BY <2>1, <2>2 DEF Started
<1>5. TakenUp(n)
  BY <1>1, <1>2, <1>3, <1>4, StillTracks DEF TakenUp, RunInv
<1>6. QED
  BY <1>2, <1>3, <1>4, <1>5, WaitKeeps, OfferKeeps

\* The loop applies a ready decision of the tracker.
LEMMA ReadyKeeps == ASSUME RunInv, ApplyReady PROVE RunInv'
<1> DEFINE n == Head(decisions).node
<1>1. /\ Applying("ready") /\ decisions' = Tail(decisions)
      /\ UNCHANGED <<plan, tracker, work, visiting, telling>>
      /\ UNCHANGED OfferAside /\ agenda' = agenda
      /\ \/ UNCHANGED <<ledger, threads, queue, inFlight, live, pending>>
         \/ /\ queue' = Append(queue, Cancelled(n)) /\ inFlight' = inFlight + 1
            /\ UNCHANGED <<ledger, threads, live, pending>>
         \/ ~Barred(n) /\ OfferOrPend(n)
  BY DEF ApplyReady, Applied, OfferAside, control, records, modes, outside
<1>2. /\ TrackerInv' /\ Offered' = Offered
      /\ Single(decisions, "ready")' /\ ReadyNodes' = ReadyNodes \ {n}
      /\ n \in ReadyNodes /\ n \in Tracked
  BY <1>1, DecisionTaken
<1> HIDE DEF n
<1>3. /\ n \in Offered /\ n \notin Reported /\ n \notin Unoffered /\ n \notin Waiters
      /\ runner[n] \in {"waiting", "absent"}
  BY <1>2 DEF RunInv, OneHand, Started
<1>4. Unoffered' = Unoffered
  BY <1>1 DEF Unoffered, Starting, OfferAside, InitialReady, InitialCount, Tracked
<1>5. TakenUp(n)
  BY <1>1, <1>2, <1>3, <1>4 DEF TakenUp
<1>6. CASE UNCHANGED <<ledger, threads, queue, inFlight, live, pending>>
  BY <1>5, <1>6, WaitKeeps
<1>7. CASE /\ queue' = Append(queue, Cancelled(n)) /\ inFlight' = inFlight + 1
           /\ UNCHANGED <<ledger, threads, live, pending>>
  <2>1. "cancelled" \in Reportable
    BY DEF Reportable, StopLike
  <2>2. StillInLine(n)
    BY <1>3, <1>7, RunTyped DEF RunInv, OneHand, Stops, StillInLine, Waiters, ToSet, Distinct
  <2>3. QED
    BY <1>5, <1>7, <2>1, <2>2, AnswerKeeps DEF Cancelled
<1>8. CASE ~Barred(n) /\ OfferOrPend(n)
  <2>1. ~draining /\ (stopping => n \notin Default)
    BY <1>8 DEF Barred, Default
  <2>2. QED
    BY <1>3, <1>5, <1>8, <2>1, OfferKeeps
<1>9. QED
  BY <1>1, <1>6, <1>7, <1>8

\* The line without its first waiter.
LEMMA LineMoves ==
    ASSUME NEW s \in Seq(Node), s # << >>, Distinct(s)
    PROVE  /\ Tail(s) \in Seq(Node) /\ Distinct(Tail(s)) /\ Head(s) \in ToSet(s)
           /\ ToSet(Tail(s)) = ToSet(s) \ {Head(s)}
<1> DEFINE t == Tail(s)
<1>1. /\ t \in Seq(Node) /\ Head(s) = s[1] /\ 1 \in DOMAIN s
      /\ \A i \in DOMAIN t : i \in Int /\ i + 1 \in DOMAIN s /\ i + 1 # 1 /\ t[i] = s[i + 1]
      /\ \A k \in DOMAIN s : k # 1 => k - 1 \in DOMAIN t /\ s[k] = t[k - 1]
  BY TailElements
<1> HIDE DEF t
<1>2. Distinct(t)
  BY <1>1 DEF Distinct
<1>3. ASSUME NEW n \in ToSet(t) PROVE n \in ToSet(s) /\ n # Head(s)
  BY <1>1 DEF ToSet, Distinct
<1>4. ASSUME NEW n \in ToSet(s), n # Head(s) PROVE n \in ToSet(t)
  <2>1. PICK k \in DOMAIN s : s[k] = n
    BY DEF ToSet
  <2>2. PICK j \in DOMAIN t : t[j] = s[k]
    BY <1>1, <1>4, <2>1
  <2>3. QED
    BY <2>1, <2>2 DEF ToSet
<1>5. Head(s) \in ToSet(s)
  BY <1>1 DEF ToSet
<1>6. QED
  BY <1>1, <1>2, <1>3, <1>4, <1>5 DEF t

\* The loop admits the head of its line.
LEMMA DrainAdmitKeeps == ASSUME RunInv, DrainAdmit PROVE RunInv'
<1> DEFINE n == Head(pending)
<1>1. /\ pc = "drain" /\ pending # << >> /\ pending' = Tail(pending) /\ Admit(n)
      /\ UNCHANGED OfferAside /\ agenda' = agenda /\ UNCHANGED <<plan, tracker, call>>
  BY DEF DrainAdmit, OfferAside, control, records
<1>2. /\ Tail(pending) \in Seq(Node) /\ Distinct(Tail(pending)) /\ n \in Waiters
      /\ ToSet(Tail(pending)) = Waiters \ {n}
  BY <1>1, RunTyped, LineMoves DEF RunInv, OneHand, Waiters
<1> HIDE DEF n
<1>3. ~draining /\ Unoffered' = {}
  BY <1>1 DEF RunInv, Stops, Unoffered, Starting, OfferAside
<1>4. StillInLine(n)
  BY <1>1, <1>2, <1>3 DEF StillInLine, Waiters, ToSet, Distinct
<1>5. /\ n \in Offered /\ n \notin Reported /\ n \notin ReadyNodes /\ n \in Tracked
      /\ runner[n] \in {"waiting", "absent"}
  <2>1. n \in Offered /\ n \notin Reported /\ n \notin ReadyNodes /\ n \notin Started
    BY <1>2 DEF RunInv, OneHand
  <2>2. QED
    BY <2>1, RunTyped DEF Started
<1>6. ReadyNodes' = ReadyNodes /\ Single(decisions, "ready")'
  BY <1>1 DEF ReadyNodes, NodesOf, Single, RunInv, OneHand, call
<1>7. TakenUp(n)
  BY <1>1, <1>3, <1>5, <1>6, StillTracks DEF TakenUp, RunInv
<1>8. QED
  BY <1>1, <1>4, <1>7, AdmitKeeps

-----------------------------------------------------------------------------
(* Answering a line of waiters.                                             *)

\* Every node of a line is reported to the loop by the loop itself.
LEMMA LineReports ==
    ASSUME NEW q \in Seq(Message), NEW ns \in Seq(Node), Distinct(ns),
           ToSet(ns) \cap NodesOf(q, "done") = {}, Single(q, "done"), StatesSound(q),
           NEW s \in Reportable, queue' = q \o [i \in DOMAIN ns |-> Done(ns[i], s, TRUE)]
    PROVE  /\ queue' \in Seq(Message) /\ Reported' = NodesOf(q, "done") \cup ToSet(ns)
           /\ Warned' = NodesOf(q, "deadline")
           /\ Single(queue, "done")' /\ StatesSound(queue)' /\ Len(ns) \in Nat
           /\ \A S : ToSet(ns) \cap S = {} => Counted(queue', S) = Counted(q, S) + Len(ns)
<1>1. PICK t : t = [i \in DOMAIN ns |-> Done(ns[i], s, TRUE)]
  OBVIOUS
<1>2. Len(ns) \in Nat /\ DOMAIN ns = 1..Len(ns) /\ \A i \in DOMAIN ns : ns[i] \in Node
  BY LenProperties, ElementOfSeq
<1>3. ASSUME NEW i \in DOMAIN ns
      PROVE  /\ t[i] \in Message /\ t[i].kind = "done" /\ t[i].node = ns[i] /\ t[i].state = s
  BY <1>1, <1>2, AnswersTyped
<1>4. t \in Seq(Message) /\ DOMAIN t = DOMAIN ns
  <2>1. t \in [1..Len(ns) -> Message]
    <3>1. \A i \in DOMAIN ns : Done(ns[i], s, TRUE) \in Message
      BY <1>2, AnswersTyped
    <3>2. t \in [DOMAIN ns -> Message]
      BY <1>1, <3>1, Zenon
    <3>3. QED
      BY <1>2, <3>2
  <2>2. t \in UNION {[1..k -> Message] : k \in Nat}
    BY <1>2, <2>1
  <2>3. t \in Seq(Message)
    BY <2>2, SeqDef
  <2>4. QED
    BY <1>2, <2>1, <2>3
<1>5. Len(t) = Len(ns)
  BY <1>2, <1>4, LenProperties
<1>6. AboutEach(t, ns, "done") /\ StatesSound(t)
  BY <1>3, <1>4 DEF AboutEach, StatesSound
<1>7. PICK q2 : q2 = queue' /\ Joined(q2, q, t)
  BY <1>1 DEF Joined
<1>8. /\ q2 \in Seq(Message)
      /\ NodesOf(q2, "done") = NodesOf(q, "done") \cup ToSet(ns)
      /\ NodesOf(q2, "deadline") = NodesOf(q, "deadline")
      /\ Single(q2, "done") /\ StatesSound(q2)
      /\ \A S : ToSet(ns) \cap S = {} => Counted(q2, S) = Counted(q, S) + Len(ns)
  <2>1. /\ q2 \in Seq(Message)
        /\ NodesOf(q2, "done") = NodesOf(q, "done") \cup ToSet(ns)
        /\ NodesOf(q2, "deadline") = NodesOf(q, "deadline")
    <3>1. q2 \in Seq(Message) /\ NodesOf(q2, "deadline") = NodesOf(q, "deadline")
      BY <1>4, <1>6, <1>7, QueueAnswers
    <3>2. NodesOf(q2, "done") = NodesOf(q, "done") \cup ToSet(ns)
      <4>1. q \in Seq(Message) /\ Joined(q2, q, t)
        BY <1>7
      <4>2. QED
        BY ONLY <1>4, <1>6, <4>1, NodesOfConcat
    <3>3. QED
      BY <3>1, <3>2
  <2>2. Single(q2, "done") /\ StatesSound(q2)
    BY <1>4, <1>6, <1>7, QueueAnswers
  <2>3. \A S : ToSet(ns) \cap S = {} => Counted(q2, S) = Counted(q, S) + Len(t)
    BY <1>4, <1>6, <1>7, QueueAnswers
  <2>4. QED
    BY <1>5, <2>1, <2>2, <2>3
<1>9. Reported' = NodesOf(q2, "done") /\ Warned' = NodesOf(q2, "deadline")
  BY <1>7 DEF Reported, Warned, NodesOf
<1>10. QED
  BY <1>2, <1>7, <1>8, <1>9 DEF Single, StatesSound

LineAside == <<plan, tracker, call, ledger, threads, back, agenda, records, live, timedOut,
               outside, atExit>>

\* The whole line is answered.
LEMMA WholeLineKeeps ==
    ASSUME RunInv, ~Starting, ~Starting', UNCHANGED LineAside, LoopTyped', Points',
           NEW q \in Seq(Message), NodesOf(q, "done") = Reported,
           NodesOf(q, "deadline") \subseteq Warned, Single(q, "done"), StatesSound(q),
           Counted(q, live \cup timedOut) = Counted(queue, live \cup timedOut),
           NEW ns \in Seq(Node), Distinct(ns), ToSet(ns) = Waiters, NEW s \in Reportable,
           queue' = q \o [i \in DOMAIN ns |-> Done(ns[i], s, TRUE)],
           inFlight' = inFlight + Len(ns), pending' = << >>
    PROVE  RunInv'
<1> USE DEF LineAside, threads, records
<1>1. Waiters \cap Reported = {} /\ Waiters \cap (live \cup timedOut) = {}
  BY DEF RunInv, OneHand, Closures
<1>2. /\ queue' \in Seq(Message) /\ Reported' = Reported \cup Waiters /\ Warned' \subseteq Warned
      /\ Single(queue, "done")' /\ StatesSound(queue)' /\ Len(ns) \in Nat
      /\ Counted(queue', live \cup timedOut) = Counted(queue, live \cup timedOut) + Len(ns)
  BY <1>1, LineReports
<1>3. /\ Started' = Started /\ Charged' = Charged /\ Tracked' = Tracked /\ Waiters' = {}
      /\ ReadyNodes' = ReadyNodes /\ Single(decisions, "ready")' /\ Distinct(pending)'
  BY DEF Started, Charged, Tracked, Waiters, ToSet, Distinct, ReadyNodes, NodesOf, Single, call,
         RunInv, OneHand
<1>4. TrackerInv' /\ Offered' = Offered
  BY StillTracks DEF RunInv
<1>5. OneHand'
  <2>1. Unoffered' = {}
    BY DEF Unoffered, Starting
  <2>2. ASSUME NEW m \in Reported' PROVE runner'[m] \notin Busy
    <3>1. m \in Waiters => m \in Tracked /\ m \notin Started
      BY RunTyped DEF RunInv, OneHand
    <3>2. QED
      BY <1>2, <2>2, <3>1 DEF RunInv, OneHand, Started, Busy
  <2>3. QED
    BY <1>2, <1>3, <1>4, <2>1, <2>2 DEF RunInv, OneHand
<1>6. Closures'
  BY <1>2, <1>3 DEF RunInv, Closures
<1>7. InFlight'
  <2>1. Counted(queue, live \cup timedOut) \in Nat
    BY RunTyped, CountedTyped
  <2>2. inFlight' = Cardinality(live) + Counted(queue', live \cup timedOut)
    BY <1>2, <2>1, RunTyped DEF RunInv, InFlight, Counted
  <2>3. QED
    BY <2>2 DEF InFlight, Counted, Places, Loose
<1>8. Ledger' /\ Budget' /\ ThreadsTyped'
  BY <1>2, <1>3, LedgerStays, BudgetStays, ThreadsStayTyped DEF RunInv, TypeOK
<1>9. Stops'
  BY <1>3 DEF Stops
<1>10. QED
  BY <1>4, <1>5, <1>6, <1>7, <1>8, <1>9 DEF RunInv, TypeOK

\* A line nobody can ever be admitted from is rejected as a whole.
LEMMA RejectKeeps == ASSUME RunInv, RejectPinned PROVE RunInv'
<1> USE DEF RejectPinned, Pinned, EmptyHanded, Quiet
<1>1. /\ pc = "top" /\ pc' = "await" /\ UNCHANGED LineAside /\ pending' = << >>
      /\ inFlight' = inFlight + Len(pending)
      /\ queue' = queue \o [i \in DOMAIN pending |-> Done(pending[i], "failed", TRUE)]
      /\ zombieClock' = "unset" /\ UNCHANGED <<stopping, draining, drainClock, cancelOrigin>>
  BY RunTyped DEF LineAside, Rejected
<1> HIDE DEF RejectPinned, Pinned, EmptyHanded
<1>2. pending \in Seq(Node) /\ Distinct(pending) /\ ToSet(pending) = Waiters /\ Len(pending) \in Nat
  BY RunTyped, LenProperties DEF RunInv, OneHand, Waiters
<1>3. /\ queue \in Seq(Message) /\ Single(queue, "done") /\ StatesSound(queue)
      /\ NodesOf(queue, "done") = Reported /\ NodesOf(queue, "deadline") = Warned
  BY RunTyped DEF RunInv, OneHand, Closures, Reported, Warned
<1>4. LoopTyped'
  BY <1>1, <1>2, RunTyped DEF RunInv, TypeOK, LoopTyped, LineAside, records, outside, Point, ClockState
<1>5. Points' /\ ~Starting /\ ~Starting'
  BY <1>1 DEF RunInv, Points, Starting, LineAside
<1>6. "failed" \in Reportable
  BY DEF Reportable, ExecutedState
<1>7. QED
  BY <1>1, <1>2, <1>3, <1>4, <1>5, <1>6, WholeLineKeeps

\* The default-rule waiters and the others are the waiters.
LEMMA LineSplits ==
    ASSUME NEW s \in Seq(Node), Distinct(s)
    PROVE  /\ Among(s, Default) \in Seq(Node) /\ Among(s, Node \ Default) \in Seq(Node)
           /\ Distinct(Among(s, Default)) /\ Distinct(Among(s, Node \ Default))
           /\ ToSet(Among(s, Default)) = ToSet(s) \cap Default
           /\ ToSet(Among(s, Node \ Default)) = ToSet(s) \ Default
<1>1. ASSUME NEW S
      PROVE  /\ Among(s, S) \in Seq(Node) /\ Distinct(Among(s, S))
             /\ ToSet(Among(s, S)) = ToSet(s) \cap S
  <2>1. PICK a : a = Among(s, S)
    OBVIOUS
  <2>2. /\ a \in Seq(Node) /\ Distinct(a)
        /\ \A i \in DOMAIN a : a[i] \in S /\ \E j \in DOMAIN s : a[i] = s[j]
        /\ \A j \in DOMAIN s : s[j] \in S => \E i \in DOMAIN a : a[i] = s[j]
    BY <2>1, AmongSelects
  <2>3. ASSUME NEW n \in ToSet(a) PROVE n \in ToSet(s) /\ n \in S
    BY <2>2 DEF ToSet
  <2>4. ASSUME NEW n \in ToSet(s), n \in S PROVE n \in ToSet(a)
    BY <2>2, <2>4 DEF ToSet
  <2>5. QED
    BY <2>1, <2>2, <2>3, <2>4
<1>2. ToSet(s) \subseteq Node
  BY ElementOfSeq DEF ToSet
<1>3. QED
  BY <1>1, <1>2

\* Cancelling in two parts answers everybody once.
LEMMA OrderIsLine ==
    ASSUME RunInv
    PROVE  \E order \in Seq(Node) :
             /\ order = Among(pending, Default) \o Among(pending, Node \ Default)
             /\ Distinct(order) /\ ToSet(order) = Waiters
<1>1. PICK a, b : a = Among(pending, Default) /\ b = Among(pending, Node \ Default)
  OBVIOUS
<1>2. /\ a \in Seq(Node) /\ b \in Seq(Node) /\ Distinct(a) /\ Distinct(b)
      /\ ToSet(a) = Waiters \cap Default /\ ToSet(b) = Waiters \ Default
  BY <1>1, RunTyped, LineSplits DEF RunInv, OneHand, Waiters
<1>3. PICK c : c = a \o b
  OBVIOUS
<1>4. /\ c \in Seq(Node)
      /\ \A i \in DOMAIN a : i \in DOMAIN c /\ c[i] = a[i]
      /\ \A i \in DOMAIN b : i + Len(a) \in DOMAIN c /\ c[i + Len(a)] = b[i]
      /\ \A i \in DOMAIN c : \/ i \in DOMAIN a
                             \/ i \notin DOMAIN a /\ i - Len(a) \in DOMAIN b /\ c[i] = b[i - Len(a)]
      /\ \A i, j \in DOMAIN c : i - Len(a) = j - Len(a) => i = j
  BY <1>2, <1>3, ConcatElements
<1>5. ASSUME NEW n \in Waiters PROVE n \in ToSet(c)
  <2>1. n \in ToSet(a) \/ n \in ToSet(b)
    BY <1>2
  <2>2. CASE n \in ToSet(a)
    BY <1>4, <2>2 DEF ToSet
  <2>3. CASE n \in ToSet(b)
    <3>1. PICK i \in DOMAIN b : b[i] = n
      BY <2>3 DEF ToSet
    <3>2. PICK j \in DOMAIN c : c[j] = n
      BY <1>4, <3>1
    <3>3. QED
      BY <3>2 DEF ToSet
  <2>4. QED
    BY <2>1, <2>2, <2>3
<1>6. ASSUME NEW n \in ToSet(c) PROVE n \in Waiters
  <2>1. PICK i \in DOMAIN c : c[i] = n
    BY DEF ToSet
  <2>2. CASE i \in DOMAIN a
    BY <1>2, <1>4, <2>1, <2>2 DEF ToSet
  <2>3. CASE i - Len(a) \in DOMAIN b /\ c[i] = b[i - Len(a)]
    BY <1>2, <2>1, <2>3 DEF ToSet
  <2>4. QED
    BY <1>4, <2>2, <2>3
<1>7. Distinct(c)
  <2> SUFFICES ASSUME NEW i \in DOMAIN c, NEW j \in DOMAIN c, c[i] = c[j] PROVE i = j
    BY DEF Distinct
  <2>1. ASSUME NEW k \in DOMAIN c
        PROVE  /\ k \in DOMAIN a => c[k] \in Default
               /\ k \notin DOMAIN a => c[k] \notin Default
    <3>1. k \in DOMAIN a => c[k] \in ToSet(a)
      BY <1>4 DEF ToSet
    <3>2. k \notin DOMAIN a => c[k] \in ToSet(b)
      BY <1>4 DEF ToSet
    <3>3. QED
      BY <1>2, <3>1, <3>2
  <2>2. CASE i \in DOMAIN a /\ j \in DOMAIN a
    BY <1>2, <1>4, <2>2 DEF Distinct
  <2>3. CASE i \notin DOMAIN a /\ j \notin DOMAIN a
    <3>1. /\ i - Len(a) \in DOMAIN b /\ j - Len(a) \in DOMAIN b
          /\ b[i - Len(a)] = b[j - Len(a)]
      BY <1>4, <2>3
    <3>2. i - Len(a) = j - Len(a)
      BY <1>2, <3>1 DEF Distinct
    <3>3. QED
      BY <1>4, <3>2
  <2>4. QED
    BY <2>1, <2>2, <2>3
<1>8. ToSet(c) = Waiters
  BY <1>5, <1>6
<1>9. c = Among(pending, Default) \o Among(pending, Node \ Default)
  BY <1>1, <1>3
<1>10. c \in Seq(Node)
  BY <1>4
<1>11. QED
  BY <1>7, <1>8, <1>9, <1>10

\* The loop wakes, hears an interrupt, and cancels its line if it drains.
LEMMA TakeWakeKeeps == ASSUME RunInv, TakeWake PROVE RunInv'
<1> USE DEF Quiet
<1>1. /\ pc = "await" /\ pc' = "top" /\ UNCHANGED LineAside
      /\ queue # << >> /\ Head(queue).kind = "wake"
  BY DEF TakeWake, Receives, LineAside
<1>2. queue \in Seq(Message) /\ Single(queue, "done") /\ StatesSound(queue)
  BY RunTyped DEF RunInv, OneHand, Closures
<1>3. PICK q : q = Tail(queue)
  OBVIOUS
<1>4. /\ q \in Seq(Message) /\ Single(q, "done") /\ StatesSound(q)
      /\ NodesOf(q, "done") = Reported /\ NodesOf(q, "deadline") \subseteq Warned
      /\ Counted(q, live \cup timedOut) = Counted(queue, live \cup timedOut)
  <2>1. Counted(q, live \cup timedOut) \in Nat /\ q \in Seq(Message)
    BY <1>1, <1>2, <1>3, CountedTyped, QueueShrinks
  <2>2. Single(q, "done") /\ StatesSound(q)
    BY <1>1, <1>2, <1>3, QueueShrinks
  <2>3. NodesOf(q, "done") = Reported /\ NodesOf(q, "deadline") \subseteq Warned
    BY <1>1, <1>2, <1>3, QueueShrinks DEF Reported, Warned
  <2>4. Counted(q, live \cup timedOut) = Counted(queue, live \cup timedOut)
    BY <1>1, <1>2, <1>3, <2>1, QueueShrinks
  <2>5. QED
    BY <2>1, <2>2, <2>3, <2>4
<1>5. Points' /\ ~Starting /\ ~Starting' /\ Unoffered' \subseteq Unoffered
  BY <1>1 DEF RunInv, Points, Starting, Unoffered, LineAside
<1>6. CASE draining
  <2>1. queue' = q /\ UNCHANGED <<inFlight, pending, modes>>
    BY <1>3, <1>6 DEF TakeWake
  <2>2. UNCHANGED MessageAside
    BY <1>1, <2>1 DEF MessageAside, LineAside, modes, threads, records
  <2>3. TypeOK'
    BY <1>1, <1>4, <2>1 DEF RunInv, TypeOK, LoopTyped, ThreadsTyped, LineAside, modes, threads,
                            records, outside, Point
  <2>4. /\ Reported' = Reported /\ Warned' \subseteq Warned /\ Warned \subseteq Started
        /\ \A n \in Tracked : timer'[n] # "off" => n \in Started
    BY <1>1, <1>4, <2>1 DEF Reported, Warned, NodesOf, RunInv, Closures, LineAside, threads
  <2>5. QED
    BY <1>4, <1>5, <2>1, <2>2, <2>3, <2>4, MessageKeeps
<1>7. CASE ~draining
  <2>1. \E order \in Seq(Node) :
          /\ Distinct(order) /\ ToSet(order) = Waiters
          /\ queue' = q \o CancelAll(order) /\ inFlight' = inFlight + Len(order)
    <3>1. CASE stopping
      <4>1. pending \in Seq(Node) /\ Distinct(pending) /\ ToSet(pending) = Waiters
        BY RunTyped DEF RunInv, OneHand, Waiters
      <4>2. queue' = q \o CancelAll(pending) /\ inFlight' = inFlight + Len(pending)
        BY <1>3, <1>7, <3>1 DEF TakeWake
      <4>3. QED
        BY <4>1, <4>2
    <3>2. CASE ~stopping
      <4>1. PICK order \in Seq(Node) :
              /\ order = Among(pending, Default) \o Among(pending, Node \ Default)
              /\ Distinct(order) /\ ToSet(order) = Waiters
        BY OrderIsLine
      <4>2. queue' = q \o CancelAll(order) /\ inFlight' = inFlight + Len(order)
        BY <1>3, <1>7, <3>2, <4>1 DEF TakeWake
      <4>3. QED
        BY <4>1, <4>2
    <3>3. QED
      BY <3>1, <3>2
  <2>2. PICK order \in Seq(Node) :
          /\ Distinct(order) /\ ToSet(order) = Waiters
          /\ queue' = q \o CancelAll(order) /\ inFlight' = inFlight + Len(order)
    BY <2>1
  <2>3. queue' = q \o [i \in DOMAIN order |-> Done(order[i], "cancelled", TRUE)]
    BY <2>2 DEF CancelAll, Cancelled
  <2>4. /\ pending' = << >> /\ cancelOrigin' \in {cancelOrigin, trigger}
        /\ draining' = TRUE /\ stopping' = TRUE /\ drainClock' = "armed"
        /\ zombieClock' = zombieClock
    BY <1>7 DEF TakeWake
  <2>5. LoopTyped'
    <3>1. Len(order) \in Nat /\ << >> \in Seq(Node)
      BY LenProperties
    <3>2. QED
      BY <1>1, <2>2, <2>4, <3>1 DEF RunInv, TypeOK, LoopTyped, LineAside, records, outside, Point,
                                    ClockState
  <2>6. "cancelled" \in Reportable
    BY DEF Reportable, StopLike
  <2>7. QED
    BY <1>1, <1>4, <1>5, <2>2, <2>3, <2>4, <2>5, <2>6, WholeLineKeeps
<1>8. QED
  BY <1>6, <1>7

-----------------------------------------------------------------------------
(* Recording what a node ended with.                                        *)

\* A stop cancels the default-rule waiters; the others stay in their order.
LEMMA CancelsSplit ==
    ASSUME RunInv, NEW n, NEW s, NEW closing, NEW closings, NEW marked,
           Conclude(n, s, closing, closings, marked)
    PROVE  \E gone \in Seq(Node) :
             /\ Distinct(gone) /\ ToSet(gone) \subseteq Waiters
             /\ queue' = Tail(queue) \o CancelAll(gone)
             /\ inFlight' = CountDown(inFlight) + Len(gone)
             /\ pending' \in Seq(Node) /\ Distinct(pending)'
             /\ Waiters' = Waiters \ ToSet(gone)
             /\ draining => pending' = << >>
             /\ stopping' => Waiters' \cap Default = {}
<1> DEFINE reclassified == draining /\ terminal[n] = None
           state == IF reclassified THEN "cancelled" ELSE s
           stops == FailureMode = "stop" /\ ~stopping /\ IsFailureLike(state)
<1>1. /\ stopping' = (stopping \/ stops)
      /\ pending' = IF stops THEN Among(pending, Node \ Default) ELSE pending
      /\ \E c : /\ c = IF stops THEN Among(pending, Default) ELSE << >>
                /\ queue' = Tail(queue) \o CancelAll(c) /\ inFlight' = CountDown(inFlight) + Len(c)
  BY DEF Conclude
<1> HIDE DEF stops, state, reclassified
<1>2. /\ pending \in Seq(Node) /\ Distinct(pending) /\ ToSet(pending) = Waiters
      /\ draining => pending = << >>
      /\ stopping => Waiters \cap Default = {}
  BY RunTyped DEF RunInv, OneHand, Waiters, Stops
<1>3. CASE stops
  <2>1. PICK gone, rest : gone = Among(pending, Default) /\ rest = Among(pending, Node \ Default)
    OBVIOUS
  <2>2. /\ gone \in Seq(Node) /\ rest \in Seq(Node) /\ Distinct(gone) /\ Distinct(rest)
        /\ ToSet(gone) = Waiters \cap Default /\ ToSet(rest) = Waiters \ Default
    BY <1>2, <2>1, LineSplits
  <2>3. pending' = rest /\ queue' = Tail(queue) \o CancelAll(gone)
        /\ inFlight' = CountDown(inFlight) + Len(gone)
    BY <1>1, <1>3, <2>1
  <2>4. Waiters' = ToSet(rest) /\ Distinct(pending)'
    BY <2>2, <2>3 DEF Waiters, ToSet, Distinct
  <2>5. draining => rest = << >>
    <3>1. ASSUME draining, rest # << >> PROVE FALSE
      <4>1. 1 \in DOMAIN rest
        BY <2>2, <3>1, TailElements
      <4>2. rest[1] \in ToSet(pending)
        BY <1>2, <2>2, <4>1 DEF ToSet
      <4>3. QED
        BY <1>2, <3>1, <4>2 DEF ToSet
    <3>2. QED
      BY <3>1
  <2>6. Waiters' = Waiters \ ToSet(gone) /\ Waiters' \cap Default = {} /\ ToSet(gone) \subseteq Waiters
    BY <2>2, <2>4
  <2>7. QED
    BY <2>2, <2>3, <2>4, <2>5, <2>6
<1>4. CASE ~stops
  <2>1. << >> \in Seq(Node) /\ Distinct(<< >>) /\ ToSet(<< >>) = {}
    BY DEF Distinct, ToSet
  <2>2. pending' = pending /\ queue' = Tail(queue) \o CancelAll(<< >>)
        /\ inFlight' = CountDown(inFlight) + Len(<< >>)
    BY <1>1, <1>4
  <2>3. stopping' => stopping
    BY <1>1, <1>4
  <2>4. Waiters' = Waiters /\ Distinct(pending)'
    BY <1>2, <2>2 DEF Waiters, ToSet, Distinct
  <2>5. QED
    BY <1>2, <2>1, <2>2, <2>3, <2>4
<1>5. QED
  BY <1>3, <1>4

\* What the loop writes down.
LEMMA ConcludeTyped ==
    ASSUME RunInv, NEW n \in Node, NEW s \in Reportable, NEW closing,
           NEW closings \in Seq(OutcomeRecord), NEW marked \in SUBSET {n},
           Conclude(n, s, closing, closings, marked),
           pending' \in Seq(Node), inFlight' \in Nat
    PROVE  LoopTyped' /\ terminal'[n] # None /\ \A m \in Node \ {n} : terminal'[m] = terminal[m]
<1>1. PICK state \in Reportable, extra \in Seq(OutcomeRecord) :
         /\ terminal' = RecordTerminal(n, state)
         /\ written' = Write(n, state) \/ written' = written
         /\ outcomes' = [outcomes EXCEPT ![n] = @ \o extra]
         /\ candidates' = candidates \cup (IF IsZombieCandidate(state) THEN {n} ELSE {})
  <2>1. CASE draining /\ terminal[n] = None
    <3>1. "cancelled" \in Reportable
      BY DEF Reportable, StopLike
    <3>2. Cut(LastAttempt(closings), "cancelled") \in Seq(OutcomeRecord)
      <4>1. LastAttempt(closings) \in Nat \ {0}
        <5>1. CASE closings = << >>
          BY <5>1 DEF LastAttempt
        <5>2. CASE closings # << >>
          <6>1. Len(closings) \in DOMAIN closings
            BY <5>2, LenProperties, EmptySeq
          <6>2. closings[Len(closings)] \in OutcomeRecord
            BY <6>1, LenProperties, ElementOfSeq
          <6>3. QED
            BY <5>2, <6>2 DEF LastAttempt, OutcomeRecord
        <5>3. QED
          BY <5>1, <5>2
      <4>2. QED
        BY <4>1 DEF Cut, OutcomeRecord
    <3>3. QED
      BY <2>1, <3>1, <3>2 DEF Conclude
  <2>2. CASE ~(draining /\ terminal[n] = None)
    BY <2>2 DEF Conclude
  <2>3. QED
    BY <2>1, <2>2
<1>2. state \in TerminalState /\ state # None
  BY NoneIsNoState
<1>3. /\ terminal \in [Node -> TerminalState \cup {None}]
      /\ written \in [Node -> Seq(TerminalState)] /\ outcomes \in [Node -> Seq(OutcomeRecord)]
      /\ candidates \subseteq Node
  BY DEF RunInv, TypeOK, LoopTyped
<1>4. /\ terminal' \in [Node -> TerminalState \cup {None}] /\ terminal'[n] # None
      /\ \A m \in Node \ {n} : terminal'[m] = terminal[m]
  BY <1>1, <1>2, <1>3 DEF RecordTerminal
<1>5. written' \in [Node -> Seq(TerminalState)]
  <2>1. CASE written' = written
    BY <1>3, <2>1
  <2>2. CASE written' = Write(n, state)
    <3>1. Append(written[n], state) \in Seq(TerminalState)
      BY <1>2, <1>3, AppendProperties
    <3>2. QED
      BY <1>3, <2>2, <3>1 DEF Write
  <2>3. QED
    BY <1>1, <2>1, <2>2
<1>6. outcomes' \in [Node -> Seq(OutcomeRecord)]
  <2>1. outcomes[n] \o extra \in Seq(OutcomeRecord)
    BY <1>3, ConcatProperties
  <2>2. QED
    BY <1>1, <1>3, <2>1
<1>7. candidates' \subseteq Node
  BY <1>1, <1>3
<1>8. /\ timedOut' \subseteq Node /\ live' \subseteq Node /\ stopping' \in BOOLEAN
      /\ cancelOrigin' \in Origin \cup {None} /\ pc' \in Point
      /\ UNCHANGED <<back, agenda, draining, drainClock, zombieClock, outside, atExit>>
  <2>1. /\ timedOut' = timedOut \cup marked /\ live' = live \ {n}
        /\ timedOut \subseteq Node /\ live \subseteq Node
    BY DEF Conclude, RunInv, TypeOK, LoopTyped
  <2>2. stopping' \in BOOLEAN
    BY DEF Conclude, RunInv, TypeOK, LoopTyped
  <2>3. cancelOrigin' \in Origin \cup {None}
    BY DEF Conclude, RunInv, TypeOK, LoopTyped, Origin
  <2>4. /\ pc' \in Point
        /\ UNCHANGED <<back, agenda, draining, drainClock, zombieClock, outside, atExit>>
    BY DEF Conclude, Point
  <2>5. QED
    BY <2>1, <2>2, <2>3, <2>4
<1>9. QED
  BY <1>3, <1>4, <1>5, <1>6, <1>7, <1>8 DEF RunInv, TypeOK, LoopTyped, outside

\* The node is out of the hands of its closure, and what is in flight is one
\* less; the waiters a stop cancelled are answered.
LEMMA ConcludeKeeps ==
    ASSUME RunInv, NEW n \in Offered, NEW s \in Reportable, NEW closing,
           NEW closings \in Seq(OutcomeRecord), NEW marked \in SUBSET {n},
           Conclude(n, s, closing, closings, marked),
           pc = "await", n \notin timedOut, marked \subseteq live,
           UNCHANGED <<runner, attempt, result>>,
           \A m \in Tracked : timer'[m] # "off" => m \in Started,
           Ledger', queue' \in Seq(Message) => ThreadsTyped',
           NEW q \in Seq(Message), q = Tail(queue),
           NodesOf(q, "done") \subseteq Reported, NodesOf(q, "deadline") \subseteq Warned,
           Single(q, "done"), StatesSound(q),
           runner[n] \in Busy => n \in marked,
           inFlight # 0,
           Cardinality(live \ {n}) + Counted(q, (live \ {n}) \cup timedOut \cup marked)
             = inFlight - 1
    PROVE  RunInv'
<1>1. PICK gone \in Seq(Node) :
         /\ Distinct(gone) /\ ToSet(gone) \subseteq Waiters
         /\ queue' = q \o CancelAll(gone)
         /\ inFlight' = CountDown(inFlight) + Len(gone)
         /\ pending' \in Seq(Node) /\ Distinct(pending)'
         /\ Waiters' = Waiters \ ToSet(gone)
         /\ draining => pending' = << >>
         /\ stopping' => Waiters' \cap Default = {}
  BY CancelsSplit
<1>2. /\ timedOut' = timedOut \cup marked /\ live' = live \ {n} /\ pc' = "cascade"
      /\ back' = back /\ agenda' = agenda /\ draining' = draining
  BY DEF Conclude
<1>3. PICK state \in Reportable : NotifyTerminal(n, state)
  <2>1. "cancelled" \in Reportable
    BY DEF Reportable, StopLike
  <2>2. QED
    BY <2>1 DEF Conclude
<1>4. plan' = plan /\ decisions' = << >>
  BY <1>3 DEF NotifyTerminal
<1>5. n \in Node /\ n \in Tracked /\ Tracked' = Tracked /\ Started' = Started /\ Default' = Default
  BY <1>4, RunTyped DEF Tracked, Started, Default, DefaultRule
<1>6. TrackerInv' /\ Offered' = Offered
  <2>1. Justified(n, state) /\ state \in TerminalState
    BY NoneIsNoState DEF Justified, Offered
  <2>2. QED
    BY <1>3, <1>5, <2>1, CallTracks DEF RunInv
<1>7. /\ Waiters \cap Reported = {} /\ Waiters \cap Started = {}
      /\ live \subseteq Started /\ timedOut \subseteq Started
  BY DEF RunInv, OneHand, Closures
<1>8. /\ queue' \in Seq(Message) /\ Reported' = NodesOf(q, "done") \cup ToSet(gone)
      /\ Warned' = NodesOf(q, "deadline")
      /\ Single(queue, "done")' /\ StatesSound(queue)' /\ Len(gone) \in Nat
      /\ \A S : ToSet(gone) \cap S = {} => Counted(queue', S) = Counted(q, S) + Len(gone)
  <2>1. "cancelled" \in Reportable
    BY DEF Reportable, StopLike
  <2>2. ToSet(gone) \cap NodesOf(q, "done") = {}
    BY <1>1, <1>7
  <2>3. queue' = q \o [i \in DOMAIN gone |-> Done(gone[i], "cancelled", TRUE)]
    BY <1>1 DEF CancelAll, Cancelled
  <2>4. QED
    BY <1>1, <2>1, <2>2, <2>3, LineReports
<1>9. inFlight' = inFlight - 1 + Len(gone) /\ inFlight' \in Nat
  <2>1. inFlight - 1 \in Nat /\ CountDown(inFlight) = inFlight - 1
    BY RunTyped DEF CountDown
  <2>2. QED
    BY <1>1, <1>8, <2>1
<1>10. LoopTyped' /\ terminal'[n] # None /\ \A m \in Node \ {n} : terminal'[m] = terminal[m]
  BY <1>1, <1>5, <1>9, ConcludeTyped
<1>11. back = "drain" /\ ~Starting'
  BY <1>2 DEF RunInv, Points, Starting
<1>12. Points'
  BY <1>2, <1>11 DEF Points, Starting
<1>13. OneHand'
  <2>1. Unoffered' = {} /\ ReadyNodes' = {} /\ Single(decisions, "ready")'
    BY <1>2, <1>4, <1>11 DEF Unoffered, ReadyNodes, NodesOf, Single
  <2>2. ASSUME NEW m \in Reported' PROVE runner'[m] \notin Busy
    <3>1. m \in Waiters => m \in Tracked /\ m \notin Started
      BY <1>7, RunTyped
    <3>2. m \in Reported \cup Waiters
      BY <1>1, <1>8
    <3>3. QED
      BY <3>1, <3>2 DEF RunInv, OneHand, Started, Busy
  <2>3. Waiters' \cap Reported' = {} /\ Waiters' \cup Reported' \subseteq Waiters \cup Reported
    BY <1>1, <1>7, <1>8
  <2>4. QED
    BY <1>1, <1>5, <1>6, <1>7, <1>8, <2>1, <2>2, <2>3 DEF RunInv, OneHand
<1>14. Closures'
  <2>1. live' \subseteq Started /\ timedOut' \subseteq Started /\ live' \cap timedOut' = {}
    BY <1>2, <1>7 DEF RunInv, Closures
  <2>2. \A m \in Tracked : runner'[m] \in Busy => m \in live' \cup timedOut'
    BY <1>2 DEF RunInv, Closures
  <2>3. \A m \in Started \ live' : terminal'[m] # None
    BY <1>2, <1>10, RunTyped DEF RunInv, Closures
  <2>4. Warned' \subseteq Started /\ \A m \in Tracked : timer'[m] # "off" => m \in Started
    BY <1>8 DEF RunInv, Closures
  <2>5. QED
    BY <1>5, <1>8, <2>1, <2>2, <2>3, <2>4 DEF Closures
<1>15. InFlight'
  <2>1. live' \cup timedOut' = (live \ {n}) \cup timedOut \cup marked
    BY <1>2
  <2>2. ToSet(gone) \cap (live' \cup timedOut') = {}
    BY <1>1, <1>7, <2>1
  <2>3. Counted(queue', live' \cup timedOut') = Counted(q, live' \cup timedOut') + Len(gone)
    BY <1>8, <2>2
  <2>4. Counted(q, live' \cup timedOut') \in Nat /\ Cardinality(live') \in Nat
    <3>1. live' \subseteq live
      BY <1>2
    <3>2. QED
      BY <3>1, RunTyped, CountedTyped, FS_Subset, FS_CardinalityType
  <2>5. inFlight' = Cardinality(live') + Counted(queue', live' \cup timedOut')
    <3>1. Cardinality(live') + Counted(q, live' \cup timedOut') = inFlight - 1
      BY <1>2, <2>1
    <3>2. QED
      BY <1>8, <1>9, <2>3, <2>4, <3>1, RunTyped
  <2>6. QED
    BY <2>5 DEF InFlight, Counted, Places, Loose
<1>16. Stops' /\ Budget'
  BY <1>1, <1>2, <1>5, <1>11, BudgetStays DEF RunInv, Stops
<1>17. QED
  BY <1>6, <1>8, <1>10, <1>12, <1>13, <1>14, <1>15, <1>16 DEF RunInv, TypeOK

\* One node less.
LEMMA OneLive ==
    ASSUME RunInv, NEW n \in live
    PROVE  Cardinality(live \ {n}) = Cardinality(live) - 1 /\ Cardinality(live) # 0
<1>1. Cardinality(live \ {n}) = Cardinality(live) - 1 /\ IsFiniteSet(live \ {n})
  BY RunTyped, FS_RemoveElement
<1>2. Cardinality(live \ {n}) \in Nat
  BY <1>1, FS_CardinalityType
<1>3. QED
  BY <1>1, <1>2, RunTyped

\* What is in flight, in the terms of the counted messages.
LEMMA InFlightSum ==
    ASSUME RunInv
    PROVE  /\ inFlight = Cardinality(live) + Counted(queue, live \cup timedOut)
           /\ inFlight \in Nat /\ Cardinality(live) \in Nat
BY RunTyped DEF RunInv, InFlight, Counted

\* The loop learns of a deadline before the closure's report.
LEMMA TakeDeadlineKeeps == ASSUME RunInv, TakeDeadline PROVE RunInv'
<1> DEFINE n == Head(queue).node
           C == live \cup timedOut
<1>1. /\ pc = "await" /\ queue # << >> /\ Head(queue).kind = "deadline"
      /\ terminal[n] = None /\ fate' = [fate EXCEPT ![n] = "timed-out"]
      /\ IF n \in permits THEN MarkZombie(n) ELSE UNCHANGED ledger
      /\ Conclude(n, "timed-out", TRUE, Cut(1, "timed-out"), {n})
      /\ TakesInHand(n) /\ UNCHANGED <<runner, attempt, result, filled, buffer>>
  BY DEF TakeDeadline, Receives, Stale
<1>2. queue \in Seq(Message) /\ Single(queue, "done") /\ StatesSound(queue)
  BY RunTyped DEF RunInv, OneHand, Closures
<1>3. n \in Warned
  BY <1>1, <1>2, QueueShrinks DEF Warned
<1> HIDE DEF n
<1>4. n \in live /\ n \notin timedOut /\ n \in Offered /\ n \in Tracked /\ n \in Node
  <2>1. n \in Started
    BY <1>3 DEF RunInv, Closures
  <2>2. QED
    BY <1>1, <2>1, RunTyped DEF RunInv, Closures, OneHand
<1>5. PICK q : q = Tail(queue)
  OBVIOUS
<1>6. /\ q \in Seq(Message) /\ Single(q, "done") /\ StatesSound(q)
      /\ NodesOf(q, "done") = Reported /\ NodesOf(q, "deadline") \subseteq Warned
      /\ Counted(q, C) = Counted(queue, C)
  <2>1. Counted(q, C) \in Nat /\ q \in Seq(Message)
    BY <1>1, <1>2, <1>5, CountedTyped, QueueShrinks
  <2>2. Single(q, "done") /\ StatesSound(q)
    BY <1>1, <1>2, <1>5, QueueShrinks
  <2>3. NodesOf(q, "done") = Reported /\ NodesOf(q, "deadline") \subseteq Warned
    BY <1>1, <1>2, <1>5, QueueShrinks DEF Reported, Warned
  <2>4. Counted(q, C) = Counted(queue, C)
    BY <1>1, <1>2, <1>5, <2>1, QueueShrinks
  <2>5. QED
    BY <2>1, <2>2, <2>3, <2>4
<1>7. timedOut' = timedOut \cup {n} /\ plan' = plan
  BY <1>1 DEF Conclude, NotifyTerminal
<1>8. Ledger'
  <2>1. Charged' = Charged
    BY <1>1, <1>7 DEF Charged, Tracked
  <2>2. QED
    BY <1>1, <1>4, <1>7, <2>1, MarksLedger
<1>9a. /\ timer' \in [Node -> TimerState]
       /\ \A m \in Tracked : timer'[m] # "off" => m \in Started
  <2>1. /\ timer' \in [Node -> TimerState] /\ Tracked \subseteq Node
        /\ \A m \in Node : m # n => timer'[m] = timer[m]
    BY <1>1, RunTyped DEF TakesInHand, TimerState, RunInv, TypeOK, ThreadsTyped
  <2>2. QED
    BY <1>3, <2>1 DEF RunInv, Closures
<1>9. queue' \in Seq(Message) => ThreadsTyped'
  BY <1>1, <1>4, <1>9a DEF RunInv, TypeOK, ThreadsTyped
<1>10. /\ inFlight # 0
       /\ Cardinality(live \ {n}) + Counted(q, (live \ {n}) \cup timedOut \cup {n}) = inFlight - 1
  <2>1. (live \ {n}) \cup timedOut \cup {n} = C
    BY <1>4
  <2>2. Counted(queue, C) \in Nat
    BY <1>2, CountedTyped
  <2>3. Counted(q, (live \ {n}) \cup timedOut \cup {n}) = Counted(queue, C)
    BY <1>6, <2>1
  <2>4. Cardinality(live \ {n}) = Cardinality(live) - 1 /\ Cardinality(live) # 0
    BY <1>4, OneLive
  <2> HIDE DEF C
  <2>5. QED
    BY <2>2, <2>3, <2>4, InFlightSum DEF C
<1>11. "timed-out" \in Reportable /\ Cut(1, "timed-out") \in Seq(OutcomeRecord)
  BY DEF Reportable, ExecutedState, Cut, OutcomeRecord
<1>12. /\ {n} \in SUBSET {n} /\ {n} \subseteq live /\ NodesOf(q, "done") \subseteq Reported
       /\ runner[n] \in Busy => n \in {n}
  BY <1>4, <1>6
<1>13. QED
  BY <1>1, <1>4, <1>5, <1>6, <1>8, <1>9, <1>9a, <1>10, <1>11, <1>12, ConcludeKeeps

\* The loop receives a report, for a node it has decided or has not.
LEMMA TakeReportKeeps == ASSUME RunInv, TakeReport PROVE RunInv'
<1> DEFINE n == Head(queue).node
           C == live \cup timedOut
<1>1. /\ pc = "await" /\ queue # << >> /\ Head(queue).kind = "done" /\ n \notin timedOut
      /\ Conclude(n, Head(queue).state, Head(queue).closing, buffer[n], {})
      /\ UNCHANGED <<ledger, threads>>
  BY DEF TakeReport, Receives, Overtaken
<1>2. queue \in Seq(Message) /\ Single(queue, "done") /\ StatesSound(queue)
  BY RunTyped DEF RunInv, OneHand, Closures
<1>3. n \in Reported /\ Head(queue).state \in Reportable
  BY <1>1, <1>2, QueueShrinks DEF Reported
<1>5. PICK q : q = Tail(queue)
  OBVIOUS
<1>6. /\ q \in Seq(Message) /\ Single(q, "done") /\ StatesSound(q)
      /\ NodesOf(q, "done") = Reported \ {n} /\ NodesOf(q, "deadline") \subseteq Warned
      /\ Counted(q, C) \in Nat
      /\ n \in C => Counted(queue, C) = Counted(q, C)
      /\ n \notin C => Counted(queue, C) = Counted(q, C) + 1
  <2>1. Counted(q, C) \in Nat /\ q \in Seq(Message)
    BY <1>1, <1>2, <1>5, CountedTyped, QueueShrinks
  <2>2. Single(q, "done") /\ StatesSound(q)
    BY <1>1, <1>2, <1>5, QueueShrinks
  <2>3. NodesOf(q, "done") = Reported \ {n} /\ NodesOf(q, "deadline") \subseteq Warned
    BY <1>1, <1>2, <1>5, QueueShrinks DEF Reported, Warned
  <2>4. Counted(queue, C) = Counted(q, C) + (IF n \in C THEN 0 ELSE 1)
    BY <1>1, <1>2, <1>5, QueueShrinks
  <2>5. QED
    BY <2>1, <2>2, <2>3, <2>4
<1> HIDE DEF n
<1>4. n \in Offered /\ n \in Node /\ runner[n] \notin Busy
  BY <1>3, RunTyped DEF RunInv, OneHand
<1>7. plan' = plan /\ timedOut' = timedOut
  BY <1>1 DEF Conclude, NotifyTerminal
<1>8. Ledger'
  <2>1. Charged' = Charged
    BY <1>1, <1>7 DEF Charged, Tracked, threads
  <2>2. QED
    BY <1>1, <1>7, <2>1, LedgerStays DEF RunInv
<1>9. queue' \in Seq(Message) => ThreadsTyped'
  BY <1>1, ThreadsStayTyped DEF RunInv, TypeOK
<1>9a. \A m \in Tracked : timer'[m] # "off" => m \in Started
  BY <1>1 DEF RunInv, Closures, threads
<1>10. /\ inFlight # 0
       /\ Cardinality(live \ {n}) + Counted(q, (live \ {n}) \cup timedOut \cup {}) = inFlight - 1
  <2>1. CASE n \in live
    <3>1. Counted(q, (live \ {n}) \cup timedOut \cup {}) = Counted(q, C)
      BY <1>6, CountedAlike
    <3>2. QED
      BY <1>6, <2>1, <3>1, OneLive, InFlightSum
  <2>2. CASE n \notin live
    <3>1. live \ {n} = live /\ (live \ {n}) \cup timedOut \cup {} = C /\ n \notin C
      BY <1>1, <2>2
    <3>2. /\ Counted(q, (live \ {n}) \cup timedOut \cup {}) = Counted(q, C)
          /\ Cardinality(live \ {n}) = Cardinality(live)
      BY <3>1
    <3>3. inFlight = Cardinality(live) + Counted(q, C) + 1
      BY <1>6, <3>1, InFlightSum
    <3>4. QED
      BY <1>6, <3>2, <3>3, InFlightSum
  <2>3. QED
    BY <2>1, <2>2
<1>11. buffer[n] \in Seq(OutcomeRecord) /\ UNCHANGED <<runner, attempt, result, timer>>
  BY <1>1, <1>4 DEF RunInv, TypeOK, ThreadsTyped, threads
<1>12. QED
  BY <1>1, <1>3, <1>4, <1>5, <1>6, <1>8, <1>9, <1>9a, <1>10, <1>11, ConcludeKeeps

\* A report that was decided without it: the zombie has returned.
LEMMA LateReportKeeps == ASSUME RunInv, TakeLateReport PROVE RunInv'
<1> USE DEF Quiet
<1> DEFINE n == Head(queue).node
           C == live \cup timedOut
<1>1. /\ pc = "await" /\ queue # << >> /\ Head(queue).kind = "done" /\ n \in timedOut
      /\ timedOut' = timedOut \ {n} /\ queue' = Tail(queue) /\ pc' \in {"top", "drain"}
      /\ UNCHANGED <<plan, tracker, call, ledger, threads, back, agenda, records, outside, atExit,
                     inFlight, live, pending, modes>>
  BY DEF TakeLateReport, Receives, Overtaken
<1>2. queue \in Seq(Message) /\ Single(queue, "done") /\ StatesSound(queue)
  BY RunTyped DEF RunInv, OneHand, Closures
<1>3. n \in Reported
  BY <1>1, <1>2, QueueShrinks DEF Reported
<1>4. /\ queue' \in Seq(Message) /\ Single(queue', "done") /\ StatesSound(queue')
      /\ NodesOf(queue', "done") = Reported \ {n} /\ NodesOf(queue', "deadline") \subseteq Warned
      /\ Counted(queue', C) = Counted(queue, C)
  <2>1. Counted(queue', C) \in Nat /\ queue' \in Seq(Message)
    BY <1>1, <1>2, CountedTyped, QueueShrinks
  <2>2. Single(queue', "done") /\ StatesSound(queue')
    BY <1>1, <1>2, QueueShrinks
  <2>3. NodesOf(queue', "done") = Reported \ {n} /\ NodesOf(queue', "deadline") \subseteq Warned
    BY <1>1, <1>2, QueueShrinks DEF Reported, Warned
  <2>4. Counted(queue, C) = Counted(queue', C)
    BY <1>1, <1>2, <2>1, QueueShrinks
  <2>5. QED
    BY <2>1, <2>2, <2>3, <2>4
<1> HIDE DEF n
<1>5. runner[n] \notin Busy /\ n \in Node
  BY <1>3, RunTyped DEF RunInv, OneHand
<1>6. /\ Started' = Started /\ Charged' = Charged /\ Tracked' = Tracked /\ Waiters' = Waiters
      /\ ReadyNodes' = ReadyNodes /\ Single(decisions, "ready")' /\ Distinct(pending)'
      /\ Default' = Default
  BY <1>1 DEF Started, Charged, Tracked, Waiters, ToSet, Distinct, ReadyNodes, NodesOf, Single,
              call, RunInv, OneHand, threads, Default, DefaultRule
<1>7. TrackerInv' /\ Offered' = Offered
  BY <1>1, StillTracks DEF RunInv
<1>8. Reported' = Reported \ {n} /\ Warned' \subseteq Warned
  BY <1>4 DEF Reported, Warned, NodesOf
<1>9. Points' /\ ~Starting' /\ Unoffered' = {}
  BY <1>1 DEF RunInv, Points, Starting, Unoffered
<1>10. OneHand'
  <2>1. Single(queue, "done")' /\ \A m \in Reported' : runner'[m] \notin Busy
    BY <1>1, <1>4, <1>8 DEF RunInv, OneHand, threads, Single
  <2>2. QED
    BY <1>6, <1>7, <1>8, <1>9, <2>1 DEF RunInv, OneHand
<1>11. Closures'
  <2>1. StatesSound(queue)'
    BY <1>4 DEF StatesSound
  <2>2. \A m \in Tracked : runner'[m] \in Busy => m \in live' \cup timedOut'
    BY <1>1, <1>5 DEF RunInv, Closures, threads
  <2>3. QED
    BY <1>1, <1>6, <1>8, <2>1, <2>2 DEF RunInv, Closures, threads, records
<1>12. InFlight'
  <2>1. Counted(queue', live' \cup timedOut') = Counted(queue', C)
    BY <1>1, <1>4, CountedAlike
  <2>2. inFlight' = Cardinality(live') + Counted(queue', live' \cup timedOut')
    BY <1>1, <1>4, <2>1, InFlightSum
  <2>3. QED
    BY <2>2 DEF InFlight, Counted, Places, Loose
<1>13. Ledger'
  <2>1. n \notin permits
    BY <1>5 DEF RunInv, Ledger, Charged, Busy
  <2>2. ToSet(zombies) = (timedOut \ {n}) \cap permits
    BY <2>1 DEF RunInv, Ledger, ZombieUntilReturn
  <2>3. ZombieUntilReturn' /\ Distinct(zombies)'
    BY <1>1, <2>2 DEF RunInv, Ledger, ZombieUntilReturn, ledger, ToSet, Distinct
  <2>4. QED
    BY <1>1, <1>6, <2>3 DEF RunInv, Ledger, ledger, CapacityFollowsThreads, Tokens
<1>14. TypeOK'
  BY <1>1, <1>4 DEF RunInv, TypeOK, LoopTyped, ThreadsTyped, threads, records, modes, outside, Point
<1>15. Stops' /\ Budget'
  BY <1>1, <1>6, <1>9, BudgetStays DEF RunInv, Stops, modes, threads
<1>16. QED
  BY <1>7, <1>9, <1>10, <1>11, <1>12, <1>13, <1>14, <1>15 DEF RunInv

-----------------------------------------------------------------------------
(* The threads beside the loop, and the teardown phase.                     *)

ThreadAside == <<plan, tracker, call, inFlight, live, pending, timedOut, stopping, draining, queue>>

\* A step of a runner, or the end of a deadline, that sends nothing.
LEMMA ThreadKeeps ==
    ASSUME RunInv, UNCHANGED ThreadAside, TypeOK', Points', Ledger', Budget',
           Unoffered' \subseteq Unoffered, Starting' => Starting, Started' = Started,
           \A m \in Tracked : /\ terminal[m] # None => terminal'[m] # None
                              /\ runner'[m] \in Busy => runner[m] \in Busy
                              /\ timer'[m] # "off" => timer[m] # "off"
    PROVE  RunInv'
<1> USE DEF ThreadAside
<1>1. TrackerInv' /\ Offered' = Offered
  BY StillTracks DEF RunInv
<1>2. /\ Waiters' = Waiters /\ Reported' = Reported /\ Warned' = Warned /\ Tracked' = Tracked
      /\ ReadyNodes' = ReadyNodes /\ Default' = Default /\ Distinct(pending)'
      /\ Single(decisions, "ready")' /\ Single(queue, "done")' /\ StatesSound(queue)'
  BY DEF Waiters, Reported, Warned, Tracked, ReadyNodes, NodesOf, ToSet, Default, DefaultRule,
         Distinct, Single, StatesSound, RunInv, OneHand, Closures, call
<1>3. OneHand'
  <2>1. \A m \in Reported : m \in Tracked
    BY RunTyped
  <2>2. QED
    BY <1>1, <1>2, <2>1 DEF RunInv, OneHand
<1>4. Closures'
  <2>1. \A m \in Started : m \in Tracked
    BY DEF Started
  <2>2. QED
    BY <1>2, <2>1 DEF RunInv, Closures
<1>5. InFlight' /\ Stops'
  BY <1>2, InFlightStays DEF RunInv, Stops
<1>6. QED
  BY <1>1, <1>3, <1>4, <1>5 DEF RunInv

\* How a body ends.
LEMMA BodyEndsFacts ==
    ASSUME RunInv, NEW n \in Node, BodyEnds(n)
    PROVE  /\ runner[n] = "body" /\ UNCHANGED <<attempt, timer, queue, ledger>>
           /\ fate' \in [Node -> {"running", "completed", "timed-out"}] /\ filled' \subseteq Node
           /\ buffer' \in [Node -> Seq(OutcomeRecord)]
           /\ \/ /\ runner' = [runner EXCEPT ![n] = "backoff"]
                 /\ attempt[n] < MaxAttempts[n] /\ result' = result
              \/ /\ runner' = [runner EXCEPT ![n] = "finishing"]
                 /\ \E s \in ExecutedState : result' = [result EXCEPT ![n] = s]
<1> USE AttemptsAssumption
<1>1. /\ runner[n] = "body" /\ UNCHANGED <<attempt, timer, queue, ledger>>
  BY DEF BodyEnds, BodyReturns, BodyTimesOut, BodyReturnsLate, BodyPanics
<1>2. /\ fate \in [Node -> {"running", "completed", "timed-out"}] /\ filled \subseteq Node
      /\ buffer \in [Node -> Seq(OutcomeRecord)] /\ attempt[n] \in Nat \ {0}
  BY <1>1 DEF RunInv, TypeOK, ThreadsTyped, Budget, Busy
<1>3. fate' \in [Node -> {"running", "completed", "timed-out"}] /\ filled' \subseteq Node
  <2>1. CASE \E s \in BodyResult : BodyReturns(n, s)
    BY <1>2, <2>1 DEF BodyReturns
  <2>2. CASE BodyTimesOut(n) \/ BodyReturnsLate(n) \/ BodyPanics(n)
    BY <1>2, <2>2 DEF BodyTimesOut, BodyReturnsLate, BodyPanics
  <2>3. QED
    BY <2>1, <2>2 DEF BodyEnds
<1>4. PICK s \in ExecutedState : Closes(n, s)
  <2>1. "failed" \in ExecutedState /\ "timed-out" \in ExecutedState
    BY DEF ExecutedState
  <2>2. QED
    BY <2>1 DEF BodyEnds, BodyReturns, BodyTimesOut, BodyReturnsLate, BodyPanics
<1>5. buffer' \in [Node -> Seq(OutcomeRecord)]
  <2>1. Closing(n, s) \in OutcomeRecord
    BY <1>2 DEF Closing, OutcomeRecord, ExecutedState
  <2>2. PICK e \in OutcomeRecord : e = Closing(n, s)
    BY <2>1
  <2>3. Append(buffer[n], e) \in Seq(OutcomeRecord)
    BY <1>2, AppendProperties
  <2>4. buffer' = [buffer EXCEPT ![n] = Append(buffer[n], e)]
    BY <1>2, <1>4, <2>2 DEF Closes
  <2>5. QED
    BY <1>2, <2>3, <2>4
<1>6. \/ BacksOff(n) \/ \E t \in ExecutedState : Settles(n, t)
  <2>1. "failed" \in ExecutedState /\ "timed-out" \in ExecutedState
    BY DEF ExecutedState
  <2>2. QED
    BY <2>1 DEF BodyEnds, BodyReturns, BodyTimesOut, BodyReturnsLate, BodyPanics
<1>7. QED
  BY <1>1, <1>3, <1>5, <1>6 DEF BacksOff, RetriesLeft, Settles

\* What the loop has typed stays typed beside it.
LEMMA LoopStands ==
    ASSUME RunInv, UNCHANGED <<plan, loop>>
    PROVE  /\ LoopTyped' /\ Points' /\ Unoffered' = Unoffered /\ Starting' = Starting
           /\ terminal' = terminal /\ UNCHANGED <<inFlight, live, pending, timedOut, stopping, draining>>
<1> USE DEF loop, control, records, counts, modes, outside
<1>1. LoopTyped'
  BY DEF RunInv, TypeOK, LoopTyped
<1>2. Points' /\ Unoffered' = Unoffered /\ Starting' = Starting
  BY DEF RunInv, Points, Unoffered, Starting, InitialReady, InitialCount, Tracked
<1>3. QED
  BY <1>1, <1>2

\* An attempt's body ends.
LEMMA BodyEndsKeeps ==
    ASSUME RunInv, NEW n \in Node, BodyEnds(n), UNCHANGED <<plan, tracker, call, loop>>
    PROVE  RunInv'
<1>1. /\ LoopTyped' /\ Points' /\ Unoffered' = Unoffered /\ Starting' = Starting
      /\ terminal' = terminal /\ UNCHANGED ThreadAside
  BY LoopStands, BodyEndsFacts DEF ThreadAside
<1>2. /\ runner[n] = "body" /\ UNCHANGED <<attempt, timer, queue, ledger>>
      /\ fate' \in [Node -> {"running", "completed", "timed-out"}] /\ filled' \subseteq Node
      /\ buffer' \in [Node -> Seq(OutcomeRecord)]
  BY BodyEndsFacts
<1>3. PICK to \in {"backoff", "finishing"} :
         /\ runner' = [runner EXCEPT ![n] = to]
         /\ to = "backoff" => attempt[n] < MaxAttempts[n] /\ result' = result
         /\ to = "finishing" => \E s \in ExecutedState : result' = [result EXCEPT ![n] = s]
  BY BodyEndsFacts
<1>4. runner \in [Node -> RunnerState] /\ result \in [Node -> ExecutedState \cup {None}]
  BY DEF RunInv, TypeOK, ThreadsTyped
<1>5. /\ runner' \in [Node -> RunnerState] /\ result' \in [Node -> ExecutedState \cup {None}]
      /\ runner'[n] = to /\ \A m \in Node \ {n} : runner'[m] = runner[m] /\ result'[m] = result[m]
      /\ to = "finishing" => result'[n] \in ExecutedState
  BY <1>3, <1>4 DEF RunnerState
<1>6. TypeOK'
  BY <1>1, <1>2, <1>5 DEF RunInv, TypeOK, ThreadsTyped
<1>7. Started' = Started /\ Charged' = Charged
  <2>1. \A m \in Tracked : m \in Node
    BY RunTyped
  <2>2. \A m \in Node : /\ runner'[m] \notin {"waiting", "absent"} <=> runner[m] \notin {"waiting", "absent"}
                        /\ runner'[m] \in {"body", "backoff", "finishing", "unwound"}
                             <=> runner[m] \in {"body", "backoff", "finishing", "unwound"}
    BY <1>2, <1>3, <1>5
  <2>3. QED
    BY <1>1, <2>1, <2>2 DEF Started, Charged, Tracked, ThreadAside
<1>8. Ledger'
  BY <1>1, <1>2, <1>7, LedgerStays DEF RunInv, ThreadAside
<1>9. Budget'
  BY <1>2, <1>3, <1>5 DEF RunInv, Budget, Busy
<1>10. \A m \in Tracked : runner'[m] \in Busy => runner[m] \in Busy
  BY <1>2, <1>3, <1>5, RunTyped DEF Busy
<1>11. QED
  BY <1>1, <1>2, <1>6, <1>7, <1>8, <1>9, <1>10, ThreadKeeps

\* A runner in its backoff starts the next attempt.
LEMMA NextAttemptKeeps ==
    ASSUME RunInv, NEW n \in Node, NextAttempt(n), UNCHANGED <<plan, tracker, call, loop>>
    PROVE  RunInv'
<1> USE DEF NextAttempt
<1>1. /\ LoopTyped' /\ Points' /\ Unoffered' = Unoffered /\ Starting' = Starting
      /\ terminal' = terminal /\ UNCHANGED ThreadAside
  BY LoopStands DEF ThreadAside
<1>2. runner[n] = "backoff" /\ UNCHANGED <<result, timer, filled, buffer, queue, ledger>>
  OBVIOUS
<1>3. /\ runner \in [Node -> RunnerState] /\ attempt \in [Node -> Nat]
      /\ fate \in [Node -> {"running", "completed", "timed-out"}]
      /\ \A m \in Node : attempt[m] <= MaxAttempts[m]
      /\ attempt[n] < MaxAttempts[n] /\ MaxAttempts[n] \in Nat
  BY <1>2, AttemptsAssumption DEF RunInv, TypeOK, ThreadsTyped, Budget
<1>4. /\ runner' \in [Node -> RunnerState] /\ fate' \in [Node -> {"running", "completed", "timed-out"}]
      /\ runner'[n] = "body" /\ \A m \in Node \ {n} : runner'[m] = runner[m]
  BY <1>3 DEF RunnerState
<1>5. /\ attempt' \in [Node -> Nat] /\ attempt'[n] = attempt[n] + 1
      /\ \A m \in Node \ {n} : attempt'[m] = attempt[m]
  <2>1. attempt' = [attempt EXCEPT ![n] = attempt[n] + 1] /\ attempt[n] + 1 \in Nat
    BY <1>3
  <2>2. QED
    BY <1>3, <2>1
<1>6. \A m \in Node : attempt'[m] <= MaxAttempts[m]
  BY <1>3, <1>5
<1>7. TypeOK'
  BY <1>1, <1>2, <1>4, <1>5, <1>6 DEF RunInv, TypeOK, ThreadsTyped
<1>8. Started' = Started /\ Charged' = Charged
  <2>1. \A m \in Tracked : m \in Node
    BY RunTyped
  <2>2. \A m \in Node : /\ runner'[m] \notin {"waiting", "absent"} <=> runner[m] \notin {"waiting", "absent"}
                        /\ runner'[m] \in {"body", "backoff", "finishing", "unwound"}
                             <=> runner[m] \in {"body", "backoff", "finishing", "unwound"}
    BY <1>2, <1>4
  <2>3. QED
    BY <1>1, <2>1, <2>2 DEF Started, Charged, Tracked, ThreadAside
<1>9. Ledger'
  BY <1>1, <1>2, <1>8, LedgerStays DEF RunInv, ThreadAside
<1>10. Budget'
  BY <1>2, <1>3, <1>4, <1>5 DEF RunInv, Budget, Busy
<1>11. \A m \in Tracked : runner'[m] \in Busy => runner[m] \in Busy
  BY <1>2, <1>4, RunTyped DEF Busy
<1>12. QED
  BY <1>1, <1>2, <1>7, <1>8, <1>9, <1>10, <1>11, ThreadKeeps

\* A runner leaves its thread, or a deadline lets go of one that panicked, and
\* the permit drops.
LEMMA LeavesKeeps ==
    ASSUME RunInv, NEW n \in Tracked, DropPermit(n), NEW to \in {"returned", "gone"},
           runner[n] \in {"body", "finishing", "unwound"}, runner' = [runner EXCEPT ![n] = to],
           result' \in [Node -> ExecutedState \cup {None}],
           \A m \in Node \ {n} : result'[m] = result[m],
           to = "returned" => result'[n] \in ExecutedState,
           timer' \in [Node -> TimerState],
           \A m \in Tracked : timer'[m] # "off" => timer[m] # "off",
           UNCHANGED <<attempt, fate, filled, buffer, queue>>,
           UNCHANGED <<plan, tracker, call, loop>>
    PROVE  RunInv'
<1>1. /\ LoopTyped' /\ Points' /\ Unoffered' = Unoffered /\ Starting' = Starting
      /\ terminal' = terminal /\ UNCHANGED ThreadAside
  BY LoopStands DEF ThreadAside
<1>2. n \in Node /\ runner \in [Node -> RunnerState] /\ \A m \in Tracked : m \in Node
  BY RunTyped
<1>3. /\ runner' \in [Node -> RunnerState]
      /\ runner'[n] = to /\ \A m \in Node \ {n} : runner'[m] = runner[m]
  BY <1>2 DEF RunnerState
<1>4. TypeOK'
  BY <1>1, <1>3 DEF RunInv, TypeOK, ThreadsTyped
<1>5. Started' = Started /\ Charged' = Charged \ {n}
  BY <1>1, <1>2, <1>3 DEF Started, Charged, Tracked, ThreadAside
<1>6. Ledger'
  BY <1>1, <1>5, DropsLedger DEF ThreadAside
<1>7. Budget'
  BY <1>3 DEF RunInv, Budget, Busy
<1>8. \A m \in Tracked : runner'[m] \in Busy => runner[m] \in Busy
  BY <1>2, <1>3 DEF Busy
<1>9. QED
  BY <1>1, <1>4, <1>5, <1>6, <1>7, <1>8, ThreadKeeps

\* A closure whose inputs are not there panics before its body.
LEMMA InputsPanicKeeps ==
    ASSUME RunInv, NEW n \in Tracked, InputsPanic(n), UNCHANGED <<plan, tracker, call, loop>>
    PROVE  RunInv'
<1>1. /\ result' = result /\ result \in [Node -> ExecutedState \cup {None}]
      /\ timer' = timer /\ timer \in [Node -> TimerState]
  BY DEF InputsPanic, RunInv, TypeOK, ThreadsTyped
<1>2. CASE timer[n] \in {"off", "over"}
  BY <1>1, <1>2, LeavesKeeps DEF InputsPanic
<1>3. CASE timer[n] \notin {"off", "over"}
  <2>1. /\ LoopTyped' /\ Points' /\ Unoffered' = Unoffered /\ Starting' = Starting
        /\ terminal' = terminal /\ UNCHANGED ThreadAside
    BY LoopStands DEF ThreadAside, InputsPanic
  <2>2. /\ runner[n] = "body" /\ runner' = [runner EXCEPT ![n] = "unwound"]
        /\ UNCHANGED <<attempt, result, fate, timer, filled, buffer, queue, ledger>>
    BY <1>3 DEF InputsPanic
  <2>3. /\ n \in Node /\ runner \in [Node -> RunnerState] /\ \A m \in Tracked : m \in Node
        /\ runner'[n] = "unwound" /\ \A m \in Node \ {n} : runner'[m] = runner[m]
    BY <2>2, RunTyped
  <2>4. TypeOK'
    <3>1. runner' \in [Node -> RunnerState]
      BY <2>2, <2>3 DEF RunnerState
    <3>2. QED
      BY <2>1, <2>2, <3>1 DEF RunInv, TypeOK, ThreadsTyped
  <2>5. Started' = Started /\ Charged' = Charged
    BY <2>1, <2>2, <2>3 DEF Started, Charged, Tracked, ThreadAside
  <2>6. Ledger'
    BY <2>1, <2>2, <2>5, LedgerStays DEF RunInv, ThreadAside
  <2>7. Budget'
    BY <2>2, <2>3 DEF RunInv, Budget, Busy
  <2>8. \A m \in Tracked : runner'[m] \in Busy => runner[m] \in Busy
    BY <2>2, <2>3 DEF Busy
  <2>9. QED
    BY <2>1, <2>2, <2>4, <2>5, <2>6, <2>7, <2>8, ThreadKeeps
<1>4. QED
  BY <1>2, <1>3

\* The loop lets go of a deadline's message.
LEMMA DropMessageKeeps == ASSUME RunInv, DropMessage PROVE RunInv'
<1>1. PICK n \in Tracked : DropsMessage(n) /\ UNCHANGED <<plan, tracker, call, loop>>
  BY DEF DropMessage
<1>2. /\ timer[n] = "in-hand" /\ timer' = [timer EXCEPT ![n] = "over"]
      /\ UNCHANGED <<attempt, result, fate, filled, buffer, queue>>
  BY <1>1 DEF DropsMessage
<1>3. /\ timer \in [Node -> TimerState] /\ result \in [Node -> ExecutedState \cup {None}]
      /\ timer' \in [Node -> TimerState] /\ n \in Node /\ Tracked \subseteq Node
      /\ \A m \in Tracked : timer'[m] # "off" => timer[m] # "off"
  BY <1>2, RunTyped DEF TimerState, RunInv, TypeOK, ThreadsTyped
<1>4. CASE runner[n] = "unwound"
  <2>1. runner' = [runner EXCEPT ![n] = "gone"] /\ DropPermit(n)
    BY <1>1, <1>4 DEF DropsMessage
  <2>2. QED
    BY <1>1, <1>2, <1>3, <1>4, <2>1, LeavesKeeps
<1>5. CASE runner[n] # "unwound"
  <2>1. UNCHANGED <<runner, ledger>>
    BY <1>1, <1>5 DEF DropsMessage
  <2>2. /\ LoopTyped' /\ Points' /\ Unoffered' = Unoffered /\ Starting' = Starting
        /\ terminal' = terminal /\ UNCHANGED ThreadAside
    BY <1>1, <1>2, LoopStands DEF ThreadAside
  <2>3. TypeOK'
    BY <1>2, <1>3, <2>1, <2>2 DEF RunInv, TypeOK, ThreadsTyped
  <2>4. Started' = Started /\ Charged' = Charged
    BY <2>1, <2>2 DEF Started, Charged, Tracked, ThreadAside
  <2>5. Ledger' /\ Budget'
    BY <1>2, <2>1, <2>2, <2>4, LedgerStays, BudgetStays DEF RunInv, ThreadAside
  <2>6. QED
    BY <1>3, <2>1, <2>2, <2>3, <2>4, <2>5, ThreadKeeps
<1>6. QED
  BY <1>4, <1>5

\* A runner settles its result and gives its permit back.
LEMMA FinishKeeps ==
    ASSUME RunInv, NEW n \in Tracked, Finish(n), UNCHANGED <<plan, tracker, call, loop>>
    PROVE  RunInv'
<1>1. n \in Node /\ result \in [Node -> ExecutedState \cup {None}] /\ result[n] \in ExecutedState
  BY RunTyped DEF Finish, RunInv, TypeOK, ThreadsTyped, Budget
<1>2. "timed-out" \in ExecutedState
  BY DEF ExecutedState
<1>3. PICK s \in ExecutedState : result' = [result EXCEPT ![n] = s]
  BY <1>1, <1>2 DEF Finish
<1>4. /\ result' \in [Node -> ExecutedState \cup {None}] /\ result'[n] \in ExecutedState
      /\ \A m \in Node \ {n} : result'[m] = result[m]
  BY <1>1, <1>3
<1>5. timer' = timer /\ timer \in [Node -> TimerState]
  BY DEF Finish, RunInv, TypeOK, ThreadsTyped
<1>6. QED
  BY <1>4, <1>5, LeavesKeeps DEF Finish

\* The report of a closure: the loop counts it as it counted the closure.
LEMMA ReportKeeps ==
    ASSUME RunInv, NEW n \in Tracked, Report(n), UNCHANGED <<plan, tracker, call, loop>>
    PROVE  RunInv'
<1> USE DEF Report
<1>1. /\ LoopTyped' /\ Points' /\ Unoffered' = Unoffered /\ Starting' = Starting
      /\ terminal' = terminal /\ UNCHANGED <<inFlight, live, pending, timedOut, stopping, draining>>
  BY LoopStands
<1>2. /\ n \in Node /\ runner \in [Node -> RunnerState] /\ \A m \in Tracked : m \in Node
      /\ runner[n] \in Busy /\ UNCHANGED <<attempt, result, timer, ledger>>
  BY RunTyped DEF Busy
<1>3. /\ runner' \in [Node -> RunnerState]
      /\ runner'[n] = "gone" /\ \A m \in Node \ {n} : runner'[m] = runner[m]
  BY <1>2 DEF RunnerState
<1>4. n \in Started /\ n \notin Reported /\ n \in live \cup timedOut
  BY <1>2 DEF Started, RunInv, OneHand, Closures
<1>5. result[n] \in Reportable
  BY <1>2 DEF RunInv, Budget, Reportable
<1>6. /\ queue' \in Seq(Message) /\ Reported' = Reported \cup {n} /\ Warned' = Warned
      /\ Single(queue, "done")' /\ StatesSound(queue)'
      /\ Counted(queue', live \cup timedOut) = Counted(queue, live \cup timedOut)
  BY <1>2, <1>4, <1>5, ReportJoins
<1>7. TypeOK'
  BY <1>1, <1>3, <1>6 DEF RunInv, TypeOK, ThreadsTyped
<1>8. /\ Started' = Started /\ Charged' = Charged /\ Tracked' = Tracked /\ Waiters' = Waiters
      /\ ReadyNodes' = ReadyNodes /\ Single(decisions, "ready")' /\ Distinct(pending)'
      /\ Default' = Default
  BY <1>1, <1>2, <1>3 DEF Started, Charged, Tracked, Waiters, ToSet, Distinct, ReadyNodes,
              NodesOf, Single, call, RunInv, OneHand, Default, DefaultRule
<1>9. TrackerInv' /\ Offered' = Offered
  BY StillTracks DEF RunInv
<1>10. OneHand'
  <2>1. \A m \in Reported' : runner'[m] \notin Busy
    BY <1>2, <1>3, <1>6, RunTyped DEF RunInv, OneHand, Busy
  <2>2. /\ n \notin Unoffered /\ n \notin ReadyNodes /\ n \notin Waiters /\ n \in Offered
    BY <1>4 DEF RunInv, OneHand
  <2>3. QED
    BY <1>1, <1>6, <1>8, <1>9, <2>1, <2>2 DEF RunInv, OneHand
<1>11. Closures'
  <2>1. \A m \in Tracked : runner'[m] \in Busy => m \in live \cup timedOut
    BY <1>2, <1>3 DEF RunInv, Closures, Busy
  <2>2. QED
    BY <1>1, <1>2, <1>6, <1>8, <2>1 DEF RunInv, Closures
<1>12. InFlight'
  <2>1. inFlight' = Cardinality(live') + Counted(queue', live' \cup timedOut')
    BY <1>1, <1>6, InFlightSum
  <2>2. QED
    BY <2>1 DEF InFlight, Counted, Places, Loose
<1>13. Ledger' /\ Stops'
  BY <1>1, <1>2, <1>8, LedgerStays DEF RunInv, Stops
<1>14. Budget'
  BY <1>2, <1>3 DEF RunInv, Budget, Busy
<1>15. QED
  BY <1>1, <1>7, <1>9, <1>10, <1>11, <1>12, <1>13, <1>14 DEF RunInv

\* Any step of a main-graph node's threads.
LEMMA ThreadStepKeeps ==
    ASSUME RunInv, NEW n \in Tracked, Beside(ThreadStep(n)) PROVE RunInv'
<1>1. n \in Node /\ ThreadStep(n) /\ UNCHANGED <<plan, tracker, call, loop>>
  BY RunTyped DEF Beside
<1>2. QED
  BY <1>1, BodyEndsKeeps, NextAttemptKeeps, InputsPanicKeeps, FinishKeeps, ReportKeeps, TimerKeeps
     DEF ThreadStep, AfterBody

\* Any step of a teardown node's body.
LEMMA TeardownBodyKeeps ==
    ASSUME RunInv, NEW n \in plan.teardown, Beside(BodyEnds(n) \/ NextAttempt(n)) PROVE RunInv'
<1>1. n \in Node /\ UNCHANGED <<plan, tracker, call, loop>>
  BY RunTyped DEF Beside
<1>2. QED
  BY <1>1, BodyEndsKeeps, NextAttemptKeeps DEF Beside

\* The teardown nodes are no nodes of the main graph.
LEMMA CleaningFacts ==
    ASSUME RunInv, InTeardown
    PROVE  /\ Cleaning \in Node /\ Cleaning \notin Tracked /\ Cleaning \in agenda
           /\ pc = "teardown" /\ agenda \subseteq plan.teardown /\ Unoffered = {} /\ ~Starting
<1>1. agenda \subseteq Node /\ agenda # {} /\ pc = "teardown" /\ agenda \subseteq plan.teardown
  BY DEF RunInv, TypeOK, LoopTyped, InTeardown, Points
<1>2. Cleaning \in agenda
  BY <1>1, LowestIsNode DEF Cleaning
<1>3. QED
  BY <1>1, <1>2 DEF Tracked, Unoffered, Starting

\* The teardown phase starts the body of its next node.
LEMMA TeardownStartsKeeps == ASSUME RunInv, TeardownStarts PROVE RunInv'
<1> USE DEF TeardownStarts, Dispatch
<1>1. PICK n \in Node \ Tracked : n = Cleaning
  BY CleaningFacts
<1>2. /\ LoopTyped' /\ Points' /\ Unoffered' = Unoffered /\ Starting' = Starting
      /\ terminal' = terminal /\ UNCHANGED ThreadAside
  BY LoopStands DEF ThreadAside
<1>3. /\ runner \in [Node -> RunnerState] /\ attempt \in [Node -> Nat]
      /\ timer \in [Node -> TimerState]
      /\ \A m \in Node : attempt[m] <= MaxAttempts[m]
      /\ MaxAttempts[n] \in Nat \ {0} /\ Tracked \subseteq Node
  BY AttemptsAssumption, RunTyped DEF RunInv, TypeOK, ThreadsTyped
<1>4. /\ runner' \in [Node -> RunnerState]
      /\ runner'[n] = "body" /\ \A m \in Node \ {n} : runner'[m] = runner[m]
  BY <1>1, <1>3 DEF RunnerState
<1>5. /\ timer' \in [Node -> TimerState]
      /\ \A m \in Node \ {n} : timer'[m] = timer[m]
  BY <1>1, <1>3 DEF TimerState
<1>6. /\ attempt' \in [Node -> Nat] /\ attempt'[n] = 1
      /\ \A m \in Node \ {n} : attempt'[m] = attempt[m]
  <2>1. attempt' = [m \in Node |-> IF m = n THEN 1 ELSE attempt[m]]
    BY <1>1, <1>3
  <2>2. \A m \in Node : (IF m = n THEN 1 ELSE attempt[m]) \in Nat
    BY <1>3
  <2>3. attempt' \in [Node -> Nat]
    BY <2>1, <2>2
  <2>4. QED
    BY <2>1, <2>3
<1>7. \A m \in Node : attempt'[m] <= MaxAttempts[m]
  BY <1>3, <1>6
<1>8. TypeOK'
  BY <1>2, <1>4, <1>5, <1>6, <1>7 DEF RunInv, TypeOK, ThreadsTyped
<1>9. Started' = Started /\ Charged' = Charged
  BY <1>1, <1>2, <1>3, <1>4 DEF Started, Charged, Tracked, ThreadAside
<1>10. Ledger'
  BY <1>2, <1>9, LedgerStays DEF RunInv, ThreadAside
<1>11. Budget'
  BY <1>1, <1>4, <1>6 DEF RunInv, Budget, Busy
<1>12. \A m \in Tracked : /\ runner'[m] \in Busy => runner[m] \in Busy
                          /\ timer'[m] = timer[m]
  BY <1>1, <1>3, <1>4, <1>5
<1>13. QED
  BY <1>2, <1>8, <1>9, <1>10, <1>11, <1>12, ThreadKeeps

\* The teardown phase records its node and goes on to the next.
LEMMA CleanedUpKeeps ==
    ASSUME RunInv, InTeardown, NEW s \in TerminalState, NEW closings \in Seq(OutcomeRecord),
           CleanedUp(s, closings)
    PROVE  RunInv'
<1> USE DEF CleanedUp, counts, modes, outside
<1>1. PICK n \in Node \ Tracked : n = Cleaning /\ n \in agenda
  BY CleaningFacts
<1>2. /\ pc = "teardown" /\ agenda' = agenda \ {n} /\ agenda' \subseteq agenda
      /\ runner' = [runner EXCEPT ![n] = "gone"]
      /\ terminal' = RecordTerminal(n, s) /\ written' = Write(n, s)
      /\ outcomes' = [outcomes EXCEPT ![n] = @ \o closings]
      /\ UNCHANGED <<plan, tracker, call, ledger, attempt, result, fate, timer, filled,
                   buffer, queue, pc, back, candidates, counts, modes, outside, atExit>>
  BY <1>1 DEF InTeardown
<1> HIDE DEF CleanedUp
<1>3. UNCHANGED ThreadAside
  BY <1>2 DEF ThreadAside
<1>4. /\ runner' \in [Node -> RunnerState] /\ Tracked \subseteq Node
      /\ runner'[n] = "gone" /\ \A m \in Node \ {n} : runner'[m] = runner[m]
  BY <1>2, RunTyped DEF RunnerState
<1>5. /\ terminal' \in [Node -> TerminalState \cup {None}]
      /\ \A m \in Node \ {n} : terminal'[m] = terminal[m]
  BY <1>2 DEF RunInv, TypeOK, LoopTyped, RecordTerminal
<1>6. written' \in [Node -> Seq(TerminalState)] /\ outcomes' \in [Node -> Seq(OutcomeRecord)]
  <2>1. written \in [Node -> Seq(TerminalState)] /\ outcomes \in [Node -> Seq(OutcomeRecord)]
    BY DEF RunInv, TypeOK, LoopTyped
  <2>2. Append(written[n], s) \in Seq(TerminalState)
    BY <2>1, AppendProperties
  <2>3. outcomes[n] \o closings \in Seq(OutcomeRecord)
    BY <2>1, ConcatProperties
  <2>4. QED
    BY <1>2, <2>1, <2>2, <2>3 DEF Write
<1>7. TypeOK'
  BY <1>2, <1>4, <1>5, <1>6 DEF RunInv, TypeOK, LoopTyped, ThreadsTyped
<1>8. Points' /\ Unoffered' = {} /\ ~Starting'
  BY <1>2 DEF RunInv, Points, Unoffered, Starting
<1>9. Started' = Started /\ Charged' = Charged
  BY <1>1, <1>2, <1>4 DEF Started, Charged, Tracked
<1>10. Ledger'
  BY <1>2, <1>9, LedgerStays DEF RunInv
<1>11. Budget'
  BY <1>1, <1>2, <1>4 DEF RunInv, Budget, Busy
<1>12. \A m \in Tracked : /\ terminal[m] # None => terminal'[m] # None
                          /\ runner'[m] \in Busy => runner[m] \in Busy
  BY <1>1, <1>4, <1>5
<1>13. QED
  BY <1>2, <1>3, <1>7, <1>8, <1>9, <1>10, <1>11, <1>12, ThreadKeeps

\* A teardown node ends, by itself or at its deadline.
LEMMA TeardownEndsKeeps == ASSUME RunInv, TeardownEnds \/ TeardownDeadline PROVE RunInv'
<1>1. InTeardown
  BY DEF TeardownEnds, TeardownDeadline
<1>2. Cleaning \in Node
  BY <1>1, CleaningFacts
<1>3. CASE TeardownEnds
  <2>1. result[Cleaning] \in TerminalState /\ buffer[Cleaning] \in Seq(OutcomeRecord)
    BY <1>2, <1>3, NoneIsNoState DEF TeardownEnds, RunInv, TypeOK, ThreadsTyped, Budget, Reportable
  <2>2. QED
    BY <1>1, <1>3, <2>1, CleanedUpKeeps DEF TeardownEnds
<1>4. CASE TeardownDeadline
  <2>1. "abandoned" \in TerminalState /\ Cut(attempt[Cleaning], "abandoned") \in Seq(OutcomeRecord)
    BY <1>2, <1>4 DEF TeardownDeadline, RunInv, TypeOK, ThreadsTyped, Budget, Busy, Cut,
                      OutcomeRecord, TerminalState, FailureLike
  <2>2. QED
    BY <1>1, <1>4, <2>1, CleanedUpKeeps DEF TeardownDeadline
<1>5. QED
  BY <1>3, <1>4

-----------------------------------------------------------------------------
(* The invariant.                                                           *)

\* At the start everything tracked waits, nothing is charged and nothing is in
\* flight.
LEMMA InitRuns == Init => RunInv
<1> SUFFICES ASSUME Init PROVE RunInv
  OBVIOUS
<1> USE DEF Init, InitLedger, InitAttempts
<1>1. TrackerInv /\ Offered = InitialReady
  BY InitTracks
<1>2. plan \in Plans /\ plan.satisfied \subseteq Node /\ decisions = << >>
  BY <1>1, PlansAssumption DEF InitTracker, TrackerInv, TrackerTypeOK, PipelineType
<1>3. TypeOK
  <2>1. LoopTyped
    <3>1. /\ terminal \in [Node -> TerminalState \cup {None}]
          /\ written \in [Node -> Seq(TerminalState)] /\ outcomes \in [Node -> Seq(OutcomeRecord)]
      OBVIOUS
    <3>2. requests \in 0..MaxRequests
      BY RunLoopAssumption
    <3>3. pending \in Seq(Node)
      OBVIOUS
    <3>4. QED
      BY <3>1, <3>2, <3>3 DEF LoopTyped, Point, ClockState
  <2>2. ThreadsTyped
    <3>1. \A m \in Node : MaxAttempts[m] \in Nat \ {0}
      BY AttemptsAssumption
    <3>2. attempt \in [Node -> Nat] /\ \A m \in Node : attempt[m] <= MaxAttempts[m]
      BY <3>1
    <3>3. QED
      BY <1>2, <3>2 DEF ThreadsTyped, RunnerState, TimerState
  <2>3. QED
    BY <2>1, <2>2 DEF TypeOK
<1>4. Started = {} /\ Charged = {} /\ Tracked \subseteq Node
  BY DEF Started, Charged, Tracked
<1>5. /\ Waiters = {} /\ Reported = {} /\ Warned = {} /\ ReadyNodes = {}
      /\ Single(queue, "done") /\ Single(decisions, "ready") /\ StatesSound(queue)
      /\ Distinct(pending)
  BY <1>2 DEF Waiters, Reported, Warned, ReadyNodes, NodesOf, ToSet, Single, StatesSound, Distinct
<1>6. Points /\ Starting
  BY DEF Points, Starting
<1>7. OneHand
  BY <1>1, <1>4, <1>5, <1>6 DEF OneHand, Unoffered
<1>8. Closures
  BY <1>4, <1>5 DEF Closures, Busy
<1>9. /\ live = {} /\ timedOut = {} /\ inFlight = 0 /\ queue = << >> /\ free = Capacity
      /\ permits = {} /\ zombies = << >>
  OBVIOUS
<1> HIDE DEF Init, InitLedger, InitAttempts
<1>10. InFlight
  <2>1. Places(queue, Loose(live \cup timedOut)) = {}
    BY <1>9 DEF Places
  <2>2. live = {} /\ inFlight = 0 /\ Cardinality({}) = 0
    BY <1>9, FS_EmptySet
  <2>3. QED
    BY <2>1, <2>2 DEF InFlight
<1>11. Ledger
  <2>1. ASSUME NEW p \in Pool
        PROVE  free[p] + Cardinality(Tokens(Charged, [m \in Node |-> Cost[m][p]])) = Capacity[p]
    <3>1. Tokens(Charged, [m \in Node |-> Cost[m][p]]) = {}
      BY <1>4 DEF Tokens
    <3>2. Cardinality({}) = 0 /\ free[p] = Capacity[p] /\ Capacity[p] \in Nat
      BY <1>9, FS_EmptySet, PoolAssumption
    <3>3. QED
      BY <3>1, <3>2
  <2>2. QED
    BY <1>4, <1>9, <2>1, PoolAssumption DEF Ledger, CapacityFollowsThreads, ZombieUntilReturn,
                                            Distinct, ToSet
<1>12. Stops /\ Budget
  BY <1>5 DEF Stops, Budget, Busy, Init, InitAttempts
<1>13. QED
  BY <1>1, <1>3, <1>6, <1>7, <1>8, <1>10, <1>11, <1>12 DEF RunInv

\* Every step of the loop, of a thread, of the clocks and of the signal
\* handler keeps it.
LEMMA StepKeeps == RunInv /\ [Next]_vars => RunInv'
<1> SUFFICES ASSUME RunInv, [Next]_vars PROVE RunInv'
  OBVIOUS
<1>1. CASE LoopStep
  <2>1. CASE Moves
    BY <2>1, MovesKeep
  <2>2. CASE SeedSatisfied \/ OfferFrontier \/ CascadeStep \/ ApplyReady \/ ApplyPropagated
             \/ DrainAdmit \/ Abandon
    BY <2>2, SeedKeeps, FrontierKeeps, CascadeKeeps, ReadyKeeps, PropagatedKeeps, DrainAdmitKeeps,
       AbandonKeeps
  <2>3. CASE RejectPinned \/ TakeWake \/ TakeStaleDeadline \/ TakeDeadline \/ TakeLateReport
             \/ TakeReport \/ DropMessage
    BY <2>3, DropMessageKeeps, RejectKeeps, TakeWakeKeeps, StaleDeadlineKeeps, TakeDeadlineKeeps, LateReportKeeps,
       TakeReportKeeps
  <2>4. CASE TeardownStarts \/ TeardownEnds \/ TeardownDeadline
    BY <2>4, TeardownStartsKeeps, TeardownEndsKeeps
  <2>5. QED
    BY <1>1, <2>1, <2>2, <2>3, <2>4 DEF LoopStep, Moves
<1>2. CASE \E n \in Tracked : Beside(ThreadStep(n))
  BY <1>2, ThreadStepKeeps
<1>3. CASE \E n \in plan.teardown : Beside(BodyEnds(n) \/ NextAttempt(n))
  BY <1>3, TeardownBodyKeeps
<1>4. CASE Interrupt \/ ClockPasses
  BY <1>4, InterruptKeeps, MovesKeep DEF Moves
<1>5. CASE UNCHANGED vars
  <2>1. /\ LoopTyped' /\ Points' /\ Unoffered' = Unoffered /\ Starting' = Starting
        /\ terminal' = terminal /\ UNCHANGED ThreadAside /\ UNCHANGED <<plan, ledger, threads, queue>>
    BY <1>5, LoopStands DEF vars, ThreadAside
  <2>2. UNCHANGED Hands
    BY <2>1 DEF Hands, ThreadAside
  <2>3. QED
    BY <2>1, <2>2, ControlKeeps
<1>6. QED
  BY <1>1, <1>2, <1>3, <1>4, <1>5 DEF Next

\* The invariant holds for every set of nodes, every pipeline, every cost and
\* capacity, retry budget, deadline and failure mode.
THEOREM RunInvariant == Spec => []RunInv
<1>1. QED
  BY InitRuns, StepKeeps, PTL DEF Spec

\* The run's variables stay in their sets; in particular no node is ever in an
\* attempt beyond its budget.
THEOREM RunTypesHold == Spec => []TypeOK
<1>1. RunInv => TypeOK
  BY DEF RunInv
<1>2. QED
  BY <1>1, RunInvariant, PTL

\* The in-flight count of the loop is exact at every moment, and so is what
\* the ledger has charged, whatever the interleaving of reports, deadlines,
\* stops and cancellations.
THEOREM BooksAreRight == Spec => []LoopBooks
<1>1. RunInv => LoopBooks
  <2> SUFFICES ASSUME RunInv PROVE LoopBooks
    OBVIOUS
  <2>1. queue \in Seq(Message) /\ \A i \in DOMAIN queue : queue[i] \in Message
    BY RunTyped, LenProperties, ElementOfSeq
  <2>2. Places(queue, Loose(live \cup timedOut)) = InQueue("done", Node \ (live \cup timedOut))
    <3>1. ASSUME NEW i \in DOMAIN queue, queue[i].kind = "done" PROVE queue[i].node \in Node
      <4>1. queue[i].node \in Reported
        BY <3>1 DEF Reported, NodesOf
      <4>2. QED
        BY <4>1, RunTyped
    <3>2. QED
      BY <2>1, <3>1 DEF Places, Loose, InQueue
  <2>3. QED
    BY <2>2 DEF RunInv, InFlight, Ledger, LoopBooks, InFlightPaired
<1>2. QED
  BY <1>1, RunInvariant, PTL

\* The zombies are the overtaken closures that still hold their permit: one
\* keeps it until it really returns, and no other attempt is ever counted.
THEOREM ZombiesAreHonest == Spec => []ZombieUntilReturn
<1>1. RunInv => ZombieUntilReturn
  BY DEF RunInv, Ledger
<1>2. QED
  BY <1>1, RunInvariant, PTL

-----------------------------------------------------------------------------
(* Who starts.                                                              *)

\* Offering a node starts no other.
LEMMA OnlyOfferedStarts ==
    ASSUME RunInv, NEW n \in Node, Starts(n), NEW m,
           OfferOrPend(m) \/ Admit(m) \/ UNCHANGED threads
    PROVE  n = m /\ Admit(m)
<1>1. runner' # runner
  BY DEF Starts
<1>2. Admit(m) /\ Dispatch(m)
  BY <1>1 DEF OfferOrPend, Admit, threads
<1>3. runner \in [Node -> RunnerState] /\ runner' = [runner EXCEPT ![m] = "body"]
  BY <1>2, RunTyped DEF Dispatch
<1>4. n # m => runner'[n] = runner[n]
  BY <1>3
<1>5. QED
  BY <1>2, <1>4 DEF Starts

\* A thread starts nobody.
LEMMA ThreadsStartNobody ==
    ASSUME RunInv, NEW n \in Node, NEW m \in Node, ThreadStep(m)
    PROVE  ~Starts(n)
<1>1. runner \in [Node -> RunnerState]
  BY RunTyped
<1>2. runner' = runner \/ \E x : runner' = [runner EXCEPT ![m] = x] /\ runner[m] # "waiting"
  <2>1. CASE BodyEnds(m)
    BY <2>1, BodyEndsFacts
  <2>2. CASE InputsPanic(m) \/ AfterBody(m) \/ TimerFires(m)
    BY <2>2 DEF InputsPanic, AfterBody, NextAttempt, Finish, Report, TimerFires
  <2>3. QED
    BY <2>1, <2>2 DEF ThreadStep
<1>3. QED
  BY <1>1, <1>2 DEF Starts

\* No step starts a node that a stop or a drain bars.
LEMMA NobodyBarredStarts ==
    ASSUME RunInv, Next, NEW n \in Tracked, Starts(n)
    PROVE  ~draining /\ ~(stopping /\ DefaultRule(n))
<1>1. n \in Node /\ runner' # runner
  BY RunTyped DEF Starts
<1>2. CASE OfferFrontier
  BY <1>2 DEF OfferFrontier, RunInv, Stops, Starting
<1>3. CASE ApplyReady
  <2>1. PICK m : m = Head(decisions).node /\ ~Barred(m) /\ OfferOrPend(m)
    BY <1>1, <1>3 DEF ApplyReady, threads
  <2>2. n = m
    BY <1>1, <2>1, OnlyOfferedStarts
  <2>3. QED
    BY <2>1, <2>2 DEF Barred
<1>4. CASE DrainAdmit
  <2>1. pending # << >> /\ Admit(Head(pending)) /\ pending \in Seq(Node)
    BY <1>4, RunTyped DEF DrainAdmit
  <2>2. n = Head(pending)
    BY <1>1, <2>1, OnlyOfferedStarts
  <2>3. n \in Waiters
    BY <2>1, <2>2, LineMoves DEF RunInv, OneHand, Waiters
  <2>4. QED
    BY <1>1, <2>1, <2>3 DEF RunInv, Stops, Default
<1>5. CASE TeardownStarts \/ TeardownEnds \/ TeardownDeadline
  <2>1. InTeardown /\ \E x : runner' = [runner EXCEPT ![Cleaning] = x]
    BY <1>5 DEF TeardownStarts, TeardownEnds, TeardownDeadline, Dispatch, CleanedUp, InTeardown
  <2>2. Cleaning # n
    BY <2>1, CleaningFacts
  <2>3. runner'[n] = runner[n]
    BY <1>1, <2>1, <2>2, RunTyped
  <2>4. QED
    BY <2>3 DEF Starts
<1>6. CASE Moves \/ Interrupt
  BY <1>1, <1>6 DEF Moves, Interrupt, InstallWaker, SeedingDone, FrontierDone, TopBusy, TopLeaves, EmptyHanded,
     TopPinned, WaitExpires, ApplyDone, DrainDone, Leave, Exit, TeardownDone, ClockPasses, threads,
     Quiet
<1>7. CASE SeedSatisfied \/ RejectPinned \/ TakeWake \/ TakeStaleDeadline \/ TakeDeadline
           \/ TakeLateReport \/ TakeReport \/ CascadeStep \/ ApplyPropagated \/ Abandon
  BY <1>1, <1>7 DEF SeedSatisfied, RejectPinned, TakeWake, TakeStaleDeadline, TakeDeadline,
     TakeLateReport, TakeReport, CascadeStep, ApplyPropagated, Abandon, threads, Quiet
<1>8. CASE \E m \in Tracked : Beside(ThreadStep(m))
  BY <1>1, <1>8, RunTyped, ThreadsStartNobody DEF Beside
<1>9. CASE \E m \in plan.teardown : Beside(BodyEnds(m) \/ NextAttempt(m))
  BY <1>1, <1>9, RunTyped, ThreadsStartNobody DEF Beside, ThreadStep, AfterBody
<1>10. CASE DropMessage
  BY <1>1, <1>10, RunTyped DEF DropMessage, DropsMessage, Starts
<1>11. QED
  BY <1>2, <1>3, <1>4, <1>5, <1>6, <1>7, <1>8, <1>9, <1>10 DEF Next, LoopStep, Moves

\* Once the run is stopping no default-rule node starts, and once it is
\* draining none at all, wherever the node was waiting.
THEOREM StopIsObeyed == Spec => NoStartAfterStop
<1> DEFINE Obeys == \A n \in Tracked : Starts(n) => ~draining /\ ~(stopping /\ DefaultRule(n))
<1>1. RunInv /\ [Next]_vars => [Obeys]_vars
  BY NobodyBarredStarts
<1>2. QED
  BY <1>1, RunInvariant, PTL DEF Spec, NoStartAfterStop

-----------------------------------------------------------------------------
(* What a run says: the inductive invariant.                                *)

\* A resume that carries forward nodes without upstreams only.  (A node that is
\* carried forward with all its upstreams is offered again while they are
\* seeded: the finding at driver.rs:2099.)
SoundResume(p) ==
    /\ p.satisfied \cap p.teardown = {}
    /\ \A n \in p.satisfied : p.data[n] \cup p.order[n] = {}

\* The loop has stopped to receive.
Over == {"leave", "exit", "teardown", "done"}
Seeding == pc = "seed" \/ (pc \in {"cascade", "apply"} /\ back = "seed")

\* Between two calls the tracker owes nothing.
Calm ==
    /\ pc \notin {"cascade", "apply"} => decisions = << >>
    /\ pc # "cascade" => Idle

\* The nodes carried forward have no runner, are never offered, and are
\* recorded while the run is seeded.
Carried ==
    /\ \A n \in Node : runner[n] = "absent" <=> n \in plan.satisfied
    /\ plan.satisfied \cap (ReadyNodes \cup Waiters \cup Reported) = {}
    /\ pc = "boot" => \A n \in Node : terminal[n] = None
    /\ \A n \in plan.satisfied :
         terminal[n] = None <=> pc = "boot" \/ (Seeding /\ n \in agenda)

\* The loop has recorded n with s, or has yet to apply the decision that says so.
DecidesAs(d, n, s) == d.kind = "propagated" /\ d.node = n /\ d.state = s
Known(n, s) ==
    \/ terminal[n] = s
    \/ terminal[n] = None /\ \E i \in DOMAIN decisions : DecidesAs(decisions[i], n, s)
Walked(n, s) == \E i \in DOMAIN work : work[i].node = n /\ work[i].state = s

\* The i-th decision finds its node without a state, and its upstreams recorded
\* or to be recorded by an earlier one.
Inherits(i) ==
    LET d == decisions[i]
    IN  /\ terminal[d.node] = None
        /\ d.state = Verdict(d.node)
        /\ \A u \in Upstream(d.node) :
             \/ terminal[u] = decided[u]
             \/ \E j \in DOMAIN decisions : j < i /\ DecidesAs(decisions[j], u, decided[u])

\* The tracker and the table of terminal states agree.
Agree ==
    /\ \A n \in Tracked : terminal[n] # None => remaining[n] = 0
    /\ \A i \in DOMAIN decisions : remaining[decisions[i].node] = 0
    /\ \A n \in Node : decided[n] # None => Known(n, decided[n])
    /\ \A i \in DOMAIN work : work[i].node \in Tracked /\ Known(work[i].node, work[i].state)
    /\ pc \notin Over => \A n \in Tracked : \A s \in TerminalState :
                            Known(n, s) => decided[n] = s \/ Walked(n, s)
    /\ \A i \in DOMAIN decisions : decisions[i].kind = "propagated" => Inherits(i)
    /\ Single(decisions, "propagated")

\* A node in a hand has no state yet.
Hand == ReadyNodes \cup Waiters \cup live \cup (Reported \ timedOut)
Undecided ==
    pc \notin Over => /\ \A n \in Hand : terminal[n] = None
                      /\ \A n \in Unoffered \ plan.satisfied : terminal[n] = None

\* Teardown nodes have no state before the phase, and get one each in it.
CleanUpLast ==
    /\ pc \notin {"teardown", "done"} => \A t \in plan.teardown : terminal[t] = None
    /\ pc = "teardown" => \A t \in plan.teardown : terminal[t] = None <=> t \in agenda
    /\ pc = "done" => \A t \in plan.teardown : terminal[t] # None

\* The event stream has the record of the table, once.
Recorded ==
    \A n \in Node : written[n] = IF terminal[n] = None THEN << >> ELSE <<terminal[n]>>

StatusOf(s) == IF s = "skipped" THEN "failed" ELSE s
Ordered(rs) == \A i, j \in DOMAIN rs : i < j => rs[i].attempt < rs[j].attempt
EndsAs(rs, s) == rs # << >> => rs[Len(rs)].status = StatusOf(s)

\* What a runner has buffered: one record of each attempt that is over, the
\* last as the runner will report unless its deadline overtook it.
Buffered(n) ==
    /\ Ordered(buffer[n])
    /\ \A i \in DOMAIN buffer[n] : /\ buffer[n][i].attempt <= attempt[n]
                                   /\ runner[n] = "body" => buffer[n][i].attempt < attempt[n]
    /\ runner[n] \in {"waiting", "absent"} => buffer[n] = << >>
    /\ runner[n] \in {"finishing", "returned"} =>
         fate[n] = "timed-out" \/ EndsAs(buffer[n], result[n])
    /\ fate[n] = "timed-out" => n \in Started \ live
Buffers == \A n \in Node : Buffered(n)

\* What the stream holds of a node's attempts.
Closed(n) ==
    /\ terminal[n] = None => outcomes[n] = << >>
    /\ Ordered(outcomes[n]) /\ EndsAs(outcomes[n], terminal[n])
Outcomes == \A n \in Node : Closed(n)

\* A slot is filled by a body that succeeded and by nothing else.
Slot(n) ==
    /\ n \in filled => /\ runner[n] \in {"finishing", "returned", "gone"}
                       /\ result[n] = "succeeded"
                       /\ n \in Guarded => fate[n] = "completed"
                       /\ terminal[n] \in {None, "succeeded", "cancelled", "abandoned"}
    /\ runner[n] \in {"finishing", "returned"} /\ result[n] = "succeeded" => n \in filled
    /\ terminal[n] = "succeeded" => n \in filled
    /\ timer[n] # "off" => n \in Guarded
Slots == \A n \in Node : Slot(n)

\* A message tells the truth: a report of its node's attempts and slot, a
\* deadline of a node that has one, a wake of an interrupt.
Truthful(m) ==
    /\ m.kind = "done" => /\ m.closing
                          /\ m.node \notin timedOut => EndsAs(buffer[m.node], m.state)
                          /\ m.state = "succeeded" <=> m.node \in filled
    /\ m.kind = "deadline" => m.node \in Guarded
    /\ m.kind = "wake" => trigger # None
Messages == \A i \in DOMAIN queue : Truthful(queue[i])

\* Whoever stopped the run had a reason.
Reasons ==
    /\ draining => cancelOrigin # None
    /\ trigger # "failure-under-stop"
    /\ StopNeedsFailure

\* A closure the loop has forgotten was overtaken by its deadline, one that is live
\* has no state, or was left behind, and a teardown body is recorded at its end.
Standing ==
    /\ \A n \in timedOut : n \in Guarded /\ fate[n] = "timed-out"
    /\ \A n \in live : terminal[n] \in {None, "abandoned"}
    /\ \A t \in plan.teardown : runner[t] \in Busy => terminal[t] = None

TruthInv == /\ SoundResume(plan) /\ Calm /\ Carried /\ Agree /\ Undecided /\ CleanUpLast
            /\ Recorded /\ Buffers /\ Outcomes /\ Slots /\ Messages /\ Reasons

-----------------------------------------------------------------------------
(* What a step leaves alone.                                                *)

\* The tracker owes nothing as long as neither it nor the loop moves.
LEMMA CalmStays ==
    ASSUME Calm, UNCHANGED <<pc, decisions, work, visiting>> PROVE Calm'
BY DEF Calm, Idle

\* The nodes carried forward stay out of every hand.
LEMMA CarriedStays ==
    ASSUME Carried, UNCHANGED <<plan, terminal, agenda>>,
           pc' = pc, back' = back,
           \A n \in Node : runner'[n] = "absent" <=> runner[n] = "absent",
           ReadyNodes' \subseteq ReadyNodes, Waiters' \subseteq Waiters, Reported' \subseteq Reported
    PROVE  Carried'
BY DEF Carried, Seeding

\* The two tables agree as long as neither changes.
LEMMA AgreeStays ==
    ASSUME Agree, UNCHANGED <<plan, tracker, work, decisions, terminal>>,
           pc' \notin Over => pc \notin Over
    PROVE  Agree'
<1> USE DEF tracker
<1>1. Tracked' = Tracked /\ \A n : Upstream(n)' = Upstream(n) /\ Verdict(n)' = Verdict(n)
  BY DEF Tracked, Upstream, Verdict
<1>2. \A n, s : (Known(n, s)' <=> Known(n, s)) /\ (Walked(n, s)' <=> Walked(n, s))
  BY DEF Known, Walked, DecidesAs
<1>3. \A i : Inherits(i)' <=> Inherits(i)
  BY <1>1 DEF Inherits, DecidesAs
<1>4. Single(decisions, "propagated")'
  BY DEF Agree, Single
<1>5. QED
  BY <1>1, <1>2, <1>3, <1>4 DEF Agree

\* Nobody in a hand is decided as long as nobody is, and no hand grows.
LEMMA UndecidedStays ==
    ASSUME Undecided, pc' \notin Over => pc \notin Over, UNCHANGED <<plan, terminal>>,
           Unoffered' \subseteq Unoffered, Hand' \subseteq Hand \cup (Unoffered \ plan.satisfied)
    PROVE  Undecided'
BY DEF Undecided

\* The teardown phase is where it was.
LEMMA CleanUpStays ==
    ASSUME CleanUpLast, UNCHANGED <<plan, terminal>>,
           \/ pc' = pc /\ (pc = "teardown" => agenda' = agenda)
           \/ pc \notin {"teardown", "done"} /\ pc' \notin {"teardown", "done"}
    PROVE  CleanUpLast'
BY DEF CleanUpLast

\* Nothing is recorded.
LEMMA RecordsStay ==
    ASSUME Recorded, Outcomes, UNCHANGED <<terminal, written, outcomes>>
    PROVE  Recorded' /\ Outcomes'
BY DEF Recorded, Outcomes, Closed, Ordered, EndsAs, StatusOf

\* A runner that does not move has buffered what it had.
LEMMA BufferStays ==
    ASSUME NEW n \in Node, Buffered(n), plan' = plan,
           runner'[n] = runner[n], attempt'[n] = attempt[n], buffer'[n] = buffer[n],
           fate'[n] = fate[n], result'[n] = result[n], n \in live' => n \in live
    PROVE  Buffered(n)'
BY DEF Buffered, Ordered, EndsAs, StatusOf, Tracked, Started

\* None has moved.
LEMMA BuffersStay ==
    ASSUME Buffers, UNCHANGED <<plan, runner, attempt, buffer, fate, result>>, live' \subseteq live
    PROVE  Buffers'
BY BufferStays DEF Buffers

\* A slot whose runner does not move.
LEMMA SlotStays ==
    ASSUME NEW n \in Node, Slot(n),
           runner'[n] = runner[n], fate'[n] = fate[n], result'[n] = result[n],
           terminal'[n] = terminal[n], timer'[n] = timer[n], n \in filled' <=> n \in filled
    PROVE  Slot(n)'
BY DEF Slot

\* No slot, record or claim has changed.
LEMMA SlotsStay ==
    ASSUME Slots, UNCHANGED <<runner, fate, result, terminal, timer, filled>>
    PROVE  Slots'
BY SlotStays DEF Slots

\* The reasons of a stop and of a drain stand.
LEMMA ReasonsStay ==
    ASSUME Reasons, UNCHANGED <<plan, draining, cancelOrigin>>,
           \A n \in Node : terminal[n] # None => terminal'[n] = terminal[n],
           trigger' = trigger, Tracked \subseteq Node
    PROVE  Reasons'
<1>1. Tracked' = Tracked /\ None \notin FailureLike
  BY DEF Tracked, None, FailureLike
<1>2. QED
  BY <1>1 DEF Reasons, StopNeedsFailure

\* Every message after the step was there before, or is one of the new ones.
Brings(S) == \A i \in DOMAIN queue' : (\E j \in DOMAIN queue : queue'[i] = queue[j]) \/ queue'[i] \in S

\* A message that was true is true when its node's runner did not move and was
\* not forgotten.
LEMMA MessagesStay ==
    ASSUME Messages, NEW S, Brings(S), \A m \in S : Truthful(m)',
           \A n \in Reported : buffer'[n] = buffer[n] /\ (n \in filled' <=> n \in filled),
           \A n \in Reported' : n \in timedOut => n \in timedOut',
           trigger # None => trigger' # None
    PROVE  Messages'
<1> SUFFICES ASSUME NEW i \in DOMAIN queue' PROVE Truthful(queue[i])'
  BY DEF Messages
<1>1. CASE queue'[i] \in S
  BY <1>1
<1>2. CASE \E j \in DOMAIN queue : queue'[i] = queue[j]
  <2>1. PICK m : \E j \in DOMAIN queue : m = queue'[i] /\ m = queue[j]
    BY <1>2
  <2>2. Truthful(m) /\ (m.kind = "done" => m.node \in Reported /\ m.node \in Reported')
    BY <2>1 DEF Messages, Reported, NodesOf
  <2>3. Truthful(m)'
    BY <2>2 DEF Truthful, EndsAs, StatusOf
  <2>4. QED
    BY <2>1, <2>3
<1>3. QED
  BY <1>1, <1>2 DEF Brings

\* The queue and what its messages are about stand.
LEMMA MessagesStand ==
    ASSUME Messages, UNCHANGED <<queue, buffer, filled, timedOut, trigger>>
    PROVE  Messages'
BY DEF Messages, Truthful, EndsAs, StatusOf

-----------------------------------------------------------------------------
(* The loop moves on.                                                       *)

\* What is so at every point of the loop.
LEMMA TruthTyped ==
    ASSUME RunInv, TruthInv
    PROVE  /\ Tracked \subseteq Node /\ plan.satisfied \subseteq Tracked /\ Offered \subseteq Tracked
           /\ live \subseteq Started /\ Started \subseteq Offered
           /\ plan.satisfied \cap Started = {} /\ plan.satisfied \cap live = {}
           /\ ReadyNodes \subseteq Offered /\ Waiters \subseteq Offered /\ Reported \subseteq Offered
           /\ terminal \in [Node -> TerminalState \cup {None}]
           /\ None \notin TerminalState
<1>1. Tracked \subseteq Node /\ plan.satisfied \subseteq Node /\ Started \subseteq Tracked
  BY RunTyped
<1>2. plan.satisfied \cap plan.teardown = {} /\ \A n \in plan.satisfied : runner[n] = "absent"
  BY <1>1 DEF TruthInv, SoundResume, Carried
<1>3. plan.satisfied \subseteq Tracked /\ plan.satisfied \cap Started = {}
  BY <1>1, <1>2 DEF Tracked, Started
<1>4. QED
  BY <1>1, <1>3, NoneIsNoState, RunTyped
     DEF RunInv, OneHand, Closures, TypeOK, LoopTyped

\* A step that moves the loop from one point to the next.
LEMMA MovesTrue == ASSUME RunInv, TruthInv, Moves PROVE TruthInv'
<1>1. /\ UNCHANGED Hands /\ UNCHANGED <<written, outcomes, candidates, trigger, requests, cancelOrigin>>
      /\ Unoffered' = Unoffered
  BY MovesFacts
<1> USE DEF Hands, tracker, call, threads, TruthInv
<1>2. Calm'
  <2> USE DEF Calm, Idle, Quiet
  <2>1. CASE InstallWaker \/ SeedingDone \/ FrontierDone \/ TopBusy \/ TopLeaves
    BY <1>1, <2>1 DEF InstallWaker, SeedingDone, FrontierDone, TopBusy, TopLeaves, EmptyHanded
  <2>2. CASE TopPinned \/ WaitExpires \/ ApplyDone \/ DrainDone
    BY <1>1, <2>2 DEF TopPinned, Pinned, EmptyHanded, WaitExpires, ApplyDone, DrainDone, RunInv, TypeOK, LoopTyped
  <2>3. CASE Leave \/ Exit \/ TeardownDone \/ ClockPasses
    BY <1>1, <2>3 DEF Leave, Exit, TeardownDone, ClockPasses, control
  <2>4. QED
    BY <2>1, <2>2, <2>3 DEF Moves
<1>3. Carried'
  <2>1. ReadyNodes' = ReadyNodes /\ Waiters' = Waiters /\ Reported' = Reported
    BY <1>1 DEF ReadyNodes, Waiters, Reported
  <2>2. \A n \in plan.satisfied : terminal[n] = None <=> pc = "boot" \/ (Seeding /\ n \in agenda)
    BY DEF Carried
  <2>3. /\ pc' = "boot" => pc = "boot"
        /\ \A n \in plan.satisfied : pc' = "boot" \/ (Seeding' /\ n \in agenda')
                                  <=> pc = "boot" \/ (Seeding /\ n \in agenda)
    <3> USE DEF Seeding, Quiet
    <3>1. CASE InstallWaker \/ SeedingDone
      BY <3>1 DEF InstallWaker, SeedingDone
    <3>2. CASE FrontierDone \/ TopBusy \/ TopLeaves
      BY <3>2 DEF FrontierDone, TopBusy, TopLeaves, EmptyHanded
    <3>3. CASE TopPinned \/ WaitExpires \/ DrainDone
      BY <3>3 DEF TopPinned, Pinned, EmptyHanded, WaitExpires, DrainDone
    <3>4. CASE ApplyDone
      BY <3>4 DEF ApplyDone, RunInv, Points, Starting, TypeOK, LoopTyped
    <3>5. CASE Leave \/ Exit \/ TeardownDone \/ ClockPasses
      BY <3>5 DEF Leave, Exit, TeardownDone, ClockPasses, control
    <3>6. QED
      BY <3>1, <3>2, <3>3, <3>4, <3>5 DEF Moves
  <2>4. QED
    BY <1>1, <2>1, <2>2, <2>3 DEF Carried
<1>4. pc' \notin Over => pc \notin Over
  <2> USE DEF Over, Quiet
  <2>1. CASE InstallWaker \/ SeedingDone \/ FrontierDone \/ TopBusy \/ TopLeaves
    BY <2>1 DEF InstallWaker, SeedingDone, FrontierDone, TopBusy, TopLeaves, EmptyHanded
  <2>2. CASE TopPinned \/ WaitExpires \/ ApplyDone \/ DrainDone
    BY <2>2 DEF TopPinned, Pinned, EmptyHanded, WaitExpires, ApplyDone, DrainDone
  <2>3. CASE Leave \/ Exit \/ TeardownDone \/ ClockPasses
    BY <2>3 DEF Leave, Exit, TeardownDone, ClockPasses, control
  <2>4. QED
    BY <2>1, <2>2, <2>3 DEF Moves
<1>5. Agree'
  BY <1>1, <1>4, AgreeStays
<1>6. Undecided'
  BY <1>1, <1>4, UndecidedStays DEF Hand, ReadyNodes, Waiters, Reported
<1>7. CleanUpLast'
  <2>1. \A t \in plan.teardown : pc \notin {"teardown", "done"} => terminal[t] = None
    BY DEF CleanUpLast
  <2> USE DEF CleanUpLast, Quiet
  <2>2. CASE InstallWaker \/ SeedingDone \/ FrontierDone \/ TopBusy \/ TopLeaves
    BY <1>1, <2>2 DEF InstallWaker, SeedingDone, FrontierDone, TopBusy, TopLeaves, EmptyHanded
  <2>3. CASE TopPinned \/ WaitExpires \/ ApplyDone \/ DrainDone
    BY <1>1, <2>3 DEF TopPinned, Pinned, EmptyHanded, WaitExpires, ApplyDone, DrainDone, RunInv, TypeOK, LoopTyped
  <2>4. CASE Leave \/ Exit \/ TeardownDone \/ ClockPasses
    BY <1>1, <2>4 DEF Leave, Exit, TeardownDone, ClockPasses, control
  <2>5. QED
    BY <2>2, <2>3, <2>4 DEF Moves
<1>8. Recorded' /\ Outcomes'
  BY <1>1, RecordsStay
<1>9. Buffers' /\ Slots' /\ Messages' /\ Reasons' /\ SoundResume(plan)'
  BY <1>1, BuffersStay, SlotsStay, MessagesStand, ReasonsStay, RunTyped DEF SoundResume
<1>10. QED
  BY <1>2, <1>3, <1>5, <1>6, <1>7, <1>8, <1>9

-----------------------------------------------------------------------------
(* Messages come and go.                                                    *)

\* Receiving brings no message.
LEMMA BringsNone ==
    ASSUME queue \in Seq(Message), queue' = queue \/ (queue # << >> /\ queue' = Tail(queue))
    PROVE  Brings({}) /\ Reported' \subseteq Reported
<1>1. CASE queue' = queue
  BY <1>1 DEF Brings, Reported, NodesOf
<1>2. CASE queue # << >> /\ queue' = Tail(queue)
  BY <1>2, TailElements DEF Brings, Reported, NodesOf
<1>3. QED
  BY <1>1, <1>2

\* Sending brings the one that is sent.
LEMMA BringsOne ==
    ASSUME queue \in Seq(Message), NEW m \in Message, queue' = Append(queue, m)
    PROVE  Brings({m}) /\ (m.kind # "done" => Reported' \subseteq Reported)
<1>1. Appended(queue', queue, m)
  BY DEF Appended
<1>2. \A i \in DOMAIN queue' : (i \in DOMAIN queue /\ queue'[i] = queue[i]) \/ queue'[i] = m
  BY LenProperties, AppendProperties
<1>3. QED
  BY <1>1, <1>2, NodesOfAppend DEF Brings, Reported

AnswersOf(ns, s) == {Done(n, s, TRUE) : n \in ToSet(ns)}

\* Answering a line brings an answer for each of its nodes.
LEMMA BringsAnswers ==
    ASSUME queue \in Seq(Message), NEW q \in Seq(Message), q = queue \/ (queue # << >> /\ q = Tail(queue)),
           NEW ns \in Seq(Node), NEW s \in Reportable,
           queue' = q \o [i \in DOMAIN ns |-> Done(ns[i], s, TRUE)]
    PROVE  Brings(AnswersOf(ns, s))
<1>1. PICK t : t = [i \in DOMAIN ns |-> Done(ns[i], s, TRUE)]
  OBVIOUS
<1>2. DOMAIN ns = 1..Len(ns) /\ Len(ns) \in Nat /\ \A i \in DOMAIN ns : ns[i] \in Node
  BY LenProperties, ElementOfSeq
<1>3. DOMAIN t = DOMAIN ns /\ \A i \in DOMAIN ns : t[i] = Done(ns[i], s, TRUE) /\ ns[i] \in ToSet(ns)
  BY <1>1 DEF ToSet
<1>4. \A i \in DOMAIN ns : t[i] \in Message /\ t[i] \in AnswersOf(ns, s)
  BY <1>2, <1>3, AnswersTyped DEF AnswersOf
<1>5. t \in Seq(Message)
  <2>1. t = [i \in 1..Len(ns) |-> t[i]]
    BY <1>1, <1>2, <1>3
  <2>2. t \in [1..Len(ns) -> Message]
    BY ONLY <1>2, <1>3, <1>4, <2>1
  <2>3. QED
    BY ONLY <1>2, <2>2
<1>6. Joined(queue', q, t)
  BY <1>1 DEF Joined
<1>7. \A i \in DOMAIN queue' : (i \in DOMAIN q /\ queue'[i] = q[i]) \/ queue'[i] \in AnswersOf(ns, s)
  <2>1. PICK q2 : q2 = queue'
    OBVIOUS
  <2>2. q2 = q \o t
    BY <1>6, <2>1 DEF Joined
  <2>3. /\ \A i \in DOMAIN q : i \in DOMAIN q2 /\ q2[i] = q[i]
        /\ \A i \in DOMAIN q2 : \/ i \in DOMAIN q
                                \/ i \notin DOMAIN q /\ i - Len(q) \in DOMAIN t /\ q2[i] = t[i - Len(q)]
    BY ONLY q \in Seq(Message), <1>5, <2>2, ConcatElements
  <2>4. \A i \in DOMAIN q2 : (i \in DOMAIN q /\ q2[i] = q[i]) \/ q2[i] \in AnswersOf(ns, s)
    BY <2>3, <1>3, <1>4
  <2>5. QED
    BY <2>1, <2>4
<1>8. \A i \in DOMAIN q : \E j \in DOMAIN queue : q[i] = queue[j]
  <2>1. CASE q = queue
    BY <2>1
  <2>2. CASE queue # << >> /\ q = Tail(queue)
    <3>1. \A i \in DOMAIN Tail(queue) : i + 1 \in DOMAIN queue /\ Tail(queue)[i] = queue[i + 1]
      BY <2>2, TailElements
    <3>2. QED
      BY <2>2, <3>1
  <2>3. QED
    BY <2>1, <2>2
<1>9. QED
  BY <1>7, <1>8 DEF Brings

\* A step that only sends or receives, and decides nothing.
LEMMA QueueTrue ==
    ASSUME RunInv, TruthInv,
           UNCHANGED <<plan, tracker, call, back, agenda, terminal, written, outcomes, live,
                       pending, timedOut, draining, cancelOrigin, runner, attempt, result, fate,
                       filled, buffer>>,
           pc' = pc \/ (pc = "await" /\ pc' = "top"),
           NEW S, Brings(S), \A m \in S : Truthful(m)' /\ m.kind # "done",
           trigger' = trigger \/ (trigger = None /\ trigger' = "external-interrupt"),
           \A n \in Node : timer'[n] # "off" => timer[n] # "off" \/ n \in Guarded
    PROVE  TruthInv'
<1> USE DEF TruthInv, call, tracker
<1>1. Reported' \subseteq Reported
  BY DEF Brings, Reported, NodesOf
<1>2. ReadyNodes' = ReadyNodes /\ Waiters' = Waiters /\ Unoffered' = Unoffered
  BY DEF ReadyNodes, Waiters, Unoffered, Starting, InitialReady, InitialCount, Tracked
<1>3. pc' \notin Over => pc \notin Over
  BY DEF Over
<1>4. Hand' \subseteq Hand
  BY <1>1, <1>2 DEF Hand
<1>5. Calm' /\ Carried' /\ CleanUpLast'
  BY <1>1, <1>2 DEF Calm, Idle, Carried, Seeding, CleanUpLast
<1>6. Agree' /\ Undecided'
  BY <1>2, <1>3, <1>4, AgreeStays, UndecidedStays
<1>7. Recorded' /\ Outcomes' /\ Buffers'
  BY RecordsStay, BuffersStay
<1>8. Slots'
  BY DEF Slots, Slot
<1>9. Messages'
  <2>1. trigger # None => trigger' # None
    BY DEF None
  <2>2. QED
    BY <2>1, MessagesStay
<1>10. Reasons' /\ SoundResume(plan)'
  <2>1. Reasons'
    BY DEF Reasons, StopNeedsFailure, Tracked
  <2>2. QED
    BY <2>1 DEF SoundResume
<1>11. QED
  BY <1>5, <1>6, <1>7, <1>8, <1>9, <1>10

\* A deadline that comes too late is dropped.
LEMMA StaleDeadlineTrue == ASSUME RunInv, TruthInv, TakeStaleDeadline PROVE TruthInv'
<1>1. queue \in Seq(Message) /\ queue # << >> /\ queue' = Tail(queue)
  BY RunTyped DEF TakeStaleDeadline, Receives
<1>2. Brings({})
  BY <1>1, BringsNone
<1>3. UNCHANGED <<plan, tracker, call, back, agenda, terminal, written, outcomes, live,
                  pending, timedOut, draining, cancelOrigin, runner, attempt, result, fate,
                  filled, buffer, trigger>> /\ pc = "await" /\ pc' = "top"
  BY DEF TakeStaleDeadline, Receives, counts, modes, records, outside
<1>4. \A n \in Node : timer'[n] # "off" => timer[n] # "off" \/ n = Head(queue).node
  BY DEF TakeStaleDeadline, TakesInHand, RunInv, TypeOK, ThreadsTyped
<1>5. Head(queue).node \in Guarded
  <2>1. Head(queue) = queue[1] /\ 1 \in DOMAIN queue /\ Head(queue).kind = "deadline"
    BY <1>1, TailElements DEF TakeStaleDeadline, Receives
  <2>2. QED
    BY <2>1 DEF TruthInv, Messages, Truthful
<1>6. QED
  BY <1>2, <1>3, <1>4, <1>5, QueueTrue

\* An interrupt wakes the loop, and leaves its reason.
LEMMA InterruptTrue == ASSUME RunInv, TruthInv, Interrupt PROVE TruthInv'
<1>1. UNCHANGED <<plan, tracker, call, pc, back, agenda, terminal, written, outcomes, live,
                  pending, timedOut, draining, cancelOrigin, runner, attempt, result, fate,
                  filled, buffer, timer>>
  BY DEF Interrupt, counts, modes, records, threads, control
<1>2. queue \in Seq(Message) /\ Wake \in Message
  BY RunTyped DEF Wake, Message, TerminalState, StopLike
<1>3. trigger \in {None, "external-interrupt"}
  BY DEF RunInv, TypeOK, LoopTyped, TruthInv, Reasons, Origin
<1>4. trigger' = trigger \/ (trigger = None /\ trigger' = "external-interrupt")
  BY DEF Interrupt, Request
<1>5. CASE queue' = queue
  BY <1>1, <1>2, <1>4, <1>5, BringsNone, QueueTrue
<1>6. CASE queue' = Append(queue, Wake) /\ trigger' # None
  <2>1. Truthful(Wake)' /\ Wake.kind # "done"
    BY <1>6 DEF Truthful, Wake
  <2>2. Brings({Wake})
    BY <1>2, <1>6, BringsOne
  <2>3. QED
    BY <1>1, <1>4, <2>1, <2>2, QueueTrue
<1>7. QED
  BY <1>3, <1>5, <1>6 DEF Interrupt, Request, None

\* A timer is that of a node with a deadline.
LEMMA TimerTrue ==
    ASSUME RunInv, TruthInv, NEW n \in Node, TimerFires(n), UNCHANGED <<plan, tracker, call, loop>>
    PROVE  TruthInv'
<1>1. UNCHANGED <<plan, tracker, call, pc, back, agenda, terminal, written, outcomes, live,
                  pending, timedOut, draining, cancelOrigin, runner, attempt, result, fate,
                  filled, buffer, trigger>>
  BY DEF TimerFires, loop, counts, modes, records, control, outside
<1>2. queue \in Seq(Message) /\ Deadline(n) \in Message
  BY RunTyped DEF Deadline, Message, TerminalState, FailureLike
<1>3. queue' = Append(queue, Deadline(n)) /\ n \in Guarded
  BY DEF TimerFires, TruthInv, Slots, Slot
<1>4. \A m \in Node : timer'[m] # "off" => timer[m] # "off"
  BY DEF TimerFires, RunInv, TypeOK, ThreadsTyped
<1>5. Truthful(Deadline(n))' /\ Deadline(n).kind # "done"
  BY <1>3 DEF Truthful, Deadline
<1>6. Brings({Deadline(n)})
  BY <1>2, <1>3, BringsOne
<1>7. QED
  BY <1>1, <1>4, <1>5, <1>6, QueueTrue

-----------------------------------------------------------------------------
(* The start.                                                               *)

\* Nothing is recorded yet, and nothing false.
LEMMA InitTrue == Init /\ SoundResume(plan) => TruthInv
<1> SUFFICES ASSUME Init, SoundResume(plan) PROVE TruthInv
  OBVIOUS
<1>1. RunInv
  BY InitRuns
<1> USE DEF Init, InitTracker, InitAttempts
<1>2. /\ decisions = << >> /\ work = << >> /\ queue = << >> /\ pending = << >> /\ live = {}
      /\ \A n \in Node : terminal[n] = None /\ decided[n] = None /\ timer[n] = "off"
                         /\ buffer[n] = << >> /\ outcomes[n] = << >> /\ written[n] = << >>
                         /\ attempt[n] = 0 /\ fate[n] = "running" /\ result[n] = None
                         /\ (runner[n] = "absent" <=> n \in plan.satisfied)
                         /\ (runner[n] # "absent" => runner[n] = "waiting")
      /\ pc = "boot" /\ visiting = {} /\ filled = {} /\ ~draining /\ trigger = None
      /\ cancelOrigin = None
  OBVIOUS
<1> HIDE DEF Init, InitTracker, InitAttempts
<1>3. /\ Tracked \subseteq Node /\ plan.satisfied \subseteq Node /\ plan.teardown \subseteq Node
      /\ Unoffered \subseteq Tracked
  BY <1>1, <1>2, RunTyped DEF Unoffered, Starting
<1>4. ReadyNodes = {} /\ Waiters = {} /\ Reported = {}
  BY <1>2 DEF ReadyNodes, Waiters, Reported, NodesOf, ToSet
<1>5. Calm /\ Carried
  BY <1>2, <1>3, <1>4 DEF Calm, Idle, Carried, Seeding
<1>6. Agree
  BY <1>2, <1>3, NoneIsNoState DEF Agree, Single, Known
<1>7. Undecided /\ CleanUpLast
  BY <1>2, <1>3, <1>4 DEF Undecided, Hand, CleanUpLast
<1>8. Recorded /\ Outcomes
  BY <1>2 DEF Recorded, Outcomes, Closed, Ordered, EndsAs
<1>9. Buffers
  BY <1>2 DEF Buffers, Buffered, Ordered
<1>10. Slots
  BY <1>2 DEF Slots, Slot, None
<1>11. Messages /\ Reasons
  BY <1>2 DEF Messages, Reasons, StopNeedsFailure, None
<1>12. QED
  BY <1>5, <1>6, <1>7, <1>8, <1>9, <1>10, <1>11 DEF TruthInv

-----------------------------------------------------------------------------
(* Seeding the nodes that are carried forward.                              *)

\* The loop records a node that had no state.
LEMMA RecordTrue ==
    ASSUME RunInv, Recorded, NEW n \in Node, NEW s \in TerminalState, terminal[n] = None,
           terminal' = RecordTerminal(n, s), written' = Write(n, s)
    PROVE  /\ Recorded' /\ terminal'[n] = s
           /\ \A m \in Node \ {n} : terminal'[m] = terminal[m]
           /\ \A m \in Node : terminal[m] # None => terminal'[m] = terminal[m]
<1>1. /\ terminal \in [Node -> TerminalState \cup {None}] /\ written \in [Node -> Seq(TerminalState)]
      /\ s # None
  BY NoneIsNoState DEF RunInv, TypeOK, LoopTyped
<1>2. terminal'[n] = s /\ \A m \in Node \ {n} : terminal'[m] = terminal[m]
  BY <1>1 DEF RecordTerminal
<1>3. written[n] = << >>
  BY DEF Recorded
<1>4. written'[n] = <<s>> /\ \A m \in Node \ {n} : written'[m] = written[m]
  BY <1>1, <1>3 DEF Write
<1>5. Recorded'
  <2> SUFFICES ASSUME NEW m \in Node
               PROVE  written'[m] = IF terminal'[m] = None THEN << >> ELSE <<terminal'[m]>>
    BY DEF Recorded
  <2>1. CASE m = n
    BY <1>1, <1>2, <1>4, <2>1
  <2>2. CASE m # n
    BY <1>2, <1>4, <2>2 DEF Recorded
  <2>3. QED
    BY <2>1, <2>2
<1>6. QED
  BY <1>2, <1>5

\* A node recorded without any attempt of its own.
LEMMA NoAttemptTrue ==
    ASSUME Outcomes, NEW n \in Node, terminal[n] = None, outcomes' = outcomes,
           \A m \in Node \ {n} : terminal'[m] = terminal[m]
    PROVE  Outcomes'
<1> SUFFICES ASSUME NEW m \in Node PROVE Closed(m)'
  BY DEF Outcomes
<1>1. CASE m = n
  BY <1>1 DEF Outcomes, Closed, Ordered, EndsAs
<1>2. CASE m # n
  BY <1>2 DEF Outcomes, Closed, Ordered, EndsAs, StatusOf
<1>3. QED
  BY <1>1, <1>2

\* Its slot is empty, so any state but a success agrees with it.
LEMMA SlotsOfOthers ==
    ASSUME Slots, UNCHANGED <<runner, fate, result, timer, filled>>, NEW n \in Node,
           \A m \in Node \ {n} : terminal'[m] = terminal[m],
           \/ n \notin filled /\ terminal'[n] # "succeeded"
           \/ n \in filled /\ terminal'[n] \in {"succeeded", "cancelled", "abandoned"}
    PROVE  Slots'
<1> SUFFICES ASSUME NEW m \in Node PROVE Slot(m)'
  BY DEF Slots
<1>1. CASE m = n
  BY <1>1 DEF Slots, Slot
<1>2. CASE m # n
  BY <1>2, SlotStays DEF Slots
<1>3. QED
  BY <1>1, <1>2

\* Carrying one node forward.
LEMMA SeedTrue == ASSUME RunInv, TruthInv, SeedSatisfied PROVE TruthInv'
<1> USE DEF SeedSatisfied, counts, modes, outside
<1>1. /\ UNCHANGED <<plan, threads, queue, back, inFlight, live, pending, timedOut,
                     draining, cancelOrigin, trigger, tracker, visiting>>
      /\ pc = "seed" /\ pc' = "cascade" /\ agenda # {} /\ back = "seed"
      /\ decisions = << >> /\ work = << >> /\ visiting = {}
  BY DEF NotifyTerminal, RunInv, Points, TruthInv, Calm, Idle
<1>2. PICK n \in plan.satisfied :
         /\ n \in Node /\ agenda' = agenda \ {n} /\ n \in agenda
         /\ terminal' = RecordTerminal(n, "satisfied-from-prior")
         /\ written' = Write(n, "satisfied-from-prior")
         /\ outcomes' = [outcomes EXCEPT ![n] = @ \o Cut(1, "satisfied-from-prior")]
         /\ work' = <<[node |-> n, state |-> "satisfied-from-prior"]>>
         /\ decisions' = << >>
  <2>1. agenda \subseteq plan.satisfied /\ agenda \in SUBSET Node
    BY <1>1 DEF RunInv, Points, Starting, TypeOK, LoopTyped
  <2>2. QED
    BY <1>1, <2>1, LowestIsNode DEF NotifyTerminal
<1> HIDE DEF SeedSatisfied
<1>3. /\ terminal[n] = None
      /\ \A m \in plan.satisfied : terminal[m] = None <=> m \in agenda
  BY <1>1, <1>2 DEF TruthInv, Carried, Seeding
<1>4. /\ Recorded' /\ terminal'[n] = "satisfied-from-prior"
      /\ \A m \in Node \ {n} : terminal'[m] = terminal[m]
      /\ \A m \in Node : terminal[m] # None => terminal'[m] = terminal[m]
  <2>1. PICK s \in TerminalState : s = "satisfied-from-prior"
    BY NoneIsNoState
  <2>2. QED
    BY <1>2, <1>3, <2>1, RecordTrue DEF TruthInv
<1>5. n \in Tracked /\ n \notin Waiters /\ n \notin Reported /\ n \notin live /\ Tracked \subseteq Node
      /\ runner[n] = "absent" /\ n \notin plan.teardown
  BY <1>2, TruthTyped DEF TruthInv, Carried, SoundResume
<1>6. ReadyNodes' = {} /\ Waiters' = Waiters /\ Reported' = Reported /\ Unoffered' = Unoffered
  BY <1>1, <1>2 DEF ReadyNodes, Waiters, Reported, NodesOf, Unoffered, Starting, InitialReady,
                    InitialCount, Tracked
<1>7. Calm'
  BY <1>1, <1>2 DEF Calm
<1>8. Carried'
  <2>1. \A m \in plan.satisfied : terminal'[m] = None <=> m \in agenda'
    BY <1>2, <1>3, <1>4, NoneIsNoState, RunTyped
  <2>2. QED
    BY <1>1, <1>6, <2>1 DEF TruthInv, Carried, Seeding, threads
<1>9. Agree'
  <2>1. \A m \in Node : decided[m] # None => terminal[m] = decided[m]
    BY <1>1 DEF TruthInv, Agree, Known
  <2>2. remaining[n] = 0
    <3>1. remaining[n] \in Nat /\ upstreams[n] \in Seq(Node) /\ remaining[n] + Len(upstreams[n]) = InitialCount(n)
      BY <1>2 DEF RunInv, TrackerInv, Books
    <3>2. plan.data[n] = {} /\ plan.order[n] = {}
      BY <1>2 DEF TruthInv, SoundResume
    <3>3. InitialCount(n) = 0
      BY <3>2, FS_EmptySet DEF InitialCount
    <3>4. Len(upstreams[n]) \in Nat
      BY <3>1, LenProperties
    <3>5. QED
      BY <3>1, <3>3, <3>4
  <2>3. remaining' = remaining /\ decided' = decided /\ Tracked' = Tracked
    BY <1>1 DEF tracker, Tracked
  <2>4. \A m \in Tracked : terminal'[m] # None => remaining'[m] = 0
    BY <1>4, <1>5, <2>2, <2>3 DEF TruthInv, Agree
  <2>5. \A m \in Node : decided[m] # None => terminal'[m] = decided[m]
    BY <1>4, <1>5, <2>1
  <2>6. work' # << >> /\ DOMAIN work' = {1} /\ work'[1].node = n /\ work'[1].state = "satisfied-from-prior"
    BY <1>2
  <2>7. ASSUME NEW m \in Tracked, NEW s \in TerminalState, Known(m, s)'
        PROVE  decided[m] = s \/ Walked(m, s)'
    <3>1. terminal'[m] = s /\ s # None
      BY <1>2, <2>7, NoneIsNoState DEF Known
    <3>2. CASE m = n
      <4>1. \E i \in DOMAIN work' : work'[i].node = m /\ work'[i].state = s
        BY <1>4, <2>6, <3>1, <3>2
      <4>2. QED
        BY <4>1 DEF Walked
    <3>3. CASE m # n
      <4>1. Known(m, s)
        BY <1>4, <1>5, <3>1, <3>3 DEF Known
      <4>2. decided[m] = s \/ Walked(m, s)
        BY <1>1, <4>1 DEF TruthInv, Agree, Over
      <4>3. QED
        BY <1>1, <4>2 DEF Walked
    <3>4. QED
      BY <3>2, <3>3
  <2>8. \A i \in DOMAIN work' : work'[i].node \in Tracked /\ Known(work[i].node, work[i].state)'
    BY <1>4, <1>5, <2>6 DEF Known
  <2>9. \A m \in Node : decided'[m] # None => Known(m, decided[m])'
    BY <2>3, <2>5 DEF Known
  <2>10. DOMAIN decisions' = {} /\ Single(decisions, "propagated")'
    BY <1>2 DEF Single
  <2>11. /\ \A m \in Tracked' : \A s \in TerminalState : Known(m, s)' => decided'[m] = s \/ Walked(m, s)'
         /\ \A m \in Node : decided'[m] # None => Known(m, decided[m])'
         /\ \A m \in Tracked' : terminal'[m] # None => remaining'[m] = 0
         /\ \A i \in DOMAIN work' : work'[i].node \in Tracked' /\ Known(work[i].node, work[i].state)'
    BY <2>3, <2>4, <2>7, <2>8, <2>9
  <2>12. QED
    BY <2>10, <2>11 DEF Agree
<1>10. Undecided'
  <2>1. Hand' \subseteq Hand /\ n \notin Hand'
    BY <1>1, <1>5, <1>6 DEF Hand
  <2>2. pc \notin Over /\ Hand \subseteq Node /\ Unoffered \subseteq Node
    BY <1>1, TruthTyped DEF Over, Hand, RunInv, OneHand
  <2>3. (\A m \in Hand : terminal[m] = None) /\ \A m \in Unoffered \ plan.satisfied : terminal[m] = None
    BY <2>2 DEF TruthInv, Undecided
  <2>4. QED
    BY <1>1, <1>2, <1>4, <1>6, <2>1, <2>2, <2>3 DEF Undecided
<1>11. CleanUpLast'
  <2>1. \A t \in plan.teardown : t \in Node /\ t # n /\ terminal[t] = None
    BY <1>1, <1>5, RunTyped DEF TruthInv, CleanUpLast
  <2>2. QED
    BY <1>1, <1>4, <2>1 DEF CleanUpLast
<1>12. Buffers' /\ Messages'
  BY <1>1, <1>2, <1>3, <1>4, BuffersStay, MessagesStand DEF TruthInv, threads
<1>12a. Outcomes'
  <2> SUFFICES ASSUME NEW m \in Node PROVE Closed(m)'
    BY DEF Outcomes
  <2>1. outcomes \in [Node -> Seq(OutcomeRecord)] /\ Closed(m)
    BY DEF RunInv, TypeOK, LoopTyped, TruthInv, Outcomes
  <2>2. CASE m # n
    BY <1>2, <1>4, <2>1, <2>2 DEF Closed, Ordered, EndsAs
  <2>3. CASE m = n
    <3>1. PICK extra : extra = <<[attempt |-> 1, status |-> "satisfied-from-prior"]>>
      OBVIOUS
    <3>2. outcomes[n] = << >> /\ << >> \o extra = extra
      BY <1>3, <2>1, <2>3, <3>1 DEF Closed
    <3>3. outcomes'[n] = extra
      BY <1>2, <2>1, <3>1, <3>2 DEF Cut
    <3>4. Ordered(extra) /\ EndsAs(extra, "satisfied-from-prior")
      BY <3>1 DEF Ordered, EndsAs, StatusOf
    <3>5. terminal'[n] # None
      BY <1>4 DEF None
    <3>6. QED
      BY <1>4, <2>3, <3>3, <3>4, <3>5 DEF Closed
  <2>4. QED
    BY <2>2, <2>3
<1>13. Slots'
  <2>1. n \notin filled
    BY <1>2, <1>5 DEF TruthInv, Slots, Slot
  <2>2. QED
    BY <1>1, <1>2, <1>4, <2>1, SlotsOfOthers DEF TruthInv, threads
<1>14. Reasons' /\ SoundResume(plan)'
  BY <1>1, <1>4, <1>5, ReasonsStay DEF TruthInv, SoundResume
<1>15. QED
  BY <1>4, <1>7, <1>8, <1>9, <1>10, <1>11, <1>12, <1>12a, <1>13, <1>14 DEF TruthInv

-----------------------------------------------------------------------------
(* The cascade.                                                             *)

\* While a call goes on, what it decided stays known and in its order.
LEMMA KnownGrows ==
    ASSUME TrackerInv, Keeps, terminal' = terminal, Tracked \subseteq Node,
           \A i \in DOMAIN decisions : i \in DOMAIN decisions' /\ decisions'[i] = decisions[i]
    PROVE  /\ \A n, s : Known(n, s) => Known(n, s)'
           /\ \A i \in DOMAIN decisions : decisions[i].kind = "propagated" /\ Inherits(i) => Inherits(i)'
<1>1. \A n, s : Known(n, s) => Known(n, s)'
  BY DEF Known, DecidesAs
<1>2. ASSUME NEW i \in DOMAIN decisions, decisions[i].kind = "propagated", Inherits(i)
      PROVE  Inherits(i)'
  <2>1. PICK d \in Decision : d = decisions[i] /\ d = decisions'[i] /\ d.node \in Node /\ Complete(d.node)
    <3>1. decisions \in Seq(Decision) /\ DecisionSound(decisions[i])
      BY DEF TrackerInv, TrackerTypeOK, DecisionsSound
    <3>2. decisions[i] \in Decision
      BY <3>1, ElementOfSeq
    <3>3. decisions[i].node \in Node
      BY <3>2 DEF Decision
    <3>4. QED
      BY <1>2, <3>1, <3>2, <3>3 DEF DecisionSound, Blames
  <2>2. /\ terminal[d.node] = None /\ d.state = Verdict(d.node)
        /\ \A u \in Upstream(d.node) :
             \/ terminal[u] = decided[u]
             \/ \E j \in DOMAIN decisions : j < i /\ DecidesAs(decisions[j], u, decided[u])
    BY <1>2, <2>1 DEF Inherits
  <2>3. Verdict(d.node)' = Verdict(d.node)
    BY <2>1, PictureIsFinal DEF TrackerInv, TrackerTypeOK
  <2>4. Upstream(d.node)' = Upstream(d.node) /\ \A u \in Upstream(d.node) : decided'[u] = decided[u]
    <3>1. Upstream(d.node) \subseteq Node
      BY <2>1, PlanTyped DEF TrackerInv, TrackerTypeOK
    <3>2. QED
      BY <2>1, <3>1 DEF Keeps, Complete, Upstream
  <2>5. \A u \in Upstream(d.node)' :
             \/ terminal'[u] = decided'[u]
             \/ \E j \in DOMAIN decisions' : j < i /\ DecidesAs(decisions'[j], u, decided'[u])
    BY <2>2, <2>4
  <2>6. QED
    BY <2>1, <2>2, <2>3, <2>5 DEF Inherits
<1>3. QED
  BY <1>1, <1>2

\* A node is known with one state only.
LEMMA KnownOnce ==
    ASSUME Agree, NEW n, NEW s, NEW t, Known(n, s), Known(n, t), s # None, t # None
    PROVE  s = t
BY DEF Agree, Known, DecidesAs, Single

\* Taking an item of work decides a node as it is known.
LEMMA PopAgrees ==
    ASSUME TrackerInv, Agree, PopWork, UNCHANGED <<pc, terminal>>, Tracked \subseteq Node
    PROVE  Agree'
<1> DEFINE node == work[Len(work)].node
           state == work[Len(work)].state
<1>1. Keeps /\ Tracked' = Tracked /\ decided \in [Node -> TerminalState \cup {None}]
  BY PopDecides DEF TrackerInv, TrackerTypeOK
<1>2. decisions' = decisions /\ remaining' = remaining /\ work # << >>
  BY DEF PopWork
<1>3. /\ \A n, s : Known(n, s) => Known(n, s)'
      /\ \A i \in DOMAIN decisions : decisions[i].kind = "propagated" /\ Inherits(i) => Inherits(i)'
  BY <1>1, <1>2, KnownGrows
<1>4. /\ work \in Seq([node : Node, state : TerminalState])
      /\ DOMAIN work = 1..Len(work) /\ Len(work) \in Nat /\ Len(work) \in DOMAIN work
      /\ DOMAIN work' = 1..(Len(work) - 1)
      /\ \A i \in DOMAIN work' : i \in DOMAIN work /\ work'[i] = work[i]
  <2>1. work \in Seq([node : Node, state : TerminalState]) /\ work' = SubSeq(work, 1, Len(work) - 1)
    BY DEF TrackerInv, TrackerTypeOK, PopWork
  <2>2. QED
    BY <1>2, <2>1, LastAndRest
<1>5. Known(node, state) /\ node \in Tracked
  BY <1>4 DEF Agree
<1>6. \A n \in Node : \/ decided'[n] = decided[n] /\ (n = node => decided[n] # None)
                      \/ n = node /\ decided[n] = None /\ decided'[n] = state
  <2>1. CASE decided[node] = None
    BY <1>1, <1>5, <2>1 DEF PopWork
  <2>2. CASE decided[node] # None
    BY <2>2 DEF PopWork
  <2>3. QED
    BY <2>1, <2>2
<1> HIDE DEF node, state
<1>7. \A n \in Node : decided'[n] # None => Known(n, decided[n])'
  <2> SUFFICES ASSUME NEW n \in Node, decided'[n] # None PROVE Known(n, decided[n])'
    OBVIOUS
  <2>1. CASE decided'[n] = decided[n]
    <3>1. Known(n, decided[n])
      BY <2>1 DEF Agree
    <3>2. PICK s : s = decided[n] /\ s = decided'[n] /\ Known(n, s)
      BY <2>1, <3>1
    <3>3. Known(n, s)'
      BY <1>3, <3>2
    <3>4. QED
      BY <3>2, <3>3
  <2>2. CASE n = node /\ decided'[n] = state
    <3>1. PICK s : s = state /\ s = decided'[n] /\ Known(n, s)
      BY <1>5, <2>2
    <3>2. Known(n, s)'
      BY <1>3, <3>1
    <3>3. QED
      BY <3>1, <3>2
  <2>3. QED
    BY <1>6, <2>1, <2>2
<1>8. \A i \in DOMAIN work' : work'[i].node \in Tracked' /\ Known(work[i].node, work[i].state)'
  <2> SUFFICES ASSUME NEW i \in DOMAIN work'
               PROVE work'[i].node \in Tracked' /\ Known(work[i].node, work[i].state)'
    OBVIOUS
  <2>1. PICK e : e = work[i] /\ e = work'[i] /\ e.node \in Tracked /\ Known(e.node, e.state)
    BY <1>4 DEF Agree
  <2>2. Known(e.node, e.state)'
    BY <1>3, <2>1
  <2>3. QED
    BY <1>1, <2>1, <2>2
<1>9. pc' \notin Over => \A n \in Tracked' : \A s \in TerminalState :
                            Known(n, s)' => decided'[n] = s \/ Walked(n, s)'
  <2> SUFFICES ASSUME pc \notin Over, NEW n \in Tracked, NEW s \in TerminalState, Known(n, s)',
                      decided'[n] # s
               PROVE  \E i \in DOMAIN work' : work'[i].node = n /\ work'[i].state = s
    BY <1>1 DEF Walked
  <2>1. decided[n] # s
    BY <1>6, NoneIsNoState
  <2>2. Known(n, s)
    BY <1>2 DEF Known
  <2>3. PICK i \in DOMAIN work : work[i].node = n /\ work[i].state = s
    BY <2>1, <2>2 DEF Agree, Walked
  <2>4. i # Len(work)
    <3>1. SUFFICES ASSUME i = Len(work) PROVE FALSE
      OBVIOUS
    <3>2. n = node /\ state = s
      BY <2>3, <3>1 DEF node, state
    <3>3. decided[n] # None
      BY <1>6, <3>2
    <3>4. Known(n, decided[n])
      BY <3>3 DEF Agree
    <3>5. QED
      BY <2>1, <2>2, <3>3, <3>4, KnownOnce, NoneIsNoState
  <2>5. i \in DOMAIN work'
    BY <1>4, <2>4
  <2>6. QED
    BY <1>4, <2>3, <2>5
<1>10. /\ \A n \in Tracked' : terminal'[n] # None => remaining'[n] = 0
       /\ \A i \in DOMAIN decisions' : remaining'[decisions'[i].node] = 0
       /\ \A i \in DOMAIN decisions' : decisions'[i].kind = "propagated" => Inherits(i)'
       /\ Single(decisions, "propagated")'
  BY <1>1, <1>2, <1>3 DEF Agree, Single
<1>11. QED
  BY <1>7, <1>8, <1>9, <1>10 DEF Agree

\* A dependent being told has no state: it was not told of everything before.
LEMMA ToldIsUndecided ==
    ASSUME TrackerInv, Agree, SoundResume(plan), NEW d \in visiting, decided[d] = None
    PROVE  /\ d \in Tracked /\ d \in Node /\ remaining[d] # 0 /\ terminal[d] = None
           /\ d \notin plan.satisfied
           /\ \A i \in DOMAIN decisions : decisions[i].node # d
<1>1. d \in Tracked /\ d \in Node /\ plan \in Plans /\ Books(d)
  BY DEF TrackerInv, TrackerTypeOK, Tracked
<1>2. telling \in Upstream(d) /\ telling \notin Told(d)
  BY DEF TrackerInv, VisitsFresh
<1>3. remaining[d] # 0
  BY <1>1, <1>2, UntoldHoldsCount
<1>4. d \notin plan.satisfied
  BY <1>2 DEF SoundResume, Upstream
<1>5. QED
  BY <1>1, <1>3, <1>4 DEF Agree

\* Telling a dependent keeps the tables in agreement; if that decides it, the
\* decision is applied after those of its upstreams.
LEMMA VisitAgrees ==
    ASSUME TrackerInv, Agree, SoundResume(plan), NEW d \in visiting,
           PassesOver(d) \/ CountsDown(d) \/ FiresAt(d) \/ InheritsAt(d),
           UNCHANGED <<pc, terminal>>, Tracked \subseteq Node
    PROVE  /\ Agree'
           /\ \/ ReadyNodes' \subseteq ReadyNodes
              \/ /\ ReadyNodes' = ReadyNodes \cup {d}
                 /\ terminal[d] = None /\ d \notin plan.satisfied /\ d \in Node
<1>1. Keeps /\ decided' = decided /\ plan' = plan /\ Tracked' = Tracked /\ TrackerInv'
  BY VisitTracks DEF PassesOver, CountsDown, FiresAt, InheritsAt, Tells, tracker, Tracked
<1>2. CASE PassesOver(d)
  <2>1. Agree'
    BY <1>2, AgreeStays DEF PassesOver
  <2>2. QED
    BY <1>2, <2>1 DEF PassesOver, ReadyNodes, NodesOf
<1>3. ASSUME decided[d] = None, Tells(d)
      PROVE  /\ d \in Tracked /\ d \in Node /\ remaining[d] # 0 /\ terminal[d] = None
             /\ d \notin plan.satisfied
             /\ \A i \in DOMAIN decisions : decisions[i].node # d
             /\ \A n \in Node \ {d} : remaining'[n] = remaining[n]
             /\ \A n \in Tracked : terminal[n] # None => remaining'[n] = 0
             /\ \A i \in DOMAIN decisions : remaining'[decisions[i].node] = 0
  <2>1. /\ d \in Tracked /\ d \in Node /\ remaining[d] # 0 /\ terminal[d] = None
        /\ d \notin plan.satisfied
        /\ \A i \in DOMAIN decisions : decisions[i].node # d
    BY <1>3, ToldIsUndecided
  <2>2. remaining \in [Node -> Nat] /\ decisions \in Seq(Decision)
    BY DEF TrackerInv, TrackerTypeOK
  <2>3. \A n \in Node \ {d} : remaining'[n] = remaining[n]
    BY <1>3, <2>2 DEF Tells
  <2>4. \A i \in DOMAIN decisions : decisions[i].node \in Node
    BY <2>2, ElementOfSeq DEF Decision
  <2>5. QED
    BY <2>1, <2>3, <2>4 DEF Agree
<1>4. CASE CountsDown(d)
  <2>1. decisions' = decisions /\ work' = work
    BY <1>4 DEF CountsDown
  <2>2. /\ \A n, s : Known(n, s) => Known(n, s)'
        /\ \A i \in DOMAIN decisions : decisions[i].kind = "propagated" /\ Inherits(i) => Inherits(i)'
    BY <1>1, <2>1, KnownGrows
  <2>3. \A n, s : Walked(n, s) => Walked(n, s)'
    BY <2>1 DEF Walked
  <2>4. Single(decisions, "propagated")'
    BY <2>1 DEF Agree, Single
  <2>5. \A n, s : Known(n, s)' => Known(n, s)
    BY <2>1 DEF Known
  <2>6. Agree'
    BY <1>1, <1>3, <1>4, <2>1, <2>2, <2>3, <2>4, <2>5 DEF Agree, CountsDown
  <2>7. QED
    BY <2>1, <2>6 DEF ReadyNodes, NodesOf
<1>5. ASSUME NEW e \in Decision, Appended(decisions', decisions, e), e.node = d,
             decided[d] = None, Tells(d), remaining'[d] = 0,
             e.kind = "propagated" => e.state = Verdict(d)
      PROVE  /\ \A n, s : Known(n, s) => Known(n, s)'
             /\ \A n, s : Known(n, s)' => Known(n, s) \/ DecidesAs(e, n, s)
             /\ \A i \in DOMAIN decisions' : remaining'[decisions'[i].node] = 0
             /\ \A i \in DOMAIN decisions' : decisions'[i].kind = "propagated" => Inherits(i)'
             /\ Single(decisions, "propagated")'
             /\ e.kind = "propagated" => Known(d, Verdict(d))'
  <2>1. decisions \in Seq(Decision)
    BY DEF TrackerInv, TrackerTypeOK
  <2>2. /\ DOMAIN decisions' = DOMAIN decisions \cup {Len(decisions) + 1}
        /\ DOMAIN decisions = 1..Len(decisions) /\ Len(decisions) \in Nat
        /\ \A i \in DOMAIN decisions : decisions'[i] = decisions[i]
        /\ decisions'[Len(decisions) + 1] = e
    BY <1>5, <2>1, OneMoreDecision, LenProperties DEF Appended
  <2>3. /\ \A n, s : Known(n, s) => Known(n, s)'
        /\ \A i \in DOMAIN decisions : decisions[i].kind = "propagated" /\ Inherits(i) => Inherits(i)'
    BY <1>1, <2>2, KnownGrows
  <2>4. \A i \in DOMAIN decisions' : remaining'[decisions'[i].node] = 0
    BY <1>3, <1>5, <2>2
  <2>5. Single(decisions, "propagated")'
    <3>1. d \notin NodesOf(decisions, "propagated")
      BY <1>3, <1>5 DEF NodesOf
    <3>2. Single(decisions, "propagated")
      BY DEF Agree
    <3>3. Single(decisions', "propagated")
      BY <1>5, <2>1, <3>1, <3>2, NodesOfAppend
    <3>4. QED
      BY <3>3 DEF Single
  <2>6. ASSUME e.kind = "propagated"
        PROVE  (\E k : Inherits(k)' /\ DOMAIN decisions' = DOMAIN decisions \cup {k}) /\ Known(d, Verdict(d))'
    <3>1. Complete(d) /\ Upstream(d)' = Upstream(d) /\ Verdict(d)' = Verdict(d)
      BY <1>1, <1>5, GateSeesAll DEF Upstream, Verdict
    <3>2. \A u \in Upstream(d) : u \in Node /\ Known(u, decided[u])
      BY <1>3, <1>5, <3>1, PlanTyped DEF Complete, Agree, TrackerInv, TrackerTypeOK
    <3>3. \A u \in Upstream(d) :
             \/ terminal[u] = decided[u]
             \/ \E j \in DOMAIN decisions : DecidesAs(decisions[j], u, decided[u])
      BY <3>2 DEF Known
    <3>4. \A j \in DOMAIN decisions : j \in DOMAIN decisions' /\ j < Len(decisions) + 1
                                      /\ decisions'[j] = decisions[j]
      BY <2>2
    <3>5. \A u \in Upstream(d)' :
             \/ terminal'[u] = decided'[u]
             \/ \E j \in DOMAIN decisions' : j < Len(decisions) + 1 /\ DecidesAs(decisions'[j], u, decided'[u])
      BY <1>1, <3>1, <3>3, <3>4
    <3>6. terminal[d] = None
      BY <1>3, <1>5
    <3>7. Known(d, Verdict(d))'
      BY <1>5, <2>2, <2>6, <3>1, <3>6 DEF Known, DecidesAs
    <3>8. PICK k : k = Len(decisions) + 1
      OBVIOUS
    <3>9. Inherits(k)'
      BY <1>5, <2>2, <2>6, <3>1, <3>5, <3>6, <3>8 DEF Inherits
    <3>10. Inherits(k)' /\ DOMAIN decisions' = DOMAIN decisions \cup {k}
      BY <2>2, <3>8, <3>9
    <3>11. QED
      BY <3>7, <3>10
  <2>7. \A i \in DOMAIN decisions' : decisions'[i].kind = "propagated" => Inherits(i)'
    <3>1. CASE e.kind = "propagated"
      <4>1. PICK k : Inherits(k)' /\ DOMAIN decisions' = DOMAIN decisions \cup {k}
        BY <2>6, <3>1
      <4>2. QED
        BY <2>2, <2>3, <4>1 DEF Agree
    <3>2. CASE e.kind # "propagated"
      BY <2>2, <2>3, <3>2 DEF Agree
    <3>3. QED
      BY <3>1, <3>2
  <2>8. \A n, s : Known(n, s)' => Known(n, s) \/ DecidesAs(e, n, s)
    BY <2>2 DEF Known
  <2>9. QED
    BY <2>3, <2>4, <2>5, <2>6, <2>7, <2>8
<1>6. CASE FiresAt(d)
  <2>1. PICK e \in Decision : e = Ready(d) /\ e.node = d /\ e.kind = "ready" /\ Appended(decisions', decisions, e)
    <3>1. Ready(d) \in Decision
      BY <1>3, <1>6 DEF FiresAt, Ready, Decision
    <3>2. QED
      BY <1>6, <3>1 DEF FiresAt, Ready, Appended
  <2>2. /\ decided[d] = None /\ Tells(d) /\ remaining'[d] = 0 /\ work' = work
    BY <1>6 DEF FiresAt
  <2>3. /\ \A n, s : Known(n, s)' <=> Known(n, s)
        /\ \A i \in DOMAIN decisions' : remaining'[decisions'[i].node] = 0
        /\ \A i \in DOMAIN decisions' : decisions'[i].kind = "propagated" => Inherits(i)'
        /\ Single(decisions, "propagated")'
    BY <1>5, <2>1, <2>2 DEF DecidesAs
  <2>4. \A n, s : Walked(n, s) => Walked(n, s)'
    BY <2>2 DEF Walked
  <2>5. Agree'
    BY <1>1, <1>3, <2>2, <2>3, <2>4 DEF Agree
  <2>6. ReadyNodes' = ReadyNodes \cup {d}
    <3>1. decisions \in Seq(Decision)
      BY DEF TrackerInv, TrackerTypeOK
    <3>2. NodesOf(decisions', "ready") = NodesOf(decisions, "ready") \cup {d}
      BY <2>1, <3>1, NodesOfAppend
    <3>3. QED
      BY <3>2 DEF ReadyNodes, NodesOf
  <2>7. QED
    BY <1>3, <2>2, <2>5, <2>6
<1>7. CASE InheritsAt(d)
  <2>1. PICK o : o = OriginFor(upstreams'[d], Verdict(d))
    OBVIOUS
  <2>2. PICK e \in Decision : /\ e.node = d /\ e.kind = "propagated" /\ e.state = Verdict(d)
                              /\ Appended(decisions', decisions, e)
    <3>1. Propagated(d, Verdict(d), o) \in Decision
      BY <1>7, <2>1, InheritedTyped
    <3>2. QED
      BY <1>7, <2>1, <3>1 DEF InheritsAt, Propagated, Appended
  <2>3. /\ decided[d] = None /\ Tells(d) /\ remaining'[d] = 0
        /\ work' = Append(work, [node |-> d, state |-> Verdict(d)])
    BY <1>7 DEF InheritsAt
  <2>4. /\ \A n, s : Known(n, s) => Known(n, s)'
        /\ \A n, s : Known(n, s)' => Known(n, s) \/ DecidesAs(e, n, s)
        /\ \A i \in DOMAIN decisions' : remaining'[decisions'[i].node] = 0
        /\ \A i \in DOMAIN decisions' : decisions'[i].kind = "propagated" => Inherits(i)'
        /\ Single(decisions, "propagated")' /\ Known(d, Verdict(d))'
    BY <1>5, <2>2, <2>3
  <2>5. PICK w \in [node : Node, state : TerminalState] :
           w = [node |-> d, state |-> Verdict(d)] /\ w.node = d /\ w.state = Verdict(d)
           /\ work' = Append(work, w)
    <3>1. Verdict(d) \in TerminalState
      BY <1>7, <2>3, GateSeesAll DEF InheritsAt
    <3>2. [node |-> d, state |-> Verdict(d)] \in [node : Node, state : TerminalState]
      BY <1>3, <2>3, <3>1
    <3>3. QED
      BY <2>3, <3>2
  <2>6. /\ DOMAIN work' = DOMAIN work \cup {Len(work) + 1}
        /\ \A i \in DOMAIN work : work'[i] = work[i]
        /\ work'[Len(work) + 1] = w
    <3>1. work \in Seq([node : Node, state : TerminalState])
      BY DEF TrackerInv, TrackerTypeOK
    <3>2. QED
      BY <2>5, <3>1, OneMoreDecision
  <2>7. \A n, s : Walked(n, s) => Walked(n, s)'
    BY <2>6 DEF Walked
  <2>8. PICK v : v = Verdict(d) /\ Known(d, v)'
    <3>1. Verdict(d)' = Verdict(d)
      BY <1>1 DEF Verdict, Upstream
    <3>2. QED
      BY <2>4, <3>1
  <2>9. \A i \in DOMAIN work' : work'[i].node \in Tracked' /\ Known(work[i].node, work[i].state)'
    <3> SUFFICES ASSUME NEW i \in DOMAIN work'
                 PROVE work'[i].node \in Tracked' /\ Known(work[i].node, work[i].state)'
      OBVIOUS
    <3>1. CASE i \in DOMAIN work
      <4>1. PICK m : m = work[i] /\ m = work'[i] /\ m.node \in Tracked /\ Known(m.node, m.state)
        BY <2>6, <3>1 DEF Agree
      <4>2. Known(m.node, m.state)'
        BY <2>4, <4>1
      <4>3. QED
        BY <1>1, <4>1, <4>2
    <3>2. CASE i = Len(work) + 1
      BY <1>1, <1>3, <2>3, <2>5, <2>6, <2>8, <3>2
    <3>3. QED
      BY <2>6, <3>1, <3>2
  <2>10. \A n, s : Known(n, s)' => Known(n, s) \/ Walked(n, s)'
    BY <2>2, <2>4, <2>5, <2>6 DEF DecidesAs, Walked
  <2>11. Agree'
    BY <1>1, <1>3, <2>3, <2>4, <2>7, <2>9, <2>10 DEF Agree
  <2>12. ReadyNodes' = ReadyNodes
    <3>1. decisions \in Seq(Decision)
      BY DEF TrackerInv, TrackerTypeOK
    <3>2. NodesOf(decisions', "ready") = NodesOf(decisions, "ready")
      BY <2>2, <3>1, NodesOfAppend
    <3>3. QED
      BY <3>2 DEF ReadyNodes, NodesOf
  <2>13. QED
    BY <2>11, <2>12
<1>8. QED
  BY <1>2, <1>4, <1>6, <1>7

\* The tracker walks on.
LEMMA CascadeTrue == ASSUME RunInv, TruthInv, CascadeStep PROVE TruthInv'
<1> USE DEF CascadeStep, counts, modes, outside, records, TruthInv
<1>1. /\ UNCHANGED <<plan, threads, queue, back, agenda, terminal, written, outcomes, live, pending,
                     timedOut, draining, cancelOrigin, trigger>>
      /\ pc = "cascade" /\ pc' \in {"cascade", "apply"}
  BY DEF Cascade, PopWork, VisitDependent
<1>2. Tracked \subseteq Node /\ Tracked' = Tracked
  BY <1>1, TruthTyped DEF Tracked
<1>3. /\ Agree' /\ Calm'
      /\ \E S : /\ ReadyNodes' \subseteq ReadyNodes \cup S
                /\ \A d \in S : terminal[d] = None /\ d \notin plan.satisfied
  <2>1. CASE Idle /\ pc' = "apply" /\ UNCHANGED <<plan, tracker, call>>
    <3>1. Agree'
      BY <1>1, <2>1, AgreeStays DEF Over, call
    <3>2. ReadyNodes' = ReadyNodes
      BY <2>1 DEF ReadyNodes, NodesOf, call
    <3>3. Calm'
      BY <2>1 DEF Calm, Idle, call
    <3>4. \E S : S = {}
      OBVIOUS
    <3>5. QED
      BY <3>1, <3>2, <3>3, <3>4
  <2>2. CASE PopWork /\ UNCHANGED pc
    <3>1. Agree'
      BY <1>1, <1>2, <2>2, PopAgrees DEF RunInv
    <3>2. ReadyNodes' = ReadyNodes
      BY <2>2 DEF ReadyNodes, NodesOf, PopWork
    <3>3. Calm'
      BY <1>1, <2>2 DEF Calm
    <3>4. \E S : S = {}
      OBVIOUS
    <3>5. QED
      BY <3>1, <3>2, <3>3, <3>4
  <2>3. CASE VisitDependent /\ UNCHANGED pc
    <3>1. PICK d \in visiting : PassesOver(d) \/ CountsDown(d) \/ FiresAt(d) \/ InheritsAt(d)
      BY <2>3, VisitSplit DEF RunInv
    <3>2. /\ Agree'
          /\ \/ ReadyNodes' \subseteq ReadyNodes
             \/ /\ ReadyNodes' = ReadyNodes \cup {d}
                /\ terminal[d] = None /\ d \notin plan.satisfied /\ d \in Node
      BY <1>1, <1>2, <2>3, <3>1, VisitAgrees DEF RunInv
    <3>3. Calm'
      BY <1>1, <2>3 DEF Calm
    <3>4. CASE ReadyNodes' \subseteq ReadyNodes
      <4>1. \E S : S = {}
        OBVIOUS
      <4>2. QED
        BY <3>2, <3>3, <3>4, <4>1
    <3>5. CASE ReadyNodes' = ReadyNodes \cup {d} /\ terminal[d] = None /\ d \notin plan.satisfied
      <4>1. PICK S : S = {d}
        OBVIOUS
      <4>2. \A e \in S : terminal[e] = None /\ e \notin plan.satisfied
        BY <3>5, <4>1
      <4>3. ReadyNodes' \subseteq ReadyNodes \cup S
        BY <3>5, <4>1
      <4>4. QED
        BY <3>2, <3>3, <4>2, <4>3
    <3>6. QED
      BY <3>2, <3>4, <3>5
  <2>4. QED
    BY <2>1, <2>2, <2>3 DEF Cascade
<1>4. PICK S : /\ ReadyNodes' \subseteq ReadyNodes \cup S
               /\ \A d \in S : terminal[d] = None /\ d \notin plan.satisfied
  BY <1>3
<1>5. Waiters' = Waiters /\ Reported' = Reported /\ Unoffered' = Unoffered
  BY <1>1 DEF Waiters, Reported, NodesOf, ToSet, Unoffered, Starting, InitialReady, InitialCount, Tracked
<1>6. Carried'
  <2>1. plan.satisfied \cap (ReadyNodes' \cup Waiters \cup Reported) = {}
    BY <1>4 DEF Carried
  <2>2. Seeding' = Seeding
    BY <1>1 DEF Seeding
  <2>3. QED
    BY <1>1, <1>5, <2>1, <2>2 DEF Carried, threads
<1>7. Undecided'
  <2>1. Hand' \subseteq Hand \cup S
    BY <1>1, <1>4, <1>5 DEF Hand
  <2>2. pc \notin Over
    BY <1>1 DEF Over
  <2>3. (\A m \in Hand : terminal[m] = None) /\ \A m \in Unoffered \ plan.satisfied : terminal[m] = None
    BY <2>2 DEF Undecided
  <2>4. QED
    BY <1>1, <1>4, <1>5, <2>1, <2>3 DEF Undecided
<1>8. CleanUpLast'
  BY <1>1, CleanUpStays
<1>9. Recorded' /\ Outcomes' /\ Buffers' /\ Slots' /\ Messages' /\ Reasons' /\ SoundResume(plan)'
  <2>1. SoundResume(plan)'
    BY <1>1 DEF SoundResume
  <2>2. QED
    BY <1>1, <1>2, <2>1, RecordsStay, BuffersStay, SlotsStay, MessagesStand, ReasonsStay DEF threads
<1>10. QED
  BY <1>3, <1>6, <1>7, <1>8, <1>9

-----------------------------------------------------------------------------
(* Applying a decision.                                                     *)

\* A rule that does not fire gives no success.
LEMMA NoSuccessInherited ==
    ASSUME NEW rule \in TriggerRule, NEW states
    PROVE  EvaluateRule(rule, states) # "succeeded"
BY DEF EvaluateRule, EvalAllSucceeded, EvalAnyFailed, TriggerRule, Fires

\* The node of a propagated decision never was in a hand, and inherits what its
\* rule says.
LEMMA InheritorFacts ==
    ASSUME RunInv, TruthInv, NEW i \in DOMAIN decisions, decisions[i].kind = "propagated",
           NEW n, n = decisions[i].node
    PROVE  /\ n \in Tracked /\ n \in Node /\ n \notin Offered /\ n \notin plan.satisfied
           /\ n \notin filled /\ n \notin Hand /\ n \notin Unoffered
           /\ decisions[i].state \in TerminalState \ {"succeeded"}
           /\ terminal[n] = None /\ decisions[i].state = Verdict(n)
           /\ Complete(n) /\ Upstream(n) # {} /\ Upstream(n) \subseteq Node
<1>1. decisions[i] \in Decision /\ Blames(n, decisions[i].state, decisions[i].origin)
  BY RunTyped, ElementOfSeq DEF RunInv, TrackerInv, DecisionsSound, DecisionSound
<1>2. n \in Tracked /\ n \in Node /\ decisions[i].state \in TerminalState
  BY <1>1, RunTyped DEF Decision
<1>3. terminal[n] = None /\ decisions[i].state = Verdict(n)
  BY DEF TruthInv, Agree, Inherits
<1>4. Complete(n) /\ Upstream(n) # {}
  BY <1>1 DEF Blames
<1>5. plan.rule[n] \in TriggerRule /\ Upstream(n) \subseteq Node
  BY <1>2, RunTyped, PlanTyped
<1>6. decisions[i].state # "succeeded" /\ Verdict(n) # Fires
  BY <1>2, <1>3, <1>5, NoSuccessInherited, NoneIsNoState DEF Verdict
<1>7. n \notin Offered
  BY <1>4, <1>6 DEF Offered, RuleFired
<1>8. n \notin Hand /\ n \notin Started /\ n \notin Unoffered
  BY <1>7, TruthTyped DEF Hand, RunInv, OneHand
<1>9. n \notin filled
  BY <1>2, <1>8 DEF TruthInv, Slots, Slot, Started
<1>10. n \notin plan.satisfied
  BY <1>4 DEF TruthInv, SoundResume, Upstream
<1>11. QED
  BY <1>1, <1>2, <1>3, <1>4, <1>5, <1>6, <1>7, <1>8, <1>9, <1>10

\* Applying it keeps the tables in agreement.
LEMMA InheritAgrees ==
    ASSUME RunInv, TruthInv, decisions # << >>, Head(decisions).kind = "propagated",
           NEW n, n = Head(decisions).node, NEW s, s = Head(decisions).state,
           pc = "apply", pc' = pc, decisions' = Tail(decisions), UNCHANGED <<plan, tracker, work>>,
           terminal'[n] = s, \A m \in Node \ {n} : terminal'[m] = terminal[m]
    PROVE  Agree'
<1> USE DEF tracker, TruthInv
<1>1. decisions \in Seq(Decision) /\ Tracked \subseteq Node
  BY RunTyped
<1>2. /\ DOMAIN decisions' = 1..(Len(decisions) - 1) /\ DOMAIN decisions = 1..Len(decisions)
      /\ Len(decisions) \in Nat /\ 1 \in DOMAIN decisions /\ Head(decisions) = decisions[1]
      /\ \A i \in DOMAIN decisions' : i + 1 \in DOMAIN decisions /\ decisions'[i] = decisions[i + 1]
      /\ \A k \in DOMAIN decisions : k # 1 => k - 1 \in DOMAIN decisions' /\ decisions[k] = decisions'[k - 1]
  BY <1>1, TailElements
<1>3. /\ n \in Tracked /\ n \in Node /\ s \in TerminalState /\ s # None /\ terminal[n] = None
      /\ DecidesAs(decisions[1], n, s)
  BY <1>2, InheritorFacts, NoneIsNoState DEF DecidesAs
<1>4. work = << >>
  BY DEF Calm, Idle
<1>5. \A i \in DOMAIN decisions : decisions[i].kind = "propagated" /\ decisions[i].node = n => i = 1
  BY <1>2 DEF Agree, Single
<1>6. ASSUME NEW m \in Node, NEW t, t # None PROVE Known(m, t)' <=> Known(m, t)
  <2>1. CASE m = n
    <3>1. Known(m, t)' <=> t = s
      BY <1>3, <2>1 DEF Known
    <3>2. Known(m, t) <=> t = s
      BY <1>2, <1>3, <1>5, <1>6, <2>1 DEF Known, DecidesAs
    <3>3. QED
      BY <3>1, <3>2
  <2>2. CASE m # n
    <3>1. terminal'[m] = terminal[m]
      BY <2>2
    <3>2. (\E i \in DOMAIN decisions' : DecidesAs(decisions'[i], m, t))
            <=> \E i \in DOMAIN decisions : DecidesAs(decisions[i], m, t)
      BY <1>2, <1>3, <2>2 DEF DecidesAs
    <3>3. QED
      BY <3>1, <3>2 DEF Known
  <2>3. QED
    BY <2>1, <2>2
<1>7. \A m \in Node : decided'[m] # None => Known(m, decided[m])'
  <2> SUFFICES ASSUME NEW m \in Node, decided[m] # None PROVE Known(m, decided[m])'
    OBVIOUS
  <2>1. PICK t : t = decided[m] /\ t = decided'[m] /\ t # None /\ Known(m, t)
    BY DEF Agree
  <2>2. Known(m, t)'
    BY <1>6, <2>1
  <2>3. QED
    BY <2>1, <2>2
<1>8. \A m \in Tracked' : \A t \in TerminalState : Known(m, t)' => decided'[m] = t \/ Walked(m, t)'
  <2>1. Tracked' = Tracked
    BY DEF Tracked
  <2>2. \A m \in Tracked : \A t \in TerminalState : Known(m, t) => decided[m] = t
    BY <1>4 DEF Agree, Walked, Over
  <2>3. QED
    BY <1>1, <1>6, <2>1, <2>2, NoneIsNoState
<1>9. /\ \A m \in Tracked' : terminal'[m] # None => remaining'[m] = 0
      /\ \A i \in DOMAIN decisions' : remaining'[decisions'[i].node] = 0
  <2>1. remaining[n] = 0
    BY <1>2 DEF Agree
  <2>2. QED
    BY <1>1, <1>2, <2>1 DEF Agree, Tracked
<1>10. ASSUME NEW i \in DOMAIN decisions', decisions'[i].kind = "propagated" PROVE Inherits(i)'
  <2>1. PICK d \in Decision, k \in DOMAIN decisions :
          /\ k = i + 1 /\ d = decisions[k] /\ d = decisions'[i] /\ d.kind = "propagated"
          /\ d.node \in Node /\ terminal[d.node] = None /\ d.state = Verdict(d.node)
          /\ Complete(d.node) /\ Upstream(d.node) \subseteq Node
    <3>1. PICK k \in DOMAIN decisions : k = i + 1 /\ decisions'[i] = decisions[k]
      BY <1>2
    <3>2. decisions[k] \in Decision
      BY <1>1, ElementOfSeq
    <3>3. QED
      BY <1>10, <3>1, <3>2, InheritorFacts
  <2>2. d.node # n
    BY <1>2, <1>5, <2>1
  <2>3. \A u \in Upstream(d.node) :
             \/ terminal[u] = decided[u]
             \/ \E j \in DOMAIN decisions : j < k /\ DecidesAs(decisions[j], u, decided[u])
    BY <2>1 DEF Agree, Inherits
  <2>4. ASSUME NEW u \in Upstream(d.node)
        PROVE  \/ terminal'[u] = decided[u]
               \/ \E j \in DOMAIN decisions' : j < i /\ DecidesAs(decisions'[j], u, decided[u])
    <3>1. u \in Node /\ decided[u] # None
      BY <2>1 DEF Complete
    <3>2. CASE terminal[u] = decided[u]
      <4>1. u # n
        BY <1>3, <3>1, <3>2
      <4>2. QED
        BY <3>1, <3>2, <4>1
    <3>3. ASSUME NEW j \in DOMAIN decisions, j < k, DecidesAs(decisions[j], u, decided[u]), j = 1
          PROVE  terminal'[u] = decided[u]
      BY <1>3, <3>3 DEF DecidesAs
    <3>4. ASSUME NEW j \in DOMAIN decisions, j < k, DecidesAs(decisions[j], u, decided[u]), j # 1
          PROVE  \E l \in DOMAIN decisions' : l < i /\ DecidesAs(decisions'[l], u, decided[u])
      <4>1. PICK l \in DOMAIN decisions' : l = j - 1 /\ decisions'[l] = decisions[j]
        BY <1>2, <3>4
      <4>2. l < i
        BY <1>2, <2>1, <3>4, <4>1
      <4>3. QED
        BY <3>4, <4>1, <4>2
    <3>5. QED
      BY <2>3, <3>2, <3>3, <3>4
  <2>5. Upstream(d.node)' = Upstream(d.node) /\ Verdict(d.node)' = Verdict(d.node) /\ decided' = decided
    BY DEF Upstream, Verdict
  <2>6. terminal'[d.node] = None
    BY <2>1, <2>2
  <2>7. QED
    BY <2>1, <2>4, <2>5, <2>6 DEF Inherits
<1>11. Single(decisions, "propagated")'
  <2>1. Single(Tail(decisions), "propagated")
    BY <1>1, NodesOfTail DEF Agree
  <2>2. QED
    BY <2>1 DEF Single
<1>12. \A i \in DOMAIN work' : work'[i].node \in Tracked' /\ Known(work[i].node, work[i].state)'
  BY <1>4
<1>13. QED
  BY <1>7, <1>8, <1>9, <1>10, <1>11, <1>12 DEF Agree

\* The loop records a node the tracker decided.
LEMMA PropagatedTrue == ASSUME RunInv, TruthInv, ApplyPropagated PROVE TruthInv'
<1> USE DEF ApplyPropagated, Applied, counts, modes, outside, control
<1>1. /\ UNCHANGED <<plan, tracker, work, visiting, telling, threads, queue, pc, back, agenda,
                     outcomes, live, pending, timedOut, draining, cancelOrigin, trigger>>
      /\ pc = "apply" /\ decisions' = Tail(decisions) /\ Applying("propagated")
      /\ decisions # << >> /\ Head(decisions).kind = "propagated"
  BY DEF Applying
<1>2. PICK n, s : /\ n = Head(decisions).node /\ s = Head(decisions).state
                  /\ terminal' = RecordTerminal(n, s) /\ written' = Write(n, s)
  OBVIOUS
<1> HIDE DEF ApplyPropagated
<1>3. /\ n \in Tracked /\ n \in Node /\ n \notin plan.satisfied /\ n \notin filled /\ n \notin Hand
      /\ n \notin Unoffered /\ s \in TerminalState /\ s # "succeeded" /\ terminal[n] = None
  <2>1. decisions \in Seq(Decision)
    BY RunTyped
  <2>2. 1 \in DOMAIN decisions /\ Head(decisions) = decisions[1]
    BY <1>1, <2>1, TailElements
  <2>3. QED
    BY <1>1, <1>2, <2>2, InheritorFacts
<1>4. /\ Recorded' /\ terminal'[n] = s
      /\ \A m \in Node \ {n} : terminal'[m] = terminal[m]
      /\ \A m \in Node : terminal[m] # None => terminal'[m] = terminal[m]
  BY <1>2, <1>3, RecordTrue DEF TruthInv
<1>5. Agree'
  BY <1>1, <1>2, <1>4, InheritAgrees
<1>6. ReadyNodes' \subseteq ReadyNodes
  BY <1>1, DecisionTaken
<1>7. Waiters' = Waiters /\ Reported' = Reported /\ Unoffered' = Unoffered /\ Tracked' = Tracked
      /\ Hand' \subseteq Hand
  BY <1>1, <1>6 DEF Waiters, Reported, NodesOf, ToSet, Unoffered, Starting, InitialReady, InitialCount,
                    Tracked, Hand
<1>8. Calm'
  BY <1>1 DEF TruthInv, Calm, Idle
<1>9. Carried'
  <2>1. plan.satisfied \subseteq Node /\ \A m \in plan.satisfied : terminal'[m] = terminal[m]
    BY <1>3, <1>4, RunTyped
  <2>2. Seeding' = Seeding
    BY <1>1 DEF Seeding
  <2>3. QED
    BY <1>1, <1>6, <1>7, <2>1, <2>2 DEF TruthInv, Carried, threads
<1>10. Undecided'
  <2>1. pc \notin Over /\ Hand \subseteq Node /\ Unoffered \subseteq Node
    BY <1>1, TruthTyped DEF Over, Hand, RunInv, OneHand
  <2>2. (\A m \in Hand : terminal'[m] = None) /\ \A m \in Unoffered \ plan.satisfied : terminal'[m] = None
    BY <1>3, <1>4, <2>1 DEF TruthInv, Undecided
  <2>3. QED
    BY <1>1, <1>7, <2>2 DEF Undecided
<1>11. CleanUpLast'
  <2>1. \A t \in plan.teardown : t \in Node /\ t # n /\ terminal[t] = None
    BY <1>1, <1>3, RunTyped DEF TruthInv, CleanUpLast, Tracked
  <2>2. QED
    BY <1>1, <1>4, <2>1 DEF CleanUpLast
<1>12. Outcomes' /\ Buffers' /\ Messages'
  BY <1>1, <1>3, <1>4, NoAttemptTrue, BuffersStay, MessagesStand DEF TruthInv, threads
<1>13. Slots'
  BY <1>1, <1>3, <1>4, SlotsOfOthers DEF TruthInv, threads
<1>14. Reasons' /\ SoundResume(plan)'
  BY <1>1, <1>4, TruthTyped, ReasonsStay DEF TruthInv, SoundResume
<1>15. QED
  BY <1>4, <1>5, <1>8, <1>9, <1>10, <1>11, <1>12, <1>13, <1>14 DEF TruthInv

-----------------------------------------------------------------------------
(* Offering a node that was handed out.                                     *)

\* What becomes of it: its closure is dispatched, the loop answers for it, it
\* joins the line, or it is passed over.
Launched(n) == /\ runner[n] = "waiting" /\ Dispatch(n) /\ live' = live \cup {n}
               /\ Waiters' \subseteq Waiters /\ UNCHANGED queue
Answered(n) == /\ \E s \in Reportable \ {"succeeded"} : queue' = Append(queue, Done(n, s, TRUE))
               /\ Waiters' \subseteq Waiters /\ UNCHANGED <<threads, live>>
LeftWaiting(n) == pending' = Append(pending, n) /\ UNCHANGED <<threads, live, queue>>
PassedBy == UNCHANGED <<pending, threads, live, queue>>

\* The queue and the hands after an answer.
LEMMA AnswerBrings ==
    ASSUME RunInv, NEW n \in Node, n \notin Reported, Answered(n)
    PROVE  /\ Reported' = Reported \cup {n}
           /\ \E s \in Reportable \ {"succeeded"} : Brings({Done(n, s, TRUE)})
<1>1. PICK s \in Reportable \ {"succeeded"} : queue' = Append(queue, Done(n, s, TRUE))
  BY DEF Answered
<1>2. Done(n, s, TRUE) \in Message /\ queue \in Seq(Message)
  BY AnswersTyped, RunTyped
<1>3. Reported' = Reported \cup {n}
  BY <1>1, ReportJoins
<1>4. Brings({Done(n, s, TRUE)})
  BY <1>1, <1>2, BringsOne
<1>5. QED
  BY <1>3, <1>4

\* The line after one more.
LEMMA LineGrows ==
    ASSUME NEW n \in Node, pending \in Seq(Node), pending' = Append(pending, n)
    PROVE  Waiters' = Waiters \cup {n}
<1>1. PICK w : w = Append(pending, n) /\ w = pending'
  OBVIOUS
<1>2. /\ DOMAIN w = DOMAIN pending \cup {Len(pending) + 1}
      /\ \A i \in DOMAIN pending : w[i] = pending[i]
      /\ w[Len(pending) + 1] = n /\ Len(pending) + 1 \notin DOMAIN pending
  BY <1>1, OneMoreDecision
<1>3. ToSet(w) = ToSet(pending) \cup {n}
  BY <1>2 DEF ToSet
<1>4. QED
  BY <1>1, <1>3 DEF Waiters, ToSet

\* Whatever becomes of it, what was true stays so.
LEMMA OfferTrue ==
    ASSUME RunInv, TruthInv, NEW n, TakenUp(n), Agree', Calm',
           pc \in {"frontier", "apply", "drain"}, pc = "frontier" \/ agenda' = agenda,
           \/ terminal[n] = None /\ n \notin plan.satisfied
                                 /\ (Launched(n) \/ Answered(n) \/ LeftWaiting(n))
           \/ PassedBy
    PROVE  TruthInv'
<1>1. /\ UNCHANGED <<plan, pc, back, terminal, written, outcomes, timedOut, draining, cancelOrigin, trigger>>
      /\ n \in Node /\ n \in Tracked /\ n \notin Reported /\ n \notin live /\ n \notin Started
      /\ Unoffered' \subseteq Unoffered /\ ReadyNodes' \subseteq ReadyNodes /\ Tracked' = Tracked
      /\ runner[n] \in {"waiting", "absent"} /\ Tracked \subseteq Node
  BY TakenUpFacts, TruthTyped DEF TakenUp, OfferAside, modes, outside
<1>2. \E S : /\ Waiters' \subseteq Waiters \cup S /\ Reported' \subseteq Reported \cup S
             /\ live' \subseteq live \cup S
             /\ \A m \in S : terminal[m] = None /\ m \notin plan.satisfied
  <2>1. CASE PassedBy
    <3>1. \E S : S = {}
      OBVIOUS
    <3>2. Waiters' = Waiters /\ Reported' = Reported /\ live' = live
      BY <2>1 DEF PassedBy, Waiters, Reported, NodesOf, ToSet
    <3>3. QED
      BY <3>1, <3>2
  <2>2. CASE terminal[n] = None /\ n \notin plan.satisfied
             /\ (Launched(n) \/ Answered(n) \/ LeftWaiting(n))
    <3>1. PICK S : S = {n}
      OBVIOUS
    <3>2. Waiters' \subseteq Waiters \cup {n}
      BY <1>1, <2>2, RunTyped, LineGrows DEF Launched, Answered, LeftWaiting
    <3>3. Reported' \subseteq Reported \cup {n}
      BY <1>1, <2>2, AnswerBrings DEF Launched, LeftWaiting, Reported, NodesOf
    <3>4. live' \subseteq live \cup {n}
      BY <2>2 DEF Launched, Answered, LeftWaiting
    <3>5. QED
      BY <2>2, <3>1, <3>2, <3>3, <3>4
  <2>3. QED
    BY <2>1, <2>2
<1>3. Carried'
  <2>1. \A m \in Node : runner'[m] = "absent" <=> runner[m] = "absent"
    BY <1>1 DEF Launched, Answered, LeftWaiting, PassedBy, Dispatch, threads, RunInv, TypeOK, ThreadsTyped
  <2>2. plan.satisfied \cap (ReadyNodes' \cup Waiters' \cup Reported') = {}
    BY <1>1, <1>2 DEF TruthInv, Carried
  <2>3. Seeding' = Seeding /\ (pc = "frontier" => ~Seeding)
    BY <1>1 DEF Seeding
  <2>4. QED
    BY <1>1, <2>1, <2>2, <2>3 DEF TruthInv, Carried
<1>4. Undecided'
  <2>1. PICK S : Hand' \subseteq Hand \cup S /\ \A m \in S : terminal[m] = None
    BY <1>1, <1>2 DEF Hand
  <2>2. QED
    BY <1>1, <2>1 DEF TruthInv, Undecided
<1>5. CleanUpLast'
  BY <1>1, CleanUpStays DEF TruthInv
<1>6. Recorded' /\ Outcomes'
  BY <1>1, RecordsStay DEF TruthInv
<1>7. Reasons' /\ SoundResume(plan)'
  BY <1>1, ReasonsStay DEF TruthInv, SoundResume
<1>8. buffer[n] = << >> /\ n \notin filled /\ fate[n] # "timed-out"
  BY <1>1 DEF TruthInv, Buffers, Buffered, Slots, Slot
<1>9. Buffers' /\ Slots' /\ Messages'
  <2>1. CASE PassedBy \/ LeftWaiting(n)
    <3>1. UNCHANGED threads /\ UNCHANGED <<live, queue>>
      BY <2>1 DEF PassedBy, LeftWaiting
    <3>2. QED
      BY <1>1, <3>1, BuffersStay, SlotsStay, MessagesStand DEF TruthInv, threads
  <2>2. CASE Answered(n)
    <3>1. Buffers' /\ Slots'
      BY <1>1, <2>2, BuffersStay, SlotsStay DEF TruthInv, threads, Answered
    <3>2. PICK s \in Reportable \ {"succeeded"} : Brings({Done(n, s, TRUE)})
      BY <1>1, <2>2, AnswerBrings
    <3>3. PICK m : m = Done(n, s, TRUE) /\ m.node = n /\ m.state = s /\ m.kind = "done" /\ m.closing
      <4>1. PICK m : m = Done(n, s, TRUE)
        OBVIOUS
      <4>2. m.node = n /\ m.state = s /\ m.kind = "done" /\ m.closing
        BY <4>1 DEF Done
      <4>3. QED
        BY <4>1, <4>2
    <3>4. UNCHANGED <<buffer, filled>>
      BY <2>2 DEF Answered, threads
    <3>5. Truthful(m)'
      BY <1>8, <3>3, <3>4 DEF Truthful, EndsAs
    <3>6. PICK S : S = {Done(n, s, TRUE)}
      OBVIOUS
    <3>8. Brings(S) /\ \A k \in S : Truthful(k)'
      <4>1. Brings(S)
        BY <3>2, <3>6
      <4>2. \A k \in S : k = m
        BY <3>3, <3>6
      <4>3. QED
        BY <3>5, <4>1, <4>2
    <3>7. QED
      BY <1>1, <3>1, <3>4, <3>8, MessagesStay DEF TruthInv
  <2>3. CASE Launched(n)
    <3>1. /\ runner \in [Node -> RunnerState] /\ timer \in [Node -> TimerState]
          /\ attempt \in [Node -> Nat]
      BY DEF RunInv, TypeOK, ThreadsTyped
    <3>2. /\ runner'[n] = "body" /\ attempt'[n] = 1 /\ (timer'[n] # "off" => n \in Guarded)
          /\ \A m \in Node \ {n} : runner'[m] = runner[m] /\ attempt'[m] = attempt[m]
                                   /\ timer'[m] = timer[m]
          /\ UNCHANGED <<result, fate, filled, buffer, queue>> /\ live' = live \cup {n}
      BY <1>1, <2>3, <3>1 DEF Launched, Dispatch
    <3>3. Messages'
      BY <1>1, <3>2, MessagesStand DEF TruthInv
    <3>4. ASSUME NEW m \in Node PROVE Buffered(m)' /\ Slot(m)'
      <4>1. CASE m = n
        BY <1>1, <1>8, <3>2, <4>1 DEF Buffered, Slot, Ordered, TruthInv, Slots
      <4>2. CASE m # n
        <5>1. Buffered(m) /\ Slot(m)
          BY DEF TruthInv, Buffers, Slots
        <5>2. Buffered(m)'
          BY <1>1, <3>2, <4>2, <5>1, BufferStays
        <5>3. Slot(m)'
          BY <1>1, <3>2, <4>2, <5>1, SlotStays
        <5>4. QED
          BY <5>2, <5>3
      <4>3. QED
        BY <4>1, <4>2
    <3>5. QED
      BY <3>3, <3>4 DEF Buffers, Slots
  <2>4. QED
    BY <2>1, <2>2, <2>3
<1>10. QED
  BY <1>3, <1>4, <1>5, <1>6, <1>7, <1>9 DEF TruthInv

\* A node with a runner that is admitted is launched.
LEMMA AdmitLaunches ==
    ASSUME NEW n, runner[n] = "waiting", Admit(n), Waiters' \subseteq Waiters
    PROVE  Launched(n)
BY DEF Admit, Launched

\* One that is offered is launched, answered or waits.
LEMMA OfferCases ==
    ASSUME NEW n, runner[n] = "waiting", OfferOrPend(n)
    PROVE  Launched(n) \/ Answered(n) \/ LeftWaiting(n)
<1>1. pending' = pending => Waiters' \subseteq Waiters
  BY DEF Waiters, ToSet
<1>2. CASE Fits(n) /\ Admit(n) /\ UNCHANGED pending
  BY <1>1, <1>2, AdmitLaunches
<1>3. CASE queue' = Append(queue, Rejected(n)) /\ UNCHANGED <<threads, live, pending>>
  <2>1. "failed" \in Reportable \ {"succeeded"}
    BY DEF Reportable, ExecutedState
  <2>2. QED
    BY <1>1, <1>3, <2>1 DEF Answered, Rejected
<1>4. CASE pending' = Append(pending, n) /\ UNCHANGED <<threads, live, queue>>
  BY <1>4 DEF LeftWaiting
<1>5. QED
  BY <1>2, <1>3, <1>4 DEF OfferOrPend

\* The start-up offers a node of the initial frontier.
LEMMA FrontierTrue == ASSUME RunInv, TruthInv, OfferFrontier PROVE TruthInv'
<1>1. /\ pc = "frontier" /\ pc' = pc /\ agenda # {} /\ UNCHANGED OfferAside
      /\ UNCHANGED <<plan, tracker, call, terminal>>
  BY DEF OfferFrontier, OfferAside, records
<1>2. PICK n \in agenda :
         /\ n \in Node /\ agenda' = agenda \ {n}
         /\ \/ terminal[n] # None /\ UNCHANGED <<threads, queue, live, pending>>
            \/ terminal[n] = None /\ OfferOrPend(n)
  <2>1. Lowest(agenda) \in agenda /\ Lowest(agenda) \in Node
    BY <1>1, LowestIsNode DEF RunInv, TypeOK, LoopTyped
  <2>2. QED
    BY <2>1 DEF OfferFrontier
<1>3. /\ Unoffered = agenda /\ Unoffered' = agenda' /\ ReadyNodes' = ReadyNodes
      /\ Single(decisions, "ready")'
  BY <1>1 DEF Unoffered, ReadyNodes, NodesOf, Single, RunInv, OneHand, call
<1>4. /\ n \in Offered /\ n \notin Reported /\ n \notin ReadyNodes
      /\ runner[n] \in {"waiting", "absent"}
  <2>1. n \in Offered /\ n \notin Reported /\ n \notin ReadyNodes /\ n \notin Started
    BY <1>3 DEF RunInv, OneHand
  <2>2. QED
    BY <2>1, RunTyped DEF Started
<1>5. TakenUp(n)
  BY <1>1, <1>2, <1>3, <1>4, StillTracks DEF TakenUp, RunInv
<1>6. Agree' /\ Calm'
  BY <1>1, AgreeStays DEF TruthInv, call, Calm, Idle
<1>7. terminal[n] = None => n \notin plan.satisfied
  BY <1>1 DEF TruthInv, Carried, Seeding
<1>8. n \notin plan.satisfied => runner[n] = "waiting"
  BY <1>2, <1>4 DEF TruthInv, Carried
<1>9. \/ terminal[n] = None /\ n \notin plan.satisfied
                            /\ (Launched(n) \/ Answered(n) \/ LeftWaiting(n))
      \/ PassedBy
  BY <1>2, <1>7, <1>8, OfferCases DEF PassedBy
<1>10. QED
  BY <1>1, <1>5, <1>6, <1>9, OfferTrue

\* The loop admits the head of its line.
LEMMA DrainAdmitTrue == ASSUME RunInv, TruthInv, DrainAdmit PROVE TruthInv'
<1> DEFINE n == Head(pending)
<1>1. /\ pc = "drain" /\ pc' = pc /\ pending # << >> /\ pending' = Tail(pending) /\ Admit(n)
      /\ UNCHANGED OfferAside /\ agenda' = agenda /\ UNCHANGED <<plan, tracker, call, terminal>>
  BY DEF DrainAdmit, OfferAside, control, records
<1>2. n \in Waiters /\ ToSet(Tail(pending)) = Waiters \ {n}
  BY <1>1, RunTyped, LineMoves DEF RunInv, OneHand, Waiters
<1> HIDE DEF n
<1>3. Unoffered' = {} /\ Waiters' \subseteq Waiters
  BY <1>1, <1>2 DEF RunInv, Unoffered, Starting, OfferAside, Waiters, ToSet
<1>5. /\ n \in Offered /\ n \notin Reported /\ n \notin ReadyNodes /\ n \in Tracked
      /\ runner[n] \in {"waiting", "absent"}
  <2>1. n \in Offered /\ n \notin Reported /\ n \notin ReadyNodes /\ n \notin Started
    BY <1>2 DEF RunInv, OneHand
  <2>2. QED
    BY <2>1, RunTyped DEF Started
<1>6. ReadyNodes' = ReadyNodes /\ Single(decisions, "ready")'
  BY <1>1 DEF ReadyNodes, NodesOf, Single, RunInv, OneHand, call
<1>7. TakenUp(n)
  BY <1>1, <1>3, <1>5, <1>6, StillTracks DEF TakenUp, RunInv
<1>8. Agree' /\ Calm'
  BY <1>1, AgreeStays DEF TruthInv, call, Calm, Idle
<1>9. terminal[n] = None /\ n \notin plan.satisfied
  BY <1>1, <1>2 DEF TruthInv, Undecided, Hand, Carried, Over
<1>10. runner[n] = "waiting"
  BY <1>5, <1>9, RunTyped DEF TruthInv, Carried
<1>11. Launched(n)
  BY <1>1, <1>3, <1>10, AdmitLaunches
<1>12. QED
  BY <1>1, <1>7, <1>8, <1>9, <1>11, OfferTrue

\* Taking a decision that says no state keeps the tables in agreement.
LEMMA ReadyAgrees ==
    ASSUME RunInv, TruthInv, decisions # << >>, Head(decisions).kind = "ready",
           pc = "apply", pc' = pc, decisions' = Tail(decisions),
           UNCHANGED <<plan, tracker, work, terminal>>
    PROVE  Agree'
<1> USE DEF tracker, TruthInv
<1>1. decisions \in Seq(Decision)
  BY RunTyped
<1>2. /\ DOMAIN decisions' = 1..(Len(decisions) - 1) /\ DOMAIN decisions = 1..Len(decisions)
      /\ Len(decisions) \in Nat /\ 1 \in DOMAIN decisions /\ Head(decisions) = decisions[1]
      /\ \A i \in DOMAIN decisions' : i + 1 \in DOMAIN decisions /\ decisions'[i] = decisions[i + 1]
      /\ \A k \in DOMAIN decisions : k # 1 => k - 1 \in DOMAIN decisions' /\ decisions[k] = decisions'[k - 1]
  BY <1>1, TailElements
<1>3. \A n, s : Known(n, s)' <=> Known(n, s)
  <2> SUFFICES ASSUME NEW n, NEW s
               PROVE  (\E i \in DOMAIN decisions' : DecidesAs(decisions'[i], n, s))
                        <=> \E i \in DOMAIN decisions : DecidesAs(decisions[i], n, s)
    BY DEF Known
  <2>1. \A i \in DOMAIN decisions : DecidesAs(decisions[i], n, s) => i # 1
    BY <1>2 DEF DecidesAs
  <2>2. QED
    BY <1>2, <2>1
<1>4. Tracked' = Tracked /\ \A n : Upstream(n)' = Upstream(n) /\ Verdict(n)' = Verdict(n)
  BY DEF Tracked, Upstream, Verdict
<1>5. \A n, s : Walked(n, s)' <=> Walked(n, s)
  BY DEF Walked
<1>6. ASSUME NEW i \in DOMAIN decisions', decisions'[i].kind = "propagated" PROVE Inherits(i)'
  <2>0. PICK k \in DOMAIN decisions : k = i + 1 /\ decisions'[i] = decisions[k] /\ Inherits(k)
    BY <1>2, <1>6 DEF Agree
  <2>1. PICK d : d = decisions[k] /\ d = decisions'[i] /\ d.kind = "propagated"
    BY <1>6, <2>0
  <2>2. /\ terminal[d.node] = None /\ d.state = Verdict(d.node)
        /\ \A u \in Upstream(d.node) :
             \/ terminal[u] = decided[u]
             \/ \E j \in DOMAIN decisions : j < k /\ DecidesAs(decisions[j], u, decided[u])
    BY <2>0, <2>1 DEF Inherits
  <2>3. ASSUME NEW u, NEW j \in DOMAIN decisions, j < k, DecidesAs(decisions[j], u, decided[u])
        PROVE  \E l \in DOMAIN decisions' : l < i /\ DecidesAs(decisions'[l], u, decided[u])
    <3>1. j # 1
      BY <1>2, <2>3 DEF DecidesAs
    <3>2. PICK l \in DOMAIN decisions' : l = j - 1 /\ decisions'[l] = decisions[j]
      BY <1>2, <3>1
    <3>3. l < i
      BY <1>2, <2>0, <2>3, <3>2
    <3>4. QED
      BY <2>3, <3>2, <3>3
  <2>4. \A u \in Upstream(d.node) :
             \/ terminal'[u] = decided'[u]
             \/ \E j \in DOMAIN decisions' : j < i /\ DecidesAs(decisions'[j], u, decided'[u])
    BY <2>2, <2>3
  <2>5. QED
    BY <1>4, <2>1, <2>2, <2>4 DEF Inherits
<1>7. Single(decisions, "propagated")'
  <2>1. Single(Tail(decisions), "propagated")
    BY <1>1, NodesOfTail DEF Agree
  <2>2. QED
    BY <2>1 DEF Single
<1>8. \A i \in DOMAIN decisions' : remaining'[decisions'[i].node] = 0
  BY <1>2 DEF Agree
<1>9. QED
  BY <1>3, <1>4, <1>5, <1>6, <1>7, <1>8 DEF Agree, Over

\* The loop applies a ready decision of the tracker.
LEMMA ReadyTrue == ASSUME RunInv, TruthInv, ApplyReady PROVE TruthInv'
<1> DEFINE n == Head(decisions).node
<1>1. /\ Applying("ready") /\ decisions' = Tail(decisions)
      /\ UNCHANGED <<plan, tracker, work, visiting, telling, terminal>>
      /\ UNCHANGED OfferAside /\ agenda' = agenda /\ pc = "apply" /\ pc' = pc
      /\ \/ terminal[n] # None
         \/ queue' = Append(queue, Cancelled(n)) /\ UNCHANGED <<threads, live, pending>>
         \/ OfferOrPend(n)
  BY DEF ApplyReady, Applied, OfferAside, control, records, modes, outside, Applying
<1>2. /\ TrackerInv' /\ Offered' = Offered
      /\ Single(decisions, "ready")' /\ ReadyNodes' = ReadyNodes \ {n}
      /\ n \in ReadyNodes /\ n \in Tracked
  BY <1>1, DecisionTaken
<1> HIDE DEF n
<1>3. /\ n \in Offered /\ n \notin Reported /\ n \notin Unoffered
      /\ runner[n] \in {"waiting", "absent"}
  BY <1>2 DEF RunInv, OneHand, Started
<1>4. Unoffered' = Unoffered
  BY <1>1 DEF Unoffered, Starting, OfferAside, InitialReady, InitialCount, Tracked
<1>5. TakenUp(n)
  BY <1>1, <1>2, <1>3, <1>4 DEF TakenUp
<1>6. Agree'
  BY <1>1, ReadyAgrees DEF Applying
<1>7. Calm'
  BY <1>1 DEF TruthInv, Calm, Idle
<1>8. terminal[n] = None /\ n \notin plan.satisfied
  BY <1>1, <1>2 DEF TruthInv, Undecided, Hand, Carried, Over
<1>9. runner[n] = "waiting"
  BY <1>2, <1>3, <1>8, RunTyped DEF TruthInv, Carried
<1>10. Launched(n) \/ Answered(n) \/ LeftWaiting(n)
  <2>1. CASE queue' = Append(queue, Cancelled(n)) /\ UNCHANGED <<threads, live, pending>>
    <3>1. "cancelled" \in Reportable \ {"succeeded"}
      BY DEF Reportable, StopLike
    <3>2. Waiters' \subseteq Waiters
      BY <2>1 DEF Waiters, ToSet
    <3>3. QED
      BY <2>1, <3>1, <3>2 DEF Answered, Cancelled
  <2>2. QED
    BY <1>1, <1>8, <1>9, <2>1, OfferCases
<1>11. QED
  BY <1>1, <1>5, <1>6, <1>7, <1>8, <1>10, OfferTrue

-----------------------------------------------------------------------------
(* Answering a line of waiters.                                             *)

\* Every waiter is answered for; it has attempted nothing.
LEMMA WholeLineTrue ==
    ASSUME RunInv, TruthInv, pc \in {"top", "await"}, pc' \in {"top", "await"}, UNCHANGED LineAside,
           NEW q \in Seq(Message), q = queue \/ (queue # << >> /\ q = Tail(queue)),
           NEW ns \in Seq(Node), ToSet(ns) = Waiters, NEW s \in Reportable \ {"succeeded"},
           queue' = q \o [i \in DOMAIN ns |-> Done(ns[i], s, TRUE)], pending' = << >>, Reasons'
    PROVE  TruthInv'
<1> USE DEF LineAside, TruthInv, threads, records, outside
<1>1. Brings(AnswersOf(ns, s))
  BY RunTyped, BringsAnswers
<1>2. Tracked \subseteq Node /\ Waiters \subseteq Tracked /\ Tracked' = Tracked
  BY TruthTyped DEF Tracked
<1>3. ASSUME NEW m \in AnswersOf(ns, s) PROVE Truthful(m)' /\ m.node \in Waiters
  <2>1. PICK n \in Waiters : m = Done(n, s, TRUE)
    BY DEF AnswersOf
  <2>2. m.node = n /\ m.state = s /\ m.kind = "done" /\ m.closing
    BY <2>1 DEF Done
  <2>3. n \in Node /\ runner[n] \in {"waiting", "absent"}
    BY <1>2 DEF RunInv, OneHand, Started
  <2>4. buffer[n] = << >> /\ n \notin filled
    BY <2>3 DEF Buffers, Buffered, Slots, Slot
  <2>5. Truthful(m)'
    BY <2>2, <2>4 DEF Truthful, EndsAs
  <2>6. QED
    BY <2>2, <2>5
<1>4. Reported' \subseteq Reported \cup Waiters /\ Waiters' = {}
  <2>1. ASSUME NEW i \in DOMAIN queue', queue'[i].kind = "done"
        PROVE  queue'[i].node \in Reported \cup Waiters
    <3>1. CASE queue'[i] \in AnswersOf(ns, s)
      BY <1>3, <3>1
    <3>2. CASE \E j \in DOMAIN queue : queue'[i] = queue[j]
      BY <2>1, <3>2 DEF Reported, NodesOf
    <3>3. QED
      BY <1>1, <3>1, <3>2 DEF Brings
  <2>2. Waiters' = {}
    BY DEF Waiters, ToSet
  <2>3. QED
    BY <2>1, <2>2 DEF Reported, NodesOf
<1>5. ReadyNodes' = ReadyNodes /\ Unoffered' = {} /\ pc \notin Over /\ pc' \notin Over
  BY DEF ReadyNodes, NodesOf, call, Unoffered, Starting, Over
<1>6. Calm' /\ Carried'
  <2>1. Calm'
    BY DEF Calm, Idle, call
  <2>2. ~Seeding /\ ~Seeding' /\ plan.satisfied \cap (ReadyNodes' \cup Waiters' \cup Reported') = {}
    BY <1>4, <1>5 DEF Seeding, Carried
  <2>3. QED
    BY <2>1, <2>2 DEF Carried
<1>7. Agree'
  BY <1>5, AgreeStays DEF call
<1>8. Undecided'
  <2>1. Hand' \subseteq Hand
    <3>1. Waiters \cap timedOut = {}
      BY DEF RunInv, OneHand, Closures
    <3>2. QED
      BY <1>4, <1>5, <3>1 DEF Hand
  <2>2. QED
    BY <1>5, <2>1 DEF Undecided
<1>9. CleanUpLast'
  BY CleanUpStays
<1>10. Recorded' /\ Outcomes' /\ Buffers' /\ Slots'
  BY RecordsStay, BuffersStay, SlotsStay
<1>11. Messages'
  BY <1>1, <1>3, MessagesStay
<1>12. SoundResume(plan)'
  BY DEF SoundResume
<1>13. QED
  BY <1>6, <1>7, <1>8, <1>9, <1>10, <1>11, <1>12

\* A line nobody can ever be admitted from is rejected as a whole.
LEMMA RejectTrue == ASSUME RunInv, TruthInv, RejectPinned PROVE TruthInv'
<1> USE DEF RejectPinned, Pinned, EmptyHanded, Quiet
<1>1. /\ pc = "top" /\ pc' = "await" /\ UNCHANGED LineAside /\ pending' = << >>
      /\ queue' = queue \o [i \in DOMAIN pending |-> Done(pending[i], "failed", TRUE)]
      /\ UNCHANGED <<plan, terminal, trigger, draining, cancelOrigin>>
  BY DEF LineAside, Rejected, records, outside
<1> HIDE DEF RejectPinned, Pinned, EmptyHanded
<1>2. pending \in Seq(Node) /\ ToSet(pending) = Waiters /\ queue \in Seq(Message) /\ Tracked \subseteq Node
  BY RunTyped DEF Waiters
<1>3. "failed" \in Reportable \ {"succeeded"}
  BY DEF Reportable, ExecutedState
<1>4. Reasons'
  BY <1>1, <1>2, ReasonsStay DEF TruthInv
<1>5. QED
  BY <1>1, <1>2, <1>3, <1>4, WholeLineTrue

\* The loop hears of an interrupt, and cancels its line if it was not draining.
LEMMA TakeWakeTrue == ASSUME RunInv, TruthInv, TakeWake PROVE TruthInv'
<1> USE DEF Quiet
<1>1. /\ pc = "await" /\ pc' = "top" /\ UNCHANGED LineAside
      /\ queue # << >> /\ Head(queue).kind = "wake"
  BY DEF TakeWake, Receives, LineAside
<1>2. queue \in Seq(Message) /\ Tail(queue) \in Seq(Message) /\ pending \in Seq(Node) /\ Tracked \subseteq Node
  BY <1>1, RunTyped, TailElements
<1>3. trigger # None
  <2>1. 1 \in DOMAIN queue /\ Head(queue) = queue[1]
    BY <1>1, <1>2, TailElements
  <2>2. QED
    BY <1>1, <2>1 DEF TruthInv, Messages, Truthful
<1>4. CASE draining
  <2>1. queue' = Tail(queue) /\ UNCHANGED <<pending, modes>>
    BY <1>4 DEF TakeWake
  <2>2. Brings({})
    BY <1>1, <1>2, <2>1, BringsNone
  <2>3. QED
    BY <1>1, <2>1, <2>2, QueueTrue DEF LineAside, threads, records, outside, modes
<1>5. CASE ~draining
  <2>1. \E order \in Seq(Node) : ToSet(order) = Waiters /\ queue' = Tail(queue) \o CancelAll(order)
    <3>1. CASE stopping
      BY <1>2, <1>5, <3>1 DEF TakeWake, Waiters
    <3>2. CASE ~stopping
      <4>1. PICK order \in Seq(Node) :
              /\ order = Among(pending, Default) \o Among(pending, Node \ Default)
              /\ ToSet(order) = Waiters
        BY OrderIsLine
      <4>2. queue' = Tail(queue) \o CancelAll(order)
        BY <1>5, <3>2, <4>1 DEF TakeWake
      <4>3. QED
        BY <4>1, <4>2
    <3>3. QED
      BY <3>1, <3>2
  <2>2. PICK order \in Seq(Node) : ToSet(order) = Waiters /\ queue' = Tail(queue) \o CancelAll(order)
    BY <2>1
  <2>3. queue' = Tail(queue) \o [i \in DOMAIN order |-> Done(order[i], "cancelled", TRUE)]
    BY <2>2 DEF CancelAll, Cancelled
  <2>4. /\ pending' = << >> /\ draining' = TRUE
        /\ cancelOrigin' = IF cancelOrigin = None THEN trigger ELSE cancelOrigin
        /\ UNCHANGED <<plan, terminal, trigger>>
    BY <1>1, <1>5 DEF TakeWake, LineAside, records, outside
  <2>5. Reasons'
    BY <1>3, <2>4 DEF TruthInv, Reasons, StopNeedsFailure, Tracked
  <2>6. "cancelled" \in Reportable \ {"succeeded"}
    BY DEF Reportable, StopLike
  <2>7. QED
    BY <1>1, <1>2, <2>2, <2>3, <2>4, <2>5, <2>6, WholeLineTrue
<1>6. QED
  BY <1>4, <1>5

-----------------------------------------------------------------------------
(* Receiving a report.                                                      *)

\* The report of a zombie is dropped.
LEMMA LateReportTrue == ASSUME RunInv, TruthInv, TakeLateReport PROVE TruthInv'
<1> USE DEF Quiet, TruthInv
<1> DEFINE n == Head(queue).node
<1>1. /\ pc = "await" /\ queue # << >> /\ Head(queue).kind = "done" /\ n \in timedOut
      /\ timedOut' = timedOut \ {n} /\ queue' = Tail(queue) /\ pc' \in {"top", "drain"}
      /\ UNCHANGED <<plan, tracker, call, threads, back, agenda, records, outside,
                     live, pending, modes>>
  BY DEF TakeLateReport, Receives, Overtaken
<1>2. queue \in Seq(Message) /\ Single(queue, "done") /\ Tracked \subseteq Node
  BY RunTyped DEF RunInv, OneHand
<1>3. NodesOf(queue', "done") = Reported \ {n}
  BY <1>1, <1>2, QueueShrinks DEF Reported
<1>4. Brings({}) /\ Reported' = Reported \ {n}
  BY <1>1, <1>2, <1>3, BringsNone DEF Reported, NodesOf
<1> HIDE DEF n
<1>5. /\ Waiters' = Waiters /\ ReadyNodes' = ReadyNodes /\ Unoffered' = {}
      /\ pc \notin Over /\ pc' \notin Over
  BY <1>1 DEF Waiters, ToSet, ReadyNodes, NodesOf, call, Unoffered, Starting, Over, RunInv, Points
<1>6. UNCHANGED <<terminal, written, outcomes, draining, cancelOrigin, trigger, runner, attempt,
                  result, fate, timer, filled, buffer>>
  BY <1>1 DEF records, modes, outside, threads
<1>7. Calm'
  BY <1>1 DEF Calm, Idle, call
<1>8. Carried'
  <2>1. Seeding' = Seeding /\ Reported' \subseteq Reported
    BY <1>1, <1>4 DEF Seeding
  <2>2. QED
    BY <1>1, <1>5, <1>6, <2>1 DEF Carried
<1>9. Agree'
  BY <1>1, <1>5, <1>6, AgreeStays DEF call
<1>10. Undecided'
  <2>1. Hand' \subseteq Hand
    BY <1>1, <1>4, <1>5 DEF Hand
  <2>2. QED
    BY <1>5, <1>6, <2>1 DEF Undecided
<1>11. CleanUpLast'
  BY <1>1, <1>6, CleanUpStays
<1>12. Recorded' /\ Outcomes' /\ Buffers' /\ Slots'
  BY <1>1, <1>6, RecordsStay, BuffersStay, SlotsStay
<1>13. Messages'
  BY <1>1, <1>4, <1>6, MessagesStay
<1>14. Reasons' /\ SoundResume(plan)'
  BY <1>1, <1>2, <1>6, ReasonsStay DEF SoundResume
<1>15. QED
  BY <1>7, <1>8, <1>9, <1>10, <1>11, <1>12, <1>13, <1>14

\* The tracker is told of a node that is told of everything.
LEMMA CallAgrees ==
    ASSUME RunInv, TruthInv, pc \notin Over, pc \notin {"cascade", "apply"},
           NEW n \in Tracked, NEW s \in TerminalState, terminal[n] = None, remaining[n] = 0,
           NotifyTerminal(n, s), terminal'[n] = s,
           \A m \in Node \ {n} : terminal'[m] = terminal[m]
    PROVE  Agree'
<1>1. /\ decisions = << >> /\ work = << >> /\ decisions' = << >>
      /\ work' = <<[node |-> n, state |-> s]>> /\ UNCHANGED <<plan, tracker>>
  BY DEF NotifyTerminal, TruthInv, Calm, Idle
<1>2. n \in Node /\ Tracked \subseteq Node
  BY RunTyped
<1>3. \A m \in Node : decided[m] # None => terminal[m] = decided[m]
  BY <1>1 DEF TruthInv, Agree, Known
<1>4. remaining' = remaining /\ decided' = decided /\ Tracked' = Tracked
  BY <1>1 DEF tracker, Tracked
<1>5. \A m \in Tracked : terminal'[m] # None => remaining'[m] = 0
  BY <1>2, <1>4 DEF TruthInv, Agree
<1>6. \A m \in Node : decided'[m] # None => terminal'[m] = decided'[m]
  BY <1>3, <1>4
<1>7. DOMAIN work' = {1} /\ work'[1].node = n /\ work'[1].state = s
  BY <1>1
<1>8. ASSUME NEW m \in Tracked, NEW t \in TerminalState, Known(m, t)'
      PROVE  decided'[m] = t \/ Walked(m, t)'
  <2>1. terminal'[m] = t /\ t # None
    BY <1>1, <1>8, NoneIsNoState DEF Known
  <2>2. CASE m = n
    <3>1. \E i \in DOMAIN work' : work'[i].node = m /\ work'[i].state = t
      BY <1>7, <2>1, <2>2
    <3>2. QED
      BY <3>1 DEF Walked
  <2>3. CASE m # n
    <3>1. Known(m, t)
      BY <1>2, <2>1, <2>3 DEF Known
    <3>2. decided[m] = t \/ Walked(m, t)
      BY <3>1 DEF TruthInv, Agree
    <3>3. decided[m] = t
      BY <1>1, <3>2 DEF Walked
    <3>4. QED
      BY <1>4, <3>3
  <2>4. QED
    BY <2>2, <2>3
<1>9. \A i \in DOMAIN work' : work'[i].node \in Tracked' /\ Known(work[i].node, work[i].state)'
  BY <1>4, <1>7 DEF Known
<1>10. \A m \in Node : decided'[m] # None => Known(m, decided[m])'
  BY <1>6 DEF Known
<1>11. DOMAIN decisions' = {} /\ Single(decisions, "propagated")'
  BY <1>1 DEF Single
<1>12. QED
  BY <1>4, <1>5, <1>8, <1>9, <1>10, <1>11 DEF Agree

\* What the loop writes when it concludes a node that had no state.
LEMMA ConcludeFacts ==
    ASSUME RunInv, NEW n, NEW s \in Reportable, NEW closings, NEW marked, terminal[n] = None,
           Conclude(n, s, TRUE, closings, marked)
    PROVE  \E state, extra :
             /\ state \in Reportable
             /\ \/ state = s /\ extra = closings
                \/ state = "cancelled" /\ \E k : extra = Cut(k, "cancelled")
             /\ terminal' = RecordTerminal(n, state) /\ written' = Write(n, state)
             /\ outcomes' = [outcomes EXCEPT ![n] = @ \o extra]
             /\ NotifyTerminal(n, state)
             /\ \/ cancelOrigin' = cancelOrigin
                \/ cancelOrigin' = "failure-under-stop" /\ state \in FailureLike
<1>1. CASE draining
  <2>1. "cancelled" \in Reportable
    BY DEF Reportable, StopLike
  <2>2. PICK extra : extra = Cut(LastAttempt(closings), "cancelled")
    OBVIOUS
  <2>3. /\ terminal' = RecordTerminal(n, "cancelled") /\ written' = Write(n, "cancelled")
        /\ outcomes' = [outcomes EXCEPT ![n] = @ \o extra]
        /\ NotifyTerminal(n, "cancelled")
        /\ \/ cancelOrigin' = cancelOrigin
           \/ cancelOrigin' = "failure-under-stop" /\ "cancelled" \in FailureLike
    BY <1>1, <2>2 DEF Conclude, IsFailureLike
  <2>4. QED
    BY <2>1, <2>2, <2>3
<1>2. CASE ~draining
  BY <1>2 DEF Conclude, IsFailureLike
<1>3. QED
  BY <1>1, <1>2

\* A node that had no state gets one, as its attempts and its slot say, or is
\* cancelled.
LEMMA ConcludeTrue ==
    ASSUME RunInv, TruthInv, pc = "await", queue # << >>,
           NEW n \in Offered, terminal[n] = None, n \notin Waiters, n \notin plan.satisfied,
           NEW s \in Reportable, NEW closings \in Seq(OutcomeRecord), NEW marked \in SUBSET {n},
           Conclude(n, s, TRUE, closings, marked),
           n \in NodesOf(Tail(queue), "done") => n \in marked,
           Ordered(closings), EndsAs(closings, s), s = "succeeded" <=> n \in filled,
           UNCHANGED <<runner, attempt, result, filled, buffer>>,
           timer' = timer \/ (n \in Guarded /\ TakesInHand(n)),
           \/ fate' = fate
           \/ n \in live \ filled /\ fate' = [fate EXCEPT ![n] = "timed-out"]
    PROVE  TruthInv'
<1>1. PICK state, extra :
         /\ state \in Reportable
         /\ \/ state = s /\ extra = closings
            \/ state = "cancelled" /\ \E k : extra = Cut(k, "cancelled")
         /\ terminal' = RecordTerminal(n, state) /\ written' = Write(n, state)
         /\ outcomes' = [outcomes EXCEPT ![n] = @ \o extra]
         /\ NotifyTerminal(n, state)
         /\ \/ cancelOrigin' = cancelOrigin
            \/ cancelOrigin' = "failure-under-stop" /\ state \in FailureLike
  BY ConcludeFacts
<1>2. PICK gone \in Seq(Node) :
         /\ Distinct(gone) /\ ToSet(gone) \subseteq Waiters
         /\ queue' = Tail(queue) \o CancelAll(gone)
         /\ Waiters' = Waiters \ ToSet(gone)
  BY CancelsSplit
<1>3. /\ timedOut' = timedOut \cup marked /\ live' = live \ {n} /\ pc' = "cascade"
      /\ UNCHANGED <<back, agenda, draining, trigger>> /\ back = "drain"
  BY DEF Conclude, outside, RunInv, Points, Starting
<1>4. /\ decisions = << >> /\ work = << >> /\ decisions' = << >> /\ visiting' = {}
      /\ UNCHANGED <<plan, tracker>>
  BY <1>1 DEF NotifyTerminal, TruthInv, Calm, Idle
<1>5. /\ n \in Tracked /\ n \in Node /\ Tracked' = Tracked /\ Tracked \subseteq Node
      /\ remaining[n] = 0 /\ state \in TerminalState /\ state # None
  BY <1>1, <1>4, RunTyped, NoneIsNoState DEF Offered, Tracked
<1>6. /\ Recorded' /\ terminal'[n] = state
      /\ \A m \in Node \ {n} : terminal'[m] = terminal[m]
      /\ \A m \in Node : terminal[m] # None => terminal'[m] = terminal[m]
  BY <1>1, <1>5, RecordTrue DEF TruthInv
<1>7. Brings(AnswersOf(gone, "cancelled")) /\ "cancelled" \in Reportable
  <2>1. "cancelled" \in Reportable
    BY DEF Reportable, StopLike
  <2>2. PICK q \in Seq(Message) : q = Tail(queue)
    BY RunTyped, TailElements
  <2>3. queue' = q \o [i \in DOMAIN gone |-> Done(gone[i], "cancelled", TRUE)]
    BY <1>2, <2>2 DEF CancelAll, Cancelled
  <2>4. QED
    BY <2>1, <2>2, <2>3, RunTyped, BringsAnswers
<1>8. /\ Reported' = NodesOf(Tail(queue), "done") \cup ToSet(gone)
      /\ NodesOf(Tail(queue), "done") \subseteq Reported
  <2>1. queue \in Seq(Message) /\ Single(queue, "done") /\ StatesSound(queue) /\ Waiters \cap Reported = {}
    BY RunTyped DEF RunInv, OneHand, Closures
  <2>2. PICK q \in Seq(Message) : q = Tail(queue) /\ Single(q, "done") /\ StatesSound(q)
    BY <2>1, QueueShrinks
  <2>3. NodesOf(q, "done") \subseteq Reported
    BY <2>1, <2>2, NodesOfTail DEF Reported
  <2>4. queue' = q \o [i \in DOMAIN gone |-> Done(gone[i], "cancelled", TRUE)]
    BY <1>2, <2>2 DEF CancelAll, Cancelled
  <2>5. Reported' = NodesOf(q, "done") \cup ToSet(gone)
    BY <1>2, <1>7, <2>1, <2>2, <2>3, <2>4, LineReports
  <2>6. QED
    BY <2>2, <2>3, <2>5
<1>9. ReadyNodes' = {} /\ Unoffered' = {} /\ pc \notin Over /\ pc' \notin Over
  BY <1>3, <1>4 DEF ReadyNodes, NodesOf, Unoffered, Starting, Over
<1> HIDE DEF Conclude
<1>10. Calm'
  BY <1>3, <1>4 DEF Calm
<1>11. Carried'
  <2>1. \A m \in plan.satisfied : terminal'[m] = terminal[m]
    BY <1>6, RunTyped
  <2>2. ~Seeding /\ ~Seeding'
    BY <1>3 DEF Seeding
  <2>3. plan.satisfied \cap (ReadyNodes' \cup Waiters' \cup Reported') = {}
    BY <1>2, <1>8, <1>9 DEF TruthInv, Carried
  <2>4. QED
    BY <1>3, <1>4, <2>1, <2>2, <2>3 DEF TruthInv, Carried
<1>12. Agree'
  BY <1>1, <1>5, <1>6, <1>9, CallAgrees
<1>13. Undecided'
  <2>1. n \notin Hand'
    BY <1>2, <1>3, <1>8, <1>9 DEF Hand
  <2>2. Hand' \subseteq Hand
    <3>1. Waiters \cap timedOut = {}
      BY DEF RunInv, OneHand, Closures
    <3>2. QED
      BY <1>2, <1>3, <1>8, <1>9, <3>1 DEF Hand
  <2>3. Hand \subseteq Node
    BY TruthTyped DEF Hand
  <2>4. QED
    BY <1>6, <1>9, <2>1, <2>2, <2>3 DEF TruthInv, Undecided
<1>14. CleanUpLast'
  <2>1. \A t \in plan.teardown : t \in Node /\ t # n /\ terminal[t] = None
    BY <1>5, RunTyped DEF TruthInv, CleanUpLast, Tracked
  <2>2. QED
    BY <1>3, <1>4, <1>6, <2>1 DEF CleanUpLast
<1>15. Outcomes'
  <2> SUFFICES ASSUME NEW m \in Node PROVE Closed(m)'
    BY DEF Outcomes
  <2>1. outcomes \in [Node -> Seq(OutcomeRecord)] /\ Closed(m)
    BY DEF RunInv, TypeOK, LoopTyped, TruthInv, Outcomes
  <2>2. CASE m # n
    <3>1. outcomes'[m] = outcomes[m] /\ terminal'[m] = terminal[m]
      BY <1>1, <1>6, <2>1, <2>2
    <3>2. QED
      BY <2>1, <3>1 DEF Closed, Ordered, EndsAs
  <2>3. CASE m = n
    <3>1. extra \in Seq(OutcomeRecord) \/ \E k : extra = <<[attempt |-> k, status |-> "cancelled"]>>
      BY <1>1 DEF Cut
    <3>2. outcomes[n] = << >>
      BY <2>1, <2>3 DEF Closed
    <3>3. << >> \o extra = extra
      BY <3>1
    <3>4. outcomes'[n] = extra
      BY <1>1, <1>5, <2>1, <3>2, <3>3
    <3>5. Ordered(extra) /\ EndsAs(extra, state)
      BY <1>1 DEF Ordered, EndsAs, Cut, StatusOf
    <3>6. QED
      BY <1>5, <1>6, <2>3, <3>4, <3>5 DEF Closed
  <2>4. QED
    BY <2>2, <2>3
<1>16. Buffers'
  <2> SUFFICES ASSUME NEW m \in Node PROVE Buffered(m)'
    BY DEF Buffers
  <2>1. Buffered(m) /\ live' \subseteq live /\ live \subseteq Started /\ n \notin live'
    BY <1>3, TruthTyped DEF TruthInv, Buffers
  <2>2. CASE fate'[m] = fate[m]
    BY <1>4, <2>1, <2>2, BufferStays
  <2>3. CASE m = n /\ n \in live /\ fate'[n] = "timed-out"
    <3>1. Started' = Started
      BY <1>5 DEF Started
    <3>2. QED
      BY <2>1, <2>3, <3>1 DEF Buffered, Ordered
  <2>4. fate \in [Node -> {"running", "completed", "timed-out"}]
    BY DEF RunInv, TypeOK, ThreadsTyped
  <2>5. QED
    BY <1>5, <2>2, <2>3, <2>4
<1>17. Slots'
  <2> SUFFICES ASSUME NEW m \in Node PROVE Slot(m)'
    BY DEF Slots
  <2>1. Slot(m) /\ fate \in [Node -> {"running", "completed", "timed-out"}]
    BY DEF TruthInv, Slots, RunInv, TypeOK, ThreadsTyped
  <2>2. CASE m # n
    <3>1. fate'[m] = fate[m] /\ terminal'[m] = terminal[m] /\ timer'[m] = timer[m]
      BY <1>6, <2>1, <2>2 DEF TakesInHand, RunInv, TypeOK, ThreadsTyped
    <3>2. QED
      BY <2>1, <3>1, SlotStays
  <2>3. CASE m = n
    <3>1. terminal'[n] = state /\ (state = "succeeded" => n \in filled)
      BY <1>1, <1>6
    <3>2. n \in filled => state \in {"succeeded", "cancelled"}
      BY <1>1
    <3>3. (n \in filled => fate' = fate) /\ (timer'[n] # "off" => n \in Guarded)
      BY <2>1, <2>3 DEF Slot
    <3>4. QED
      BY <2>1, <2>3, <3>1, <3>2, <3>3 DEF Slot
  <2>4. QED
    BY <2>2, <2>3
<1>18. Messages'
  <2>1. ASSUME NEW k \in AnswersOf(gone, "cancelled") PROVE Truthful(k)'
    <3>1. PICK m \in Waiters : k = Done(m, "cancelled", TRUE)
      BY <1>2 DEF AnswersOf
    <3>2. k.node = m /\ k.state = "cancelled" /\ k.kind = "done" /\ k.closing
      BY <3>1 DEF Done
    <3>3. m \in Node /\ runner[m] \in {"waiting", "absent"}
      BY RunTyped DEF RunInv, OneHand, Started
    <3>4. buffer[m] = << >> /\ m \notin filled
      BY <3>3 DEF TruthInv, Buffers, Buffered, Slots, Slot
    <3>5. QED
      BY <3>2, <3>4 DEF Truthful, EndsAs
  <2>2. QED
    BY <1>3, <1>7, <2>1, MessagesStay DEF TruthInv
<1>19. Reasons'
  <2>1. draining' => cancelOrigin' # None
    BY <1>1, <1>3 DEF TruthInv, Reasons, None
  <2>2. StopNeedsFailure'
    <3>1. CASE cancelOrigin' = cancelOrigin
      <4>1. ASSUME NEW m \in Tracked, terminal[m] \in FailureLike PROVE terminal'[m] \in FailureLike
        BY <1>5, <1>6, <4>1 DEF FailureLike, None
      <4>2. QED
        BY <1>5, <3>1, <4>1 DEF TruthInv, Reasons, StopNeedsFailure
    <3>2. CASE state \in FailureLike
      BY <1>5, <1>6, <3>2 DEF StopNeedsFailure
    <3>3. QED
      BY <1>1, <3>1, <3>2
  <2>3. QED
    BY <1>3, <2>1, <2>2 DEF TruthInv, Reasons
<1>20. SoundResume(plan)'
  BY <1>4 DEF TruthInv, SoundResume
<1>21. QED
  BY <1>6, <1>10, <1>11, <1>12, <1>13, <1>14, <1>15, <1>16, <1>17, <1>18, <1>19, <1>20 DEF TruthInv

\* The loop learns of a deadline before the closure's report.
LEMMA DeadlineTrue == ASSUME RunInv, TruthInv, TakeDeadline PROVE TruthInv'
<1> DEFINE n == Head(queue).node
<1>1. /\ pc = "await" /\ queue # << >> /\ Head(queue).kind = "deadline"
      /\ terminal[n] = None /\ fate[n] = "running" /\ fate' = [fate EXCEPT ![n] = "timed-out"]
      /\ Conclude(n, "timed-out", TRUE, Cut(1, "timed-out"), {n})
      /\ TakesInHand(n) /\ UNCHANGED <<runner, attempt, result, filled, buffer>>
  BY DEF TakeDeadline, Receives, Stale
<1>2. queue \in Seq(Message) /\ Head(queue) = queue[1] /\ 1 \in DOMAIN queue
  BY <1>1, RunTyped, TailElements
<1>3. n \in Warned /\ n \in Guarded
  BY <1>1, <1>2 DEF Warned, NodesOf, TruthInv, Messages, Truthful
<1> HIDE DEF n
<1>4. n \in live /\ n \in Started /\ n \in Offered /\ n \in Node
  <2>1. n \in Started
    BY <1>3 DEF RunInv, Closures
  <2>2. QED
    BY <1>1, <2>1, RunTyped DEF RunInv, Closures, OneHand
<1>5. n \notin Waiters /\ n \notin plan.satisfied
  BY <1>4, TruthTyped DEF RunInv, OneHand
<1>6. n \notin filled
  BY <1>1, <1>3, <1>4 DEF TruthInv, Slots, Slot
<1>7. PICK closings : closings = Cut(1, "timed-out")
  OBVIOUS
<1>8. "timed-out" \in Reportable /\ closings \in Seq(OutcomeRecord)
  BY <1>7 DEF Reportable, ExecutedState, Cut, OutcomeRecord
<1>9. Ordered(closings) /\ EndsAs(closings, "timed-out")
  BY <1>7 DEF Cut, Ordered, EndsAs, StatusOf
<1>10. PICK s \in Reportable : s = "timed-out" /\ (s = "succeeded" <=> n \in filled)
  BY <1>6, <1>8
<1>11. QED
  BY <1>1, <1>3, <1>4, <1>5, <1>6, <1>7, <1>8, <1>9, <1>10, ConcludeTrue

\* The loop receives the report of a node it has not decided.
LEMMA ReportTrue == ASSUME RunInv, TruthInv, TakeReport PROVE TruthInv'
<1> DEFINE n == Head(queue).node
           s == Head(queue).state
<1>1. /\ pc = "await" /\ queue # << >> /\ Head(queue).kind = "done" /\ n \notin timedOut
      /\ Conclude(n, s, Head(queue).closing, buffer[n], {})
      /\ UNCHANGED <<runner, attempt, result, timer, filled, buffer, fate>>
  BY DEF TakeReport, Receives, Overtaken, threads
<1>2. /\ queue \in Seq(Message) /\ Head(queue) = queue[1] /\ 1 \in DOMAIN queue
      /\ Single(queue, "done") /\ StatesSound(queue)
  BY <1>1, RunTyped, TailElements DEF RunInv, OneHand, Closures
<1>3. /\ Head(queue).closing = TRUE /\ EndsAs(buffer[n], s) /\ (s = "succeeded" <=> n \in filled)
      /\ n \in Reported /\ s \in Reportable
  <2>1. Truthful(Head(queue))
    BY <1>2 DEF TruthInv, Messages
  <2>2. Head(queue).closing \in BOOLEAN
    BY <1>1, <1>2, QueueShrinks DEF Message
  <2>3. n \in Reported /\ s \in Reportable
    BY <1>1, <1>2 DEF Reported, NodesOf, StatesSound
  <2>4. QED
    BY <1>1, <2>1, <2>2, <2>3 DEF Truthful
<1>4. n \notin NodesOf(Tail(queue), "done")
  BY <1>1, <1>2, QueueShrinks
<1> HIDE DEF n, s
<1>5. /\ n \in Offered /\ n \in Node /\ n \notin Waiters /\ n \notin plan.satisfied
      /\ terminal[n] = None
  <2>1. n \in Hand
    BY <1>1, <1>3 DEF Hand
  <2>2. QED
    BY <1>1, <1>3, <2>1, RunTyped DEF RunInv, OneHand, TruthInv, Carried, Undecided, Over
<1>6. buffer[n] \in Seq(OutcomeRecord) /\ Ordered(buffer[n])
  BY <1>5 DEF RunInv, TypeOK, ThreadsTyped, TruthInv, Buffers, Buffered
<1>7. PICK closings, marked : closings = buffer[n] /\ marked = {}
  OBVIOUS
<1>8. /\ Ordered(closings) /\ EndsAs(closings, s)
      /\ closings \in Seq(OutcomeRecord) /\ marked \in SUBSET {n}
  BY <1>3, <1>6, <1>7
<1>9. QED
  <2>1. /\ pc = "await" /\ queue # << >> /\ fate' = fate
        /\ UNCHANGED <<runner, attempt, result, timer, filled, buffer>>
    BY <1>1
  <2>2. s \in Reportable /\ (s = "succeeded" <=> n \in filled) /\ Conclude(n, s, TRUE, closings, marked)
    BY <1>1, <1>3, <1>7
  <2>3. n \in NodesOf(Tail(queue), "done") => n \in marked
    BY <1>4
  <2>4. QED
    BY ONLY RunInv, TruthInv, <1>5, <1>8, <2>1, <2>2, <2>3, ConcludeTrue

\* A node left behind at the drain deadline is recorded as abandoned.
LEMMA AbandonTrue == ASSUME RunInv, TruthInv, Abandon PROVE TruthInv'
<1> USE DEF Abandon, counts, modes, outside, control
<1>1. /\ UNCHANGED <<plan, tracker, call, threads, queue, pc, back, agenda, outcomes, live, pending,
                     timedOut, draining, cancelOrigin, trigger>>
      /\ pc = "leave"
  OBVIOUS
<1>2. PICK n \in Leftover : terminal' = RecordTerminal(n, "abandoned") /\ written' = Write(n, "abandoned")
  <2>1. Leftover \in SUBSET Node /\ Leftover # {}
    BY RunTyped DEF Leftover
  <2>2. Lowest(Leftover) \in Leftover
    BY <2>1, LowestIsNode
  <2>3. QED
    BY <2>2
<1> HIDE DEF Abandon
<1>3. n \in live /\ terminal[n] = None /\ n \in Offered /\ n \in Tracked /\ n \in Node
      /\ n \notin plan.satisfied
  BY <1>2, TruthTyped DEF Leftover
<1>4. "abandoned" \in TerminalState /\ decisions = << >> /\ work = << >>
  BY <1>1 DEF TerminalState, FailureLike, TruthInv, Calm, Idle
<1>5. /\ Recorded' /\ terminal'[n] = "abandoned"
      /\ \A m \in Node \ {n} : terminal'[m] = terminal[m]
      /\ \A m \in Node : terminal[m] # None => terminal'[m] = terminal[m]
  BY <1>2, <1>3, <1>4, RecordTrue DEF TruthInv
<1>6. Agree'
  <2>1. Tracked' = Tracked /\ Tracked \subseteq Node /\ remaining' = remaining /\ decided' = decided
        /\ decisions' = << >> /\ work' = << >>
    BY <1>1, <1>4, RunTyped DEF Tracked, tracker, call
  <2>2. remaining[n] = 0
    BY <1>3 DEF Offered, Complete
  <2>3. \A m \in Tracked : terminal'[m] # None => remaining[m] = 0
    BY <1>5, <2>1, <2>2 DEF TruthInv, Agree
  <2>4. ASSUME NEW m \in Node, decided[m] # None PROVE terminal'[m] = decided[m]
    BY <1>4, <1>5, <2>4 DEF TruthInv, Agree, Known
  <2>5. QED
    BY <1>1, <2>1, <2>3, <2>4 DEF Agree, Known, Over, Single
<1>7. /\ ReadyNodes' = ReadyNodes /\ Waiters' = Waiters /\ Reported' = Reported /\ Tracked' = Tracked
  BY <1>1 DEF ReadyNodes, Waiters, Reported, NodesOf, ToSet, Tracked, call
<1>8. Calm'
  BY <1>1 DEF TruthInv, Calm, Idle, call
<1>9. Carried'
  <2>1. plan.satisfied \subseteq Node /\ \A m \in plan.satisfied : terminal'[m] = terminal[m]
    BY <1>3, <1>5, RunTyped
  <2>2. QED
    BY <1>1, <1>7, <2>1 DEF TruthInv, Carried, threads, Seeding
<1>10. Undecided'
  BY <1>1 DEF Undecided, Over
<1>11. CleanUpLast'
  <2>1. \A t \in plan.teardown : t \in Node /\ t # n /\ terminal[t] = None
    BY <1>1, <1>3, RunTyped DEF TruthInv, CleanUpLast, Tracked
  <2>2. QED
    BY <1>1, <1>5, <2>1 DEF CleanUpLast
<1>12. Outcomes' /\ Buffers' /\ Messages'
  BY <1>1, <1>3, <1>5, NoAttemptTrue, BuffersStay, MessagesStand DEF TruthInv, threads
<1>13. Slots'
  BY <1>1, <1>3, <1>5, SlotsOfOthers DEF TruthInv, threads
<1>14. Reasons' /\ SoundResume(plan)'
  BY <1>1, <1>5, TruthTyped, ReasonsStay DEF TruthInv, SoundResume
<1>15. QED
  BY <1>5, <1>6, <1>8, <1>9, <1>10, <1>11, <1>12, <1>13, <1>14 DEF TruthInv

-----------------------------------------------------------------------------
(* The threads beside the loop.                                             *)

\* A step of one runner: what it leaves true of its own buffer, slot and message
\* is all there is to see to.
LEMMA RunnerTrue ==
    ASSUME RunInv, TruthInv, NEW n \in Node, UNCHANGED <<plan, tracker, call, loop>>,
           n \notin Reported, runner[n] # "absent", runner'[n] # "absent",
           \A m \in Node \ {n} : /\ runner'[m] = runner[m] /\ attempt'[m] = attempt[m]
                                 /\ buffer'[m] = buffer[m] /\ fate'[m] = fate[m]
                                 /\ result'[m] = result[m] /\ timer'[m] = timer[m]
                                 /\ m \in filled' <=> m \in filled,
           NEW S, Brings(S), \A k \in S : Truthful(k)',
           Reported' \subseteq Reported \cup live \cup timedOut,
           Buffered(n)', Slot(n)'
    PROVE  TruthInv'
<1> USE DEF loop, control, records, counts, modes, outside
<1>1. /\ UNCHANGED <<pc, back, agenda, terminal, written, outcomes, live, pending, timedOut,
                     draining, cancelOrigin, trigger, decisions>>
      /\ ReadyNodes' = ReadyNodes /\ Waiters' = Waiters /\ Unoffered' = Unoffered
      /\ Tracked' = Tracked
  BY DEF ReadyNodes, Waiters, NodesOf, ToSet, Unoffered, Starting, InitialReady, InitialCount,
         Tracked, call
<1>2. Calm' /\ Agree'
  BY <1>1, CalmStays, AgreeStays DEF TruthInv, call, tracker
<1>3. n \notin plan.satisfied
  BY DEF TruthInv, Carried
<1>4. Carried'
  <2>1. \A m \in Node : runner'[m] = "absent" <=> runner[m] = "absent"
    BY <1>3
  <2>2. plan.satisfied \cap (Reported \cup live \cup timedOut) = {}
    BY TruthTyped DEF TruthInv, Carried, RunInv, Closures
  <2>3. QED
    BY <1>1, <2>1, <2>2 DEF TruthInv, Carried, Seeding
<1>5. Undecided'
  <2>1. Hand' \subseteq Hand
    BY <1>1 DEF Hand
  <2>2. QED
    BY <1>1, <2>1, UndecidedStays DEF TruthInv
<1>6. CleanUpLast' /\ Recorded' /\ Outcomes'
  BY <1>1, CleanUpStays, RecordsStay DEF TruthInv
<1>7. Buffers'
  <2> SUFFICES ASSUME NEW m \in Node \ {n} PROVE Buffered(m)'
    BY DEF Buffers
  <2>1. QED
    BY <1>1, BufferStays DEF TruthInv, Buffers
<1>8. Slots'
  <2> SUFFICES ASSUME NEW m \in Node \ {n} PROVE Slot(m)'
    BY DEF Slots
  <2>1. QED
    BY <1>1, SlotStays DEF TruthInv, Slots
<1>9. Messages'
  <2>1. \A m \in Reported : m \in Node \ {n}
    BY <1>3, RunTyped
  <2>2. \A m \in Reported : buffer'[m] = buffer[m] /\ (m \in filled' <=> m \in filled)
    BY <2>1
  <2>3. QED
    BY <1>1, <2>2, MessagesStay DEF TruthInv
<1>10. Reasons' /\ SoundResume(plan)'
  BY <1>1, TruthTyped, ReasonsStay DEF TruthInv, SoundResume
<1>11. QED
  BY <1>2, <1>4, <1>5, <1>6, <1>7, <1>8, <1>9, <1>10 DEF TruthInv

\* How an attempt is closed, and what it leaves in its slot.
LEMMA BodyEndsHow ==
    ASSUME NEW n \in Node, BodyEnds(n)
    PROVE  \E s \in ExecutedState, to \in {"backoff", "finishing"} :
             /\ runner[n] = "body" /\ runner' = [runner EXCEPT ![n] = to]
             /\ to = "backoff" => s # "succeeded" /\ result' = result
             /\ to = "finishing" => result' = [result EXCEPT ![n] = s]
             /\ Closes(n, s)
             /\ \/ filled' = filled /\ s # "succeeded"
                \/ filled' = filled \cup {n} /\ s = "succeeded" /\ ~Late(n)
             /\ \/ fate' = fate /\ s # "succeeded"
                \/ ~Late(n) /\ fate' = [fate EXCEPT ![n] = IF n \in Guarded THEN "completed" ELSE @]
<1> USE AttemptsAssumption DEF BacksOff, Settles
<1>1. {"failed", "timed-out", "succeeded"} \subseteq ExecutedState
  BY DEF ExecutedState
<1>2. CASE \E s \in BodyResult : BodyReturns(n, s)
  BY <1>1, <1>2 DEF BodyReturns
<1>3. CASE BodyTimesOut(n)
  BY <1>1, <1>3 DEF BodyTimesOut
<1>4. CASE BodyReturnsLate(n) \/ BodyPanics(n)
  BY <1>1, <1>4 DEF BodyReturnsLate, BodyPanics
<1>5. QED
  BY <1>2, <1>3, <1>4 DEF BodyEnds

\* One more record at the end of a list that is in order.
LEMMA OrderedGrows ==
    ASSUME NEW T, NEW rs \in Seq(T), NEW e \in T, NEW rs2, Appended(rs2, rs, e),
           \A r \in T : r.attempt \in Nat, Ordered(rs), \A i \in DOMAIN rs : rs[i].attempt < e.attempt
    PROVE  /\ Ordered(rs2) /\ rs2 # << >> /\ rs2[Len(rs2)] = e
           /\ \A i \in DOMAIN rs2 : rs2[i] = e \/ \E j \in DOMAIN rs : rs2[i] = rs[j]
<1>1. Len(rs) \in Nat /\ DOMAIN rs = 1..Len(rs)
  BY LenProperties
<1>2. rs2 # << >> /\ Len(rs2) = Len(rs) + 1
  BY AppendProperties DEF Appended
<1>3. /\ DOMAIN rs2 = DOMAIN rs \cup {Len(rs) + 1} /\ rs2[Len(rs) + 1] = e
      /\ \A i \in DOMAIN rs : rs2[i] = rs[i]
  BY OneMoreDecision DEF Appended
<1>4. \A i \in DOMAIN rs : rs[i].attempt \in Nat
  BY <1>1
<1>5. Ordered(rs2)
  BY <1>1, <1>3, <1>4 DEF Ordered
<1>6. QED
  BY <1>1, <1>2, <1>3, <1>5

\* An attempt's body ends.
LEMMA BodyEndsTrue ==
    ASSUME RunInv, TruthInv, Standing, NEW n \in Node, BodyEnds(n),
           UNCHANGED <<plan, tracker, call, loop>>
    PROVE  TruthInv'
<1>1. PICK s \in ExecutedState, to \in {"backoff", "finishing"} :
         /\ runner[n] = "body" /\ runner' = [runner EXCEPT ![n] = to]
         /\ to = "backoff" => s # "succeeded" /\ result' = result
         /\ to = "finishing" => result' = [result EXCEPT ![n] = s]
         /\ Closes(n, s)
         /\ \/ filled' = filled /\ s # "succeeded"
            \/ filled' = filled \cup {n} /\ s = "succeeded" /\ ~Late(n)
         /\ \/ fate' = fate /\ s # "succeeded"
            \/ ~Late(n) /\ fate' = [fate EXCEPT ![n] = IF n \in Guarded THEN "completed" ELSE @]
  BY BodyEndsHow
<1>2. /\ UNCHANGED <<attempt, timer, queue>> /\ terminal' = terminal /\ live' = live
  BY BodyEndsFacts DEF loop, records, counts
<1>3. /\ runner \in [Node -> RunnerState] /\ result \in [Node -> ExecutedState \cup {None}]
      /\ fate \in [Node -> {"running", "completed", "timed-out"}]
      /\ buffer \in [Node -> Seq(OutcomeRecord)] /\ attempt[n] \in Nat \ {0}
  BY <1>1 DEF RunInv, TypeOK, ThreadsTyped, Budget, Busy
<1>4. /\ runner'[n] = to /\ (to = "finishing" => result'[n] = s)
      /\ \A m \in Node \ {n} : runner'[m] = runner[m] /\ result'[m] = result[m]
  BY <1>1, <1>3 DEF RunnerState
<1>5. /\ \A m \in Node \ {n} : fate'[m] = fate[m]
      /\ fate'[n] = fate[n] \/ fate'[n] = "completed"
      /\ s = "succeeded" /\ n \in Guarded => fate'[n] = "completed"
  <2>1. CASE fate' = fate /\ s # "succeeded"
    BY <2>1
  <2>2. CASE ~Late(n) /\ fate' = [fate EXCEPT ![n] = IF n \in Guarded THEN "completed" ELSE @]
    BY <1>3, <2>2 DEF Late
  <2>3. QED
    BY <1>1, <2>1, <2>2
<1>6. PICK e \in OutcomeRecord : /\ e = Closing(n, s)
                                 /\ buffer' = [buffer EXCEPT ![n] = Append(buffer[n], e)]
  <2>1. Closing(n, s) \in OutcomeRecord
    BY <1>3 DEF Closing, OutcomeRecord, ExecutedState
  <2>2. PICK e \in OutcomeRecord : e = Closing(n, s)
    BY <2>1
  <2>3. QED
    BY <1>1, <1>3, <2>2 DEF Closes
<1>7. /\ \A m \in Node \ {n} : buffer'[m] = buffer[m]
      /\ Appended(buffer'[n], buffer[n], e) /\ buffer[n] \in Seq(OutcomeRecord)
      /\ e.attempt = attempt[n] /\ e.status = StatusOf(s)
  BY <1>3, <1>6 DEF Appended, Closing, StatusOf
<1>8. /\ Ordered(buffer[n]) /\ \A i \in DOMAIN buffer[n] : buffer[n][i].attempt < attempt[n]
      /\ fate[n] = "timed-out" => n \in Started \ live
  BY <1>1 DEF TruthInv, Buffers, Buffered
<1>9. /\ Ordered(buffer'[n]) /\ EndsAs(buffer'[n], s)
      /\ \A i \in DOMAIN buffer'[n] : buffer'[n][i].attempt <= attempt[n]
  <2>1. \A r \in OutcomeRecord : r.attempt \in Nat
    BY DEF OutcomeRecord
  <2>2. PICK rs2 : rs2 = buffer'[n]
    OBVIOUS
  <2>3. PICK rs \in Seq(OutcomeRecord) : rs = buffer[n] /\ Ordered(rs)
                  /\ \A i \in DOMAIN rs : rs[i].attempt < e.attempt
    BY <1>7, <1>8
  <2>4. /\ Ordered(rs2) /\ rs2 # << >> /\ rs2[Len(rs2)] = e
        /\ \A i \in DOMAIN rs2 : rs2[i] = e \/ \E j \in DOMAIN rs : rs2[i] = rs[j]
    BY <1>7, <2>1, <2>2, <2>3, OrderedGrows
  <2>5. \A j \in DOMAIN rs : rs[j].attempt <= attempt[n]
    BY <1>7, <2>1, <2>3
  <2>6. ASSUME NEW i \in DOMAIN rs2 PROVE rs2[i].attempt <= attempt[n]
    <3>1. CASE rs2[i] = e
      BY <1>3, <1>7, <3>1
    <3>2. CASE \E j \in DOMAIN rs : rs2[i] = rs[j]
      BY <2>5, <3>2
    <3>3. QED
      BY <2>4, <3>1, <3>2
  <2>7. QED
    BY <1>7, <2>2, <2>4, <2>6 DEF EndsAs
<1>10. Buffered(n)'
  <2>1. Started' = Started /\ live' = live
    <3>1. \A m \in Node : runner'[m] \notin {"waiting", "absent"} <=> runner[m] \notin {"waiting", "absent"}
      BY <1>1, <1>4
    <3>2. Tracked' = Tracked /\ Tracked \subseteq Node
      BY DEF Tracked
    <3>3. QED
      BY <1>2, <3>1, <3>2 DEF Started
  <2>2. fate'[n] = "timed-out" => n \in Started' \ live'
    BY <1>5, <1>8, <2>1
  <2>3. runner'[n] \in {"finishing", "returned"} => EndsAs(buffer'[n], result'[n])
    BY <1>4, <1>9
  <2>4. QED
    BY <1>2, <1>4, <1>9, <2>2, <2>3 DEF Buffered
<1>11. s = "succeeded" => terminal[n] \in {None, "abandoned"}
  <2>1. CASE n \in Tracked
    <3>1. n \in live \cup timedOut
      BY <1>1, <2>1 DEF RunInv, Closures, Busy
    <3>2. s = "succeeded" => n \notin timedOut
      BY <1>1 DEF Late, Standing
    <3>3. QED
      BY <3>1, <3>2 DEF Standing
  <2>2. CASE n \notin Tracked
    BY <1>1, <2>2 DEF Standing, Tracked, Busy
  <2>3. QED
    BY <2>1, <2>2
<1>12. Slot(n)'
  <2>1. Slot(n) /\ runner[n] = "body" /\ n \notin filled /\ terminal[n] # "succeeded"
    BY <1>1 DEF TruthInv, Slots, Slot
  <2>2. timer'[n] = timer[n] /\ terminal'[n] = terminal[n]
    BY <1>2
  <2>3. CASE filled' = filled /\ s # "succeeded"
    BY <1>4, <2>1, <2>2, <2>3 DEF Slot
  <2>4. CASE filled' = filled \cup {n} /\ s = "succeeded"
    BY <1>1, <1>4, <1>5, <1>11, <2>1, <2>2, <2>4 DEF Slot
  <2>5. QED
    BY <1>1, <2>3, <2>4
<1>13. \A m \in Node \ {n} : /\ runner'[m] = runner[m] /\ attempt'[m] = attempt[m]
                             /\ buffer'[m] = buffer[m] /\ fate'[m] = fate[m]
                             /\ result'[m] = result[m] /\ timer'[m] = timer[m]
                             /\ m \in filled' <=> m \in filled
  BY <1>1, <1>2, <1>4, <1>5, <1>7
<1>14. Brings({}) /\ Reported' \subseteq Reported
  BY <1>2, RunTyped, BringsNone
<1>15. n \notin Reported /\ runner[n] # "absent" /\ runner'[n] # "absent"
  BY <1>1, <1>4 DEF RunInv, OneHand, Busy
<1>16. QED
  BY <1>10, <1>12, <1>13, <1>14, <1>15, RunnerTrue

\* A retry: the records so far are of earlier attempts.
LEMMA NextAttemptTrue ==
    ASSUME RunInv, TruthInv, NEW n \in Node, NextAttempt(n), UNCHANGED <<plan, tracker, call, loop>>
    PROVE  TruthInv'
<1> USE DEF NextAttempt
<1>1. runner[n] = "backoff" /\ UNCHANGED <<result, timer, filled, buffer, queue>>
      /\ UNCHANGED <<terminal, live, plan>>
  BY DEF loop, records, counts
<1>2. /\ runner \in [Node -> RunnerState] /\ attempt \in [Node -> Nat]
      /\ fate \in [Node -> {"running", "completed", "timed-out"}]
      /\ buffer[n] \in Seq(OutcomeRecord)
  BY DEF RunInv, TypeOK, ThreadsTyped
<1>3. runner'[n] = "body" /\ \A m \in Node \ {n} : runner'[m] = runner[m]
  BY <1>2
<1>4. /\ fate'[n] = fate[n] \/ fate'[n] = "running"
      /\ \A m \in Node \ {n} : fate'[m] = fate[m]
  BY <1>2
<1>5. attempt'[n] = attempt[n] + 1 /\ \A m \in Node \ {n} : attempt'[m] = attempt[m]
  BY <1>2
<1> HIDE DEF NextAttempt
<1>6. Buffered(n)'
  <2>1. Buffered(n)
    BY DEF TruthInv, Buffers
  <2>2. \A i \in DOMAIN buffer[n] : buffer[n][i].attempt \in Nat /\ buffer[n][i].attempt <= attempt[n]
    <3>1. \A r \in OutcomeRecord : r.attempt \in Nat
      BY DEF OutcomeRecord
    <3>2. \A i \in DOMAIN buffer[n] : buffer[n][i] \in OutcomeRecord
      BY <1>2, ElementOfSeq
    <3>3. QED
      BY <2>1, <3>1, <3>2 DEF Buffered
  <2>3. \A i \in DOMAIN buffer[n] : buffer[n][i].attempt < attempt'[n]
    BY <1>2, <1>5, <2>2
  <2>4. \A i \in DOMAIN buffer[n] : buffer[n][i].attempt <= attempt'[n]
    BY <1>2, <1>5, <2>2
  <2>5. fate'[n] = "timed-out" => n \in Started' \ live'
    BY <1>1, <1>3, <1>4, <2>1 DEF Buffered, Started, Tracked
  <2>6. Ordered(buffer'[n])
    BY <1>1, <2>1 DEF Buffered
  <2>7. QED
    BY <1>1, <1>3, <2>3, <2>4, <2>5, <2>6 DEF Buffered
<1>7. Slot(n)'
  <2>1. Slot(n) /\ n \notin filled /\ terminal[n] # "succeeded"
    BY <1>1 DEF TruthInv, Slots, Slot
  <2>2. QED
    BY <1>1, <1>3, <2>1 DEF Slot
<1>8. Brings({}) /\ Reported' \subseteq Reported
  BY <1>1, RunTyped, BringsNone
<1>9. n \notin Reported /\ runner[n] # "absent" /\ runner'[n] # "absent"
  BY <1>1, <1>3 DEF RunInv, OneHand, Busy
<1>10. QED
  BY <1>1, <1>3, <1>4, <1>5, <1>6, <1>7, <1>8, <1>9, RunnerTrue

\* A runner that leaves its thread without a report, or before its report.
LEMMA LeavesTrue ==
    ASSUME RunInv, TruthInv, NEW n \in Tracked, NEW to \in {"returned", "gone", "unwound"},
           runner' = [runner EXCEPT ![n] = to],
           \/ /\ to \in {"gone", "unwound"} /\ runner[n] \in {"body", "unwound"}
              /\ result' = result
           \/ /\ to = "returned" /\ runner[n] = "finishing"
              /\ result' = [result EXCEPT ![n] = IF Late(n) THEN "timed-out" ELSE @],
           UNCHANGED <<attempt, fate, filled, buffer, queue>>,
           timer' = timer \/ (timer[n] # "off" /\ \E t \in TimerState : timer' = [timer EXCEPT ![n] = t]),
           UNCHANGED <<plan, tracker, call, loop>>
    PROVE  TruthInv'
<1>1. UNCHANGED <<terminal, live>> /\ n \in Node
  BY RunTyped DEF loop, records, counts
<1>2. /\ runner \in [Node -> RunnerState] /\ result \in [Node -> ExecutedState \cup {None}]
      /\ timer \in [Node -> TimerState]
  BY DEF RunInv, TypeOK, ThreadsTyped
<1>3. /\ runner'[n] = to /\ \A m \in Node \ {n} : runner'[m] = runner[m]
      /\ \A m \in Node \ {n} : result'[m] = result[m]
      /\ result'[n] = result[n] \/ (result'[n] = "timed-out" /\ to = "returned" /\ Late(n))
      /\ \A m \in Node \ {n} : timer'[m] = timer[m]
      /\ timer'[n] # "off" => timer[n] # "off"
  BY <1>1, <1>2
<1>4. Buffered(n)'
  <2>1. Buffered(n)
    BY <1>1 DEF TruthInv, Buffers
  <2>2. fate'[n] = "timed-out" => n \in Started' \ live'
    BY <1>1, <1>3, <2>1 DEF Buffered, Started, Tracked
  <2>3. to = "returned" => fate'[n] = "timed-out" \/ EndsAs(buffer'[n], result'[n])
    BY <1>3, <2>1 DEF Buffered, Late
  <2>4. Ordered(buffer'[n])
    BY <2>1 DEF Buffered
  <2>5. QED
    BY <1>3, <2>1, <2>2, <2>3, <2>4 DEF Buffered
<1>5. Slot(n)'
  <2>1. Slot(n)
    BY <1>1 DEF TruthInv, Slots
  <2>2. CASE to \in {"gone", "unwound"}
    BY <1>1, <1>3, <2>1, <2>2 DEF Slot
  <2>3. CASE to = "returned" /\ runner[n] = "finishing"
    BY <1>1, <1>3, <2>1, <2>3 DEF Slot, Late
  <2>4. QED
    BY <2>2, <2>3
<1>6. Brings({}) /\ Reported' \subseteq Reported
  BY RunTyped, BringsNone
<1>7. n \notin Reported /\ runner[n] # "absent" /\ runner'[n] # "absent"
  BY <1>3 DEF RunInv, OneHand, Busy
<1>8. QED
  BY <1>1, <1>3, <1>4, <1>5, <1>6, <1>7, RunnerTrue

\* A closure reports what it has buffered, and what is in its slot.
LEMMA ReportSentTrue ==
    ASSUME RunInv, TruthInv, NEW n \in Tracked, Report(n), UNCHANGED <<plan, tracker, call, loop>>
    PROVE  TruthInv'
<1>1. /\ runner[n] = "returned" /\ runner' = [runner EXCEPT ![n] = "gone"]
      /\ queue' = Append(queue, Done(n, result[n], TRUE))
      /\ UNCHANGED <<attempt, result, fate, timer, filled, buffer>>
      /\ UNCHANGED <<terminal, live, timedOut>> /\ n \in Node
  BY RunTyped DEF Report, loop, records, counts
<1>2. /\ runner'[n] = "gone" /\ \A m \in Node \ {n} : runner'[m] = runner[m]
  BY <1>1, RunTyped
<1>3. Buffered(n) /\ Slot(n) /\ result[n] \in Reportable /\ Done(n, result[n], TRUE) \in Message
  <2>1. result[n] \in Reportable
    BY <1>1 DEF RunInv, Budget, Busy, Reportable
  <2>2. QED
    BY <1>1, <2>1, AnswersTyped DEF TruthInv, Buffers, Slots
<1>4. Buffered(n)'
  BY <1>1, <1>2, <1>3 DEF Buffered, Ordered, Started, Tracked
<1>5. Slot(n)'
  BY <1>1, <1>2, <1>3 DEF Slot
<1>6. n \in live \cup timedOut
  BY <1>1 DEF RunInv, Closures, Busy
<1>7. PICK k \in Message : k = Done(n, result[n], TRUE)
  BY <1>3
<1>8. k.kind = "done" /\ k.node = n /\ k.state = result[n] /\ k.closing = TRUE
  BY <1>7 DEF Done
<1>9. Truthful(k)'
  <2>1. n \notin timedOut => EndsAs(buffer[n], result[n])
    BY <1>1, <1>3, <1>6 DEF Buffered
  <2>2. result[n] = "succeeded" <=> n \in filled
    BY <1>1, <1>3 DEF Slot
  <2>3. QED
    BY <1>1, <1>8, <2>1, <2>2 DEF Truthful, EndsAs, StatusOf
<1>10. Brings({k})
  BY <1>1, <1>7, RunTyped, BringsOne
<1>11. Reported' = Reported \cup {n}
  <2>1. Appended(queue', queue, k) /\ queue \in Seq(Message)
    BY <1>1, <1>7, RunTyped DEF Appended
  <2>2. QED
    BY <1>8, <2>1, NodesOfAppend DEF Reported
<1>12. n \notin Reported /\ runner[n] # "absent" /\ runner'[n] # "absent"
  BY <1>1, <1>2 DEF RunInv, OneHand, Busy
<1>13. Reported' \subseteq Reported \cup live \cup timedOut
  BY <1>6, <1>11
<1>14. QED
  BY <1>1, <1>2, <1>4, <1>5, <1>9, <1>10, <1>12, <1>13, RunnerTrue

\* Any step of a main-graph node's threads.
LEMMA ThreadStepTrue ==
    ASSUME RunInv, TruthInv, Standing, NEW n \in Tracked, Beside(ThreadStep(n)) PROVE TruthInv'
<1>1. n \in Node /\ ThreadStep(n) /\ UNCHANGED <<plan, tracker, call, loop>>
  BY RunTyped DEF Beside
<1>2. CASE InputsPanic(n)
  <2>1. PICK to \in {"returned", "gone", "unwound"} :
           to \in {"gone", "unwound"} /\ runner' = [runner EXCEPT ![n] = to]
    BY <1>2 DEF InputsPanic
  <2>2. /\ runner[n] = "body" /\ result' = result
        /\ UNCHANGED <<attempt, fate, timer, filled, buffer, queue>>
    BY <1>2 DEF InputsPanic
  <2>3. QED
    BY <1>1, <2>1, <2>2, LeavesTrue
<1>3. CASE Finish(n)
  <2>1. \E to \in {"returned", "gone", "unwound"} :
           to = "returned" /\ runner' = [runner EXCEPT ![n] = to]
    BY <1>3 DEF Finish
  <2>2. /\ runner[n] = "finishing"
        /\ result' = [result EXCEPT ![n] = IF Late(n) THEN "timed-out" ELSE @]
        /\ UNCHANGED <<attempt, fate, timer, filled, buffer, queue>>
    BY <1>3 DEF Finish
  <2>3. QED
    BY <1>1, <2>1, <2>2, LeavesTrue
<1>4. QED
  BY <1>1, <1>2, <1>3, BodyEndsTrue, NextAttemptTrue, ReportSentTrue, TimerTrue
     DEF ThreadStep, AfterBody

\* The loop lets go of a deadline's message.
LEMMA DropMessageTrue == ASSUME RunInv, TruthInv, DropMessage PROVE TruthInv'
<1>1. PICK n \in Tracked : DropsMessage(n) /\ UNCHANGED <<plan, tracker, call, loop>>
  BY DEF DropMessage
<1>2. /\ timer[n] = "in-hand" /\ timer' = [timer EXCEPT ![n] = "over"] /\ n \in Node
      /\ UNCHANGED <<attempt, result, fate, filled, buffer, queue>> /\ "over" \in TimerState
  BY <1>1, RunTyped DEF DropsMessage, TimerState
<1>3. CASE runner[n] = "unwound"
  <2>1. PICK to \in {"returned", "gone", "unwound"} :
           to = "gone" /\ runner' = [runner EXCEPT ![n] = to]
    BY <1>1, <1>3 DEF DropsMessage
  <2>2. QED
    BY <1>1, <1>2, <1>3, <2>1, LeavesTrue
<1>4. CASE runner[n] # "unwound"
  <2>1. runner' = runner
    BY <1>1, <1>4 DEF DropsMessage
  <2>2. Brings({})
    BY <1>2, RunTyped, BringsNone
  <2>3. \A m \in Node : timer'[m] # "off" => timer[m] # "off"
    BY <1>2 DEF RunInv, TypeOK, ThreadsTyped
  <2>4. /\ UNCHANGED <<pc, back, agenda, terminal, written, outcomes, live, pending, timedOut,
                       draining, cancelOrigin, trigger>>
    BY <1>1 DEF loop, control, records, counts, modes, outside
  <2>5. QED
    BY <1>1, <1>2, <2>1, <2>2, <2>3, <2>4, QueueTrue
<1>5. QED
  BY <1>3, <1>4

\* Any step of a teardown node's body.
LEMMA TeardownBodyTrue ==
    ASSUME RunInv, TruthInv, Standing, NEW n \in plan.teardown, Beside(BodyEnds(n) \/ NextAttempt(n))
    PROVE  TruthInv'
<1>1. n \in Node /\ UNCHANGED <<plan, tracker, call, loop>>
  BY RunTyped DEF Beside
<1>2. QED
  BY <1>1, BodyEndsTrue, NextAttemptTrue DEF Beside

-----------------------------------------------------------------------------
(* The teardown phase.                                                      *)

\* The teardown phase starts the body of its next node.
LEMMA TeardownStartsTrue == ASSUME RunInv, TruthInv, TeardownStarts PROVE TruthInv'
<1>1. PICK n \in Node : n = Cleaning /\ n \notin Tracked
  BY CleaningFacts DEF TeardownStarts
<1>2. /\ runner[n] = "waiting" /\ Dispatch(n) /\ UNCHANGED <<plan, tracker, call, loop, queue>>
      /\ UNCHANGED <<terminal, live>>
  BY <1>1 DEF TeardownStarts, loop, records, counts
<1>3. /\ runner \in [Node -> RunnerState] /\ attempt \in [Node -> Nat]
      /\ timer \in [Node -> TimerState]
  BY DEF RunInv, TypeOK, ThreadsTyped
<1>4. /\ runner'[n] = "body" /\ \A m \in Node \ {n} : runner'[m] = runner[m]
      /\ attempt'[n] = 1 /\ \A m \in Node \ {n} : attempt'[m] = attempt[m]
      /\ timer'[n] # "off" => n \in Guarded
      /\ \A m \in Node \ {n} : timer'[m] = timer[m]
      /\ UNCHANGED <<result, fate, filled, buffer>>
  BY <1>2, <1>3 DEF Dispatch
<1>5. Buffered(n) /\ Slot(n) /\ n \notin Started
  BY <1>1, <1>2 DEF TruthInv, Buffers, Slots, Started
<1>6. Buffered(n)'
  <2>1. buffer[n] = << >> /\ fate[n] # "timed-out"
    BY <1>2, <1>5 DEF Buffered
  <2>2. QED
    BY <1>4, <2>1 DEF Buffered, Ordered
<1>7. Slot(n)'
  <2>1. n \notin filled /\ terminal[n] # "succeeded"
    BY <1>2, <1>5 DEF Slot
  <2>2. QED
    BY <1>2, <1>4, <2>1 DEF Slot
<1>8. Brings({}) /\ Reported' \subseteq Reported
  BY <1>2, RunTyped, BringsNone
<1>9. n \notin Reported
  BY <1>1, RunTyped
<1>10. QED
  BY <1>2, <1>4, <1>6, <1>7, <1>8, <1>9, RunnerTrue

\* The teardown phase records its node, as its attempts and its slot say.
LEMMA CleanedUpTrue ==
    ASSUME RunInv, TruthInv, InTeardown, NEW s \in TerminalState,
           NEW closings \in Seq(OutcomeRecord), CleanedUp(s, closings),
           Ordered(closings), EndsAs(closings, s), runner[Cleaning] # "absent",
           \/ s = "abandoned" /\ runner[Cleaning] \in {"body", "backoff"}
           \/ s = result[Cleaning] /\ runner[Cleaning] = "finishing"
    PROVE  TruthInv'
<1> USE DEF CleanedUp, counts, modes, outside
<1>1. PICK n \in Node : /\ n = Cleaning /\ n \notin Tracked /\ n \in agenda /\ n \in plan.teardown
                        /\ agenda \subseteq plan.teardown /\ pc = "teardown"
  BY CleaningFacts
<1>2. /\ agenda' = agenda \ {n} /\ runner' = [runner EXCEPT ![n] = "gone"]
      /\ terminal' = RecordTerminal(n, s) /\ written' = Write(n, s)
      /\ outcomes' = [outcomes EXCEPT ![n] = outcomes[n] \o closings]
      /\ UNCHANGED <<plan, tracker, call, attempt, result, fate, timer, filled, buffer, queue, pc,
                     back, live, pending, timedOut, draining, cancelOrigin, trigger>>
      /\ runner[n] # "absent" /\ runner[n] # "waiting"
      /\ \/ s = "abandoned" /\ runner[n] \in {"body", "backoff"}
         \/ s = result[n] /\ runner[n] = "finishing"
  <2>1. outcomes \in [Node -> Seq(OutcomeRecord)]
    BY DEF RunInv, TypeOK, LoopTyped
  <2>2. QED
    BY <1>1, <2>1
<1> HIDE DEF CleanedUp
<1>3. terminal[n] = None /\ n \notin plan.satisfied /\ n \notin live /\ n \notin Started
  BY <1>1, TruthTyped DEF TruthInv, CleanUpLast, SoundResume
<1>4. decisions = << >> /\ work = << >>
  BY <1>1 DEF TruthInv, Calm, Idle
<1>5. /\ runner'[n] = "gone" /\ \A m \in Node \ {n} : runner'[m] = runner[m]
  BY <1>2, RunTyped
<1>6. /\ Recorded' /\ terminal'[n] = s /\ s # None
      /\ \A m \in Node \ {n} : terminal'[m] = terminal[m]
      /\ \A m \in Node : terminal[m] # None => terminal'[m] = terminal[m]
  BY <1>2, <1>3, RecordTrue, NoneIsNoState DEF TruthInv
<1>7. Agree'
  <2>1. Tracked' = Tracked /\ Tracked \subseteq Node /\ remaining' = remaining /\ decided' = decided
        /\ decisions' = << >> /\ work' = << >>
    BY <1>2, <1>4, RunTyped DEF Tracked, tracker, call
  <2>2. \A m \in Tracked : terminal'[m] # None => remaining[m] = 0
    BY <1>1, <1>6, <2>1 DEF TruthInv, Agree
  <2>3. ASSUME NEW m \in Node, decided[m] # None PROVE terminal'[m] = decided[m]
    BY <1>4, <1>6, <2>3 DEF TruthInv, Agree, Known
  <2>4. QED
    BY <1>1, <1>2, <2>1, <2>2, <2>3 DEF Agree, Known, Over, Single
<1>8. /\ ReadyNodes' = ReadyNodes /\ Waiters' = Waiters /\ Reported' = Reported /\ Tracked' = Tracked
  BY <1>2 DEF ReadyNodes, Waiters, Reported, NodesOf, ToSet, Tracked, call
<1>9. Calm'
  BY <1>2 DEF TruthInv, Calm, Idle, call
<1>10. Carried'
  <2>1. plan.satisfied \subseteq Node /\ \A m \in plan.satisfied : terminal'[m] = terminal[m]
    BY <1>3, <1>6, RunTyped
  <2>2. \A m \in Node : runner'[m] = "absent" <=> m \in plan.satisfied
    BY <1>3, <1>5 DEF TruthInv, Carried
  <2>3. QED
    BY <1>1, <1>2, <1>8, <2>1, <2>2 DEF TruthInv, Carried, Seeding
<1>11. Undecided'
  BY <1>1, <1>2 DEF Undecided, Over
<1>12. CleanUpLast'
  <2>1. \A t \in plan.teardown : t \in Node /\ (terminal[t] = None <=> t \in agenda)
    BY <1>1, RunTyped DEF TruthInv, CleanUpLast
  <2>2. QED
    BY <1>1, <1>2, <1>6, <2>1 DEF CleanUpLast
<1>13. Outcomes'
  <2> SUFFICES ASSUME NEW m \in Node PROVE Closed(m)'
    BY DEF Outcomes
  <2>1. outcomes \in [Node -> Seq(OutcomeRecord)] /\ Closed(m)
    BY DEF RunInv, TypeOK, LoopTyped, TruthInv, Outcomes
  <2>2. CASE m # n
    <3>1. outcomes'[m] = outcomes[m] /\ terminal'[m] = terminal[m]
      BY <1>2, <1>6, <2>1, <2>2
    <3>2. QED
      BY <2>1, <3>1 DEF Closed, Ordered, EndsAs
  <2>3. CASE m = n
    <3>1. outcomes[n] = << >>
      BY <1>3, <2>1, <2>3 DEF Closed
    <3>2. << >> \o closings = closings
      OBVIOUS
    <3>3. outcomes'[n] = closings
      BY <1>2, <2>1, <3>1, <3>2
    <3>4. QED
      BY <1>6, <2>3, <3>3 DEF Closed
  <2>4. QED
    BY <2>2, <2>3
<1>14. Buffers'
  <2> SUFFICES ASSUME NEW m \in Node PROVE Buffered(m)'
    BY DEF Buffers
  <2>1. Buffered(m)
    BY DEF TruthInv, Buffers
  <2>2. CASE m # n
    BY <1>2, <1>5, <2>1, <2>2, BufferStays
  <2>3. CASE m = n
    BY <1>2, <1>3, <1>5, <2>1, <2>3 DEF Buffered, Ordered
  <2>4. QED
    BY <2>2, <2>3
<1>15. Slots'
  <2> SUFFICES ASSUME NEW m \in Node PROVE Slot(m)'
    BY DEF Slots
  <2>1. Slot(m)
    BY DEF TruthInv, Slots
  <2>2. CASE m # n
    BY <1>2, <1>5, <1>6, <2>1, <2>2, SlotStays
  <2>3. CASE m = n
    BY <1>2, <1>5, <1>6, <2>1, <2>3 DEF Slot
  <2>4. QED
    BY <2>2, <2>3
<1>16. Messages'
  BY <1>2, MessagesStand DEF TruthInv
<1>17. Reasons' /\ SoundResume(plan)'
  BY <1>2, <1>6, TruthTyped, ReasonsStay DEF TruthInv, SoundResume
<1>18. QED
  BY <1>6, <1>7, <1>9, <1>10, <1>11, <1>12, <1>13, <1>14, <1>15, <1>16, <1>17 DEF TruthInv

\* A teardown node ends, by itself or at its deadline.
LEMMA TeardownEndsTrue == ASSUME RunInv, TruthInv, TeardownEnds \/ TeardownDeadline PROVE TruthInv'
<1>1. InTeardown /\ Cleaning \in Node /\ Cleaning \notin Started
  BY CleaningFacts DEF TeardownEnds, TeardownDeadline, Started
<1>2. CASE TeardownEnds
  <2>1. /\ runner[Cleaning] = "finishing" /\ result[Cleaning] \in TerminalState
        /\ buffer[Cleaning] \in Seq(OutcomeRecord)
    BY <1>1, <1>2, NoneIsNoState DEF TeardownEnds, RunInv, TypeOK, ThreadsTyped, Budget, Reportable
  <2>2. Ordered(buffer[Cleaning]) /\ EndsAs(buffer[Cleaning], result[Cleaning])
    BY <1>1, <2>1 DEF TruthInv, Buffers, Buffered
  <2>3. QED
    BY <1>1, <1>2, <2>1, <2>2, CleanedUpTrue DEF TeardownEnds
<1>3. CASE TeardownDeadline
  <2>1. /\ "abandoned" \in TerminalState /\ runner[Cleaning] \in {"body", "backoff"}
        /\ CleanedUp("abandoned", Cut(attempt[Cleaning], "abandoned"))
    BY <1>3 DEF TeardownDeadline, TerminalState, FailureLike
  <2>2. /\ Cut(attempt[Cleaning], "abandoned") \in Seq(OutcomeRecord)
        /\ Ordered(Cut(attempt[Cleaning], "abandoned"))
        /\ EndsAs(Cut(attempt[Cleaning], "abandoned"), "abandoned")
    BY <1>1, <2>1 DEF RunInv, TypeOK, ThreadsTyped, Budget, Busy, Cut, OutcomeRecord, Ordered,
                      EndsAs, StatusOf
  <2>3. QED
    BY <1>1, <2>1, <2>2, CleanedUpTrue
<1>4. QED
  BY <1>2, <1>3

-----------------------------------------------------------------------------
(* Where the closures stand.                                                *)

\* What a step may do to a closure, a runner and a record.
LEMMA StandingStays ==
    ASSUME Standing, plan' = plan,
           \A n \in timedOut' : \/ n \in timedOut /\ fate'[n] = fate[n]
                                \/ n \in Guarded /\ fate'[n] = "timed-out",
           \A n \in live' : \/ terminal'[n] = "abandoned"
                            \/ terminal'[n] = terminal[n] /\ (n \in live \/ terminal[n] = None),
           \A t \in plan.teardown :
              runner'[t] \in Busy => /\ terminal'[t] = terminal[t]
                                     /\ runner[t] \in Busy \/ terminal[t] = None
    PROVE  Standing'
BY DEF Standing

\* A step that starts nobody and records nobody.
LEMMA StandsStill ==
    ASSUME Standing, UNCHANGED <<plan, terminal, fate, runner>>, live' \subseteq live,
           timedOut' \subseteq timedOut
    PROVE  Standing'
BY DEF Standing

\* The loop records a node that is neither live nor a teardown node.
LEMMA OtherStands ==
    ASSUME Standing, UNCHANGED <<plan, fate, runner, live, timedOut>>, NEW n,
           n \notin live, n \notin plan.teardown,
           live \subseteq Node, plan.teardown \subseteq Node,
           \A m \in Node \ {n} : terminal'[m] = terminal[m]
    PROVE  Standing'
<1>1. \A m \in live \cup plan.teardown : terminal'[m] = terminal[m]
  OBVIOUS
<1>2. QED
  BY <1>1 DEF Standing

\* The node offered had no state.
LEMMA OfferStands ==
    ASSUME RunInv, Standing, NEW n \in Tracked, UNCHANGED <<plan, terminal, timedOut>>,
           \/ terminal[n] = None /\ (OfferOrPend(n) \/ Admit(n))
           \/ UNCHANGED <<threads, live>>
    PROVE  Standing'
<1>1. CASE UNCHANGED <<threads, live>>
  BY <1>1, StandsStill DEF threads
<1>2. CASE terminal[n] = None /\ Dispatch(n) /\ live' = live \cup {n}
  <2>1. n \notin plan.teardown /\ fate' = fate
    BY <1>2 DEF Tracked, Dispatch
  <2>2. \A t \in plan.teardown : runner'[t] = runner[t]
    BY <1>2, <2>1, RunTyped DEF Dispatch
  <2>3. QED
    BY <1>2, <2>1, <2>2, StandingStays
<1>3. QED
  BY <1>1, <1>2 DEF OfferOrPend, Admit

\* The loop concludes a node: it is live no longer.
LEMMA ConcludeStands ==
    ASSUME RunInv, Standing, NEW n \in Tracked, NEW s, NEW closing, NEW closings,
           NEW marked \in SUBSET {n}, Conclude(n, s, closing, closings, marked), runner' = runner,
           \/ fate' = fate /\ marked = {}
           \/ n \in Guarded /\ fate' = [fate EXCEPT ![n] = "timed-out"]
    PROVE  Standing'
<1>1. /\ plan' = plan /\ live' = live \ {n} /\ timedOut' = timedOut \cup marked
      /\ \E state : terminal' = RecordTerminal(n, state)
  BY DEF Conclude, NotifyTerminal
<1>2. \A m \in Node \ {n} : terminal'[m] = terminal[m]
  BY <1>1 DEF RecordTerminal, RunInv, TypeOK, LoopTyped
<1>3. plan.teardown \subseteq Node \ {n} /\ live' \subseteq Node \ {n} /\ live' \subseteq live
      /\ n \in Node /\ timedOut \subseteq Node
  BY <1>1, RunTyped DEF Tracked
<1>4. fate \in [Node -> {"running", "completed", "timed-out"}]
  BY DEF RunInv, TypeOK, ThreadsTyped
<1>5. \A m \in timedOut' : \/ m \in timedOut /\ fate'[m] = fate[m]
                           \/ m \in Guarded /\ fate'[m] = "timed-out"
  <2>1. CASE fate' = fate /\ marked = {}
    BY <1>1, <2>1
  <2>2. CASE n \in Guarded /\ fate' = [fate EXCEPT ![n] = "timed-out"]
    BY <1>1, <1>3, <1>4, <2>2
  <2>3. QED
    BY <2>1, <2>2
<1>6. QED
  BY <1>1, <1>2, <1>3, <1>5, StandingStays

\* A runner takes its next step.
LEMMA RunnerStands ==
    ASSUME RunInv, Standing, NEW n \in Node, ThreadStep(n), UNCHANGED <<plan, loop>>
    PROVE  Standing'
<1>1. UNCHANGED <<terminal, live, timedOut>>
  BY DEF loop, records, counts
<1>2. runner \in [Node -> RunnerState] /\ fate \in [Node -> {"running", "completed", "timed-out"}]
  BY DEF RunInv, TypeOK, ThreadsTyped
<1>3. \A m \in Node : runner'[m] \in Busy => runner[m] \in Busy
  <2>1. CASE BodyEnds(n)
    BY <1>2, <2>1, BodyEndsFacts DEF Busy
  <2>2. CASE InputsPanic(n) \/ NextAttempt(n) \/ Finish(n) \/ Report(n) \/ TimerFires(n)
    BY <1>2, <2>2 DEF InputsPanic, NextAttempt, Finish, Report, TimerFires, Busy
  <2>3. QED
    BY <2>1, <2>2 DEF ThreadStep, AfterBody
<1>4. \A m \in timedOut : m \in Node => fate'[m] = fate[m]
  <2>1. CASE BodyEnds(n)
    <3>1. PICK s \in ExecutedState :
             \/ fate' = fate /\ s # "succeeded"
             \/ ~Late(n) /\ fate' = [fate EXCEPT ![n] = IF n \in Guarded THEN "completed" ELSE @]
      BY <2>1, BodyEndsHow
    <3>2. ~Late(n) => n \notin timedOut
      BY DEF Late, Standing
    <3>3. QED
      BY <1>2, <3>1, <3>2
  <2>2. CASE NextAttempt(n)
    BY <1>2, <2>2 DEF NextAttempt, Standing
  <2>3. CASE InputsPanic(n) \/ Finish(n) \/ Report(n) \/ TimerFires(n)
    BY <2>3 DEF InputsPanic, Finish, Report, TimerFires
  <2>4. QED
    BY <2>1, <2>2, <2>3 DEF ThreadStep, AfterBody
<1>5. timedOut \subseteq Node /\ plan.teardown \subseteq Node
  BY RunTyped
<1>6. QED
  BY <1>1, <1>3, <1>4, <1>5, StandingStays

\* The teardown phase starts a node without a state, and drops its runner with
\* its record.
LEMMA TeardownStands ==
    ASSUME RunInv, TruthInv, Standing, TeardownStarts \/ TeardownEnds \/ TeardownDeadline
    PROVE  Standing'
<1>1. PICK n \in Node : /\ n = Cleaning /\ n \notin Tracked /\ n \in agenda /\ n \in plan.teardown
                        /\ pc = "teardown"
  BY CleaningFacts DEF TeardownStarts, TeardownEnds, TeardownDeadline
<1>2. terminal[n] = None
  BY <1>1 DEF TruthInv, CleanUpLast
<1>3. runner \in [Node -> RunnerState] /\ terminal \in [Node -> TerminalState \cup {None}]
      /\ live \subseteq Started /\ n \notin Started /\ live \subseteq Node
      /\ plan.teardown \subseteq Node
  BY <1>1, RunTyped DEF RunInv, TypeOK, LoopTyped, Closures, Started
<1>4. CASE TeardownStarts
  <2>1. UNCHANGED <<plan, terminal, fate, live, timedOut>> /\ runner' = [runner EXCEPT ![n] = "body"]
    BY <1>1, <1>4 DEF TeardownStarts, Dispatch, loop, records, counts
  <2>2. \A t \in plan.teardown : runner'[t] \in Busy => runner[t] \in Busy \/ terminal[t] = None
    BY <1>2, <1>3, <2>1
  <2>3. QED
    BY <2>1, <2>2, StandingStays
<1>5. CASE TeardownEnds \/ TeardownDeadline
  <2>1. PICK s : terminal' = RecordTerminal(n, s)
    BY <1>1, <1>5 DEF TeardownEnds, TeardownDeadline, CleanedUp
  <2>2. UNCHANGED <<plan, fate, live, timedOut>> /\ runner' = [runner EXCEPT ![n] = "gone"]
    BY <1>1, <1>5 DEF TeardownEnds, TeardownDeadline, CleanedUp, counts
  <2>3. \A m \in Node \ {n} : terminal'[m] = terminal[m] /\ runner'[m] = runner[m]
    BY <1>3, <2>1, <2>2 DEF RecordTerminal
  <2>4. runner'[n] \notin Busy /\ n \notin live
    BY <1>3, <2>2 DEF Busy
  <2>5. QED
    BY <1>3, <2>2, <2>3, <2>4, StandingStays
<1>6. QED
  BY <1>4, <1>5

\* The loop keeps its closures apart.
LEMMA LoopStandsBy == ASSUME RunInv, TruthInv, Standing, LoopStep PROVE Standing'
<1>1. CASE Moves
  BY <1>1, MovesFacts, StandsStill DEF Hands, threads
<1>2. CASE RejectPinned \/ TakeWake \/ TakeStaleDeadline \/ TakeLateReport \/ CascadeStep
  <2>1. UNCHANGED <<plan, terminal, fate, runner>>
    <3>1. CASE CascadeStep
      BY <3>1 DEF CascadeStep, Cascade, PopWork, VisitDependent, records, threads
    <3>2. CASE RejectPinned \/ TakeWake \/ TakeStaleDeadline \/ TakeLateReport
      BY <3>2 DEF RejectPinned, TakeWake, TakeStaleDeadline, TakeLateReport, Quiet, records, threads
    <3>3. QED
      BY <1>2, <3>1, <3>2
  <2>2. live' = live /\ timedOut' \subseteq timedOut
    BY <1>2 DEF RejectPinned, TakeWake, TakeStaleDeadline, TakeLateReport, CascadeStep, Quiet, counts
  <2>3. QED
    BY <2>1, <2>2, StandsStill
<1>3. CASE SeedSatisfied
  <2>1. Lowest(agenda) \in plan.satisfied
    BY <1>3, LowestIsNode DEF SeedSatisfied, RunInv, Points, Starting, TypeOK, LoopTyped
  <2>2. PICK n \in plan.satisfied : terminal' = RecordTerminal(n, "satisfied-from-prior")
    BY <1>3, <2>1 DEF SeedSatisfied
  <2>3. UNCHANGED <<plan, fate, runner, live, timedOut>>
    BY <1>3 DEF SeedSatisfied, NotifyTerminal, counts, threads
  <2>4. \A m \in Node \ {n} : terminal'[m] = terminal[m]
    BY <2>2 DEF RecordTerminal, RunInv, TypeOK, LoopTyped
  <2>5. n \notin live /\ n \notin plan.teardown /\ live \subseteq Node /\ plan.teardown \subseteq Node
    BY TruthTyped, RunTyped DEF TruthInv, SoundResume
  <2>6. QED
    BY <2>3, <2>4, <2>5, OtherStands
<1>4. CASE ApplyPropagated
  <2>1. /\ decisions # << >> /\ Head(decisions).kind = "propagated" /\ Head(decisions) = decisions[1]
        /\ 1 \in DOMAIN decisions
    BY <1>4, RunTyped, TailElements DEF ApplyPropagated, Applying
  <2>2. PICK n : n = decisions[1].node /\ \E s : terminal' = RecordTerminal(n, s)
    BY <1>4, <2>1 DEF ApplyPropagated
  <2>3. n \in Tracked /\ n \notin Hand
    BY <2>1, <2>2, InheritorFacts
  <2>4. UNCHANGED <<plan, fate, runner, live, timedOut>>
    BY <1>4 DEF ApplyPropagated, Applied, threads
  <2>5. \A m \in Node \ {n} : terminal'[m] = terminal[m]
    BY <2>2 DEF RecordTerminal, RunInv, TypeOK, LoopTyped
  <2>6. n \notin live /\ n \notin plan.teardown /\ live \subseteq Node /\ plan.teardown \subseteq Node
    BY <2>3, RunTyped DEF Hand, Tracked
  <2>7. QED
    BY <2>4, <2>5, <2>6, OtherStands
<1>5. CASE Abandon
  <2>1. PICK n : terminal' = RecordTerminal(n, "abandoned") /\ n \in Leftover
    <3>1. Leftover \in SUBSET Node /\ Leftover # {}
      BY <1>5, RunTyped DEF Leftover, Abandon
    <3>2. Lowest(Leftover) \in Leftover
      BY <3>1, LowestIsNode
    <3>3. QED
      BY <1>5, <3>2 DEF Abandon
  <2>2. UNCHANGED <<plan, fate, runner, live, timedOut>>
    BY <1>5 DEF Abandon, threads, counts
  <2>3. n \in live /\ n \notin plan.teardown /\ terminal[n] = None /\ n \in Node
    BY <2>1, TruthTyped DEF Leftover, Tracked
  <2>4. \A m \in Node : terminal'[m] = IF m = n THEN "abandoned" ELSE terminal[m]
    BY <2>1, <2>3 DEF RecordTerminal, RunInv, TypeOK, LoopTyped
  <2>5. live \subseteq Node /\ plan.teardown \subseteq Node
    BY RunTyped
  <2>6. QED
    BY <2>2, <2>3, <2>4, <2>5, StandingStays
<1>6. CASE OfferFrontier
  <2>1. PICK n \in agenda : (terminal[n] = None /\ OfferOrPend(n)) \/ UNCHANGED <<threads, live>>
    BY <1>6, LowestIsNode DEF OfferFrontier, RunInv, TypeOK, LoopTyped
  <2>2. n \in Tracked /\ UNCHANGED <<plan, terminal, timedOut>>
    BY <1>6, RunTyped DEF OfferFrontier, RunInv, Points, records
  <2>3. QED
    BY <2>1, <2>2, OfferStands
<1>7. CASE ApplyReady
  <2>1. PICK n : /\ n = Head(decisions).node
                 /\ (terminal[n] = None /\ OfferOrPend(n)) \/ UNCHANGED <<threads, live>>
    BY <1>7 DEF ApplyReady
  <2>2. n \in Tracked
    BY <1>7, <2>1, DecisionTaken DEF ApplyReady, Applied
  <2>3. UNCHANGED <<plan, terminal, timedOut>>
    BY <1>7 DEF ApplyReady, Applied, records
  <2>4. QED
    BY <2>1, <2>2, <2>3, OfferStands
<1>8. CASE DrainAdmit
  <2>1. PICK n \in Waiters : Admit(n)
    BY <1>8, RunTyped, LineMoves DEF DrainAdmit, RunInv, OneHand, Waiters
  <2>2. n \in Tracked /\ terminal[n] = None
    BY <1>8, <2>1, RunTyped DEF DrainAdmit, TruthInv, Undecided, Hand, Over
  <2>3. UNCHANGED <<plan, terminal, timedOut>>
    BY <1>8 DEF DrainAdmit, records
  <2>4. QED
    BY <2>1, <2>2, <2>3, OfferStands
<1>9. CASE TakeDeadline
  <2>1. PICK n : /\ n = Head(queue).node /\ fate' = [fate EXCEPT ![n] = "timed-out"]
                 /\ Conclude(n, "timed-out", TRUE, Cut(1, "timed-out"), {n}) /\ runner' = runner
    BY <1>9 DEF TakeDeadline
  <2>2. queue # << >> /\ Head(queue).kind = "deadline" /\ Head(queue) = queue[1] /\ 1 \in DOMAIN queue
    BY <1>9, RunTyped, TailElements DEF TakeDeadline, Receives
  <2>3. n \in Warned /\ n \in Guarded
    BY <2>1, <2>2 DEF Warned, NodesOf, TruthInv, Messages, Truthful
  <2>4. n \in Tracked
    BY <2>3, RunTyped DEF RunInv, Closures
  <2>5. QED
    BY <2>1, <2>3, <2>4, ConcludeStands
<1>10. CASE TakeReport
  <2>1. PICK n : /\ n = Head(queue).node /\ UNCHANGED <<fate, runner>>
                 /\ Conclude(n, Head(queue).state, Head(queue).closing, buffer[n], {})
    BY <1>10 DEF TakeReport, threads
  <2>2. queue # << >> /\ Head(queue).kind = "done" /\ Head(queue) = queue[1] /\ 1 \in DOMAIN queue
    BY <1>10, RunTyped, TailElements DEF TakeReport, Receives
  <2>3. n \in Reported /\ n \in Tracked
    BY <2>1, <2>2, RunTyped DEF Reported, NodesOf
  <2>4. QED
    BY <2>1, <2>3, ConcludeStands
<1>11. CASE DropMessage
  <2>1. PICK n \in Tracked : DropsMessage(n) /\ UNCHANGED <<plan, loop>>
    BY <1>11 DEF DropMessage
  <2>2. UNCHANGED <<plan, terminal, fate, live, timedOut>>
    BY <2>1 DEF DropsMessage, loop, records, counts
  <2>3. \A t \in plan.teardown : runner'[t] = runner[t]
    BY <2>1, RunTyped DEF DropsMessage, Tracked
  <2>4. QED
    BY <2>2, <2>3, RunTyped, StandingStays
<1>12. QED
  BY <1>1, <1>2, <1>3, <1>4, <1>5, <1>6, <1>7, <1>8, <1>9, <1>10, <1>11, TeardownStands
     DEF LoopStep, Moves

-----------------------------------------------------------------------------
(* The run contract.                                                        *)

\* The contract speaks of the same states and rules.
LEMMA SameStates ==
    /\ Contract!None = None /\ Contract!Fires = Fires
    /\ Contract!TerminalState = TerminalState
    /\ Contract!ExecutedState = ExecutedState
    /\ Contract!ExecutedState \cup Contract!StopLike = Reportable
    /\ \A r, S : Contract!EvaluateRule(r, S) = EvaluateRule(r, S)
<1>1. /\ Contract!SuccessLike = SuccessLike /\ Contract!SkipLike = SkipLike
      /\ Contract!FailureLike = FailureLike /\ Contract!StopLike = StopLike
      /\ Contract!None = None /\ Contract!Fires = Fires
  BY DEF Contract!SuccessLike, SuccessLike, Contract!SkipLike, SkipLike, Contract!FailureLike,
         FailureLike, Contract!StopLike, StopLike, Contract!None, None, Contract!Fires, Fires
<1>2. /\ Contract!TerminalState = TerminalState
      /\ Contract!ExecutedState = ExecutedState
      /\ Contract!ExecutedState \cup Contract!StopLike = Reportable
  BY <1>1 DEF Contract!TerminalState, TerminalState, Contract!ExecutedState, Reportable,
              ExecutedState
<1>3. ASSUME NEW S PROVE /\ Contract!EvalAllSucceeded(S) = EvalAllSucceeded(S)
                         /\ Contract!EvalAnyFailed(S) = EvalAnyFailed(S)
  BY <1>1 DEF Contract!EvalAllSucceeded, EvalAllSucceeded, Contract!EvalAnyFailed, EvalAnyFailed
<1>4. ASSUME NEW r, NEW S PROVE Contract!EvaluateRule(r, S) = EvaluateRule(r, S)
  BY <1>1, <1>3 DEF Contract!EvaluateRule, EvaluateRule
<1>5. QED
  BY <1>1, <1>2, <1>4

\* The loop records a node of the main graph, before the teardown phase.
LEMMA Decides ==
    ASSUME RunInv, TruthInv, NEW n \in Tracked, NEW s, terminal[n] = None,
           pc \notin {"teardown", "done"}, terminal' = RecordTerminal(n, s), plan' = plan
    PROVE  Contract!Decide(n, s)
<1>1. n \notin plan.teardown /\ \A t \in plan.teardown : terminal[t] = None
  BY DEF Tracked, TruthInv, CleanUpLast
<1>2. terminal' = [terminal EXCEPT ![n] = s]
  BY RunTyped DEF RecordTerminal
<1>3. QED
  BY <1>1, <1>2, SameStates DEF Contract!Decide, Contract!Give

\* What was handed out may run, once the loop has recorded what it was told of.
LEMMA OfferedMayRun ==
    ASSUME RunInv, TruthInv, decisions = << >>, NEW n \in Offered
    PROVE  Contract!MayRun(n)
<1>1. n \in Node /\ Upstream(n) \subseteq Node
  BY RunTyped, PlanTyped
<1>2. \A u \in Upstream(n) : decided[u] # None /\ terminal[u] = decided[u]
  BY <1>1 DEF Offered, RuleFired, Complete, TruthInv, Agree, Known
<1>3. {terminal[u] : u \in Upstream(n)} = {decided[u] : u \in Upstream(n)}
  BY <1>2
<1>4. /\ Contract!UpstreamOf(n) = Upstream(n)
      /\ Contract!Picture(n) = {decided[u] : u \in Upstream(n)}
      /\ Contract!GateOpen(n)
  BY <1>2, <1>3, SameStates DEF Contract!UpstreamOf, Upstream, Contract!Picture, Contract!GateOpen
<1>5. Upstream(n) = {} \/ EvaluateRule(plan.rule[n], {decided[u] : u \in Upstream(n)}) = Fires
  BY DEF Offered, RuleFired, Verdict
<1>6. QED
  BY <1>4, <1>5, SameStates DEF Contract!MayRun

\* A node that ran, was cancelled or was refused.
LEMMA ConcludesBy ==
    ASSUME RunInv, TruthInv, pc = "await", NEW n \in Offered, terminal[n] = None,
           NEW s \in Reportable, NEW closings, NEW marked,
           Conclude(n, s, TRUE, closings, marked)
    PROVE  Contract!CNext
<1>1. PICK state \in Reportable : terminal' = RecordTerminal(n, state)
  BY ConcludeFacts
<1>2. plan' = plan /\ n \in Tracked /\ n \in Node
  BY RunTyped DEF Conclude, NotifyTerminal
<1>3. Contract!Decide(n, state)
  BY <1>1, <1>2, Decides
<1>4. Contract!MayRun(n)
  BY OfferedMayRun DEF TruthInv, Calm
<1>5. state \in Contract!TerminalState
  BY SameStates, NoneIsNoState
<1>6. QED
  BY <1>2, <1>3, <1>4, <1>5, SameStates DEF Contract!Conclude, Contract!CNext

\* The loop receives the deadline or the report of a node it has not decided.
LEMMA ReceivesBy == ASSUME RunInv, TruthInv, TakeDeadline \/ TakeReport PROVE Contract!CNext
<1>1. pc = "await" /\ queue # << >> /\ Head(queue) = queue[1] /\ 1 \in DOMAIN queue
  BY RunTyped, TailElements DEF TakeDeadline, TakeReport, Receives
<1>2. CASE TakeDeadline
  <2>1. PICK n : /\ n = Head(queue).node /\ terminal[n] = None /\ Head(queue).kind = "deadline"
                 /\ Conclude(n, "timed-out", TRUE, Cut(1, "timed-out"), {n})
    BY <1>2 DEF TakeDeadline, Stale, Receives
  <2>2. n \in Offered
    BY <1>1, <2>1 DEF Warned, NodesOf, RunInv, Closures, OneHand
  <2>3. "timed-out" \in Reportable
    BY DEF Reportable, ExecutedState
  <2>4. QED
    BY <1>1, <2>1, <2>2, <2>3, ConcludesBy
<1>3. CASE TakeReport
  <2>1. PICK n, s : /\ n = Head(queue).node /\ s = Head(queue).state /\ Head(queue).kind = "done"
                    /\ n \notin timedOut /\ Conclude(n, s, Head(queue).closing, buffer[n], {})
    BY <1>3 DEF TakeReport, Receives, Overtaken
  <2>2. Truthful(Head(queue)) /\ Head(queue).closing \in BOOLEAN
    BY <1>1, RunTyped, QueueShrinks DEF TruthInv, Messages, Message
  <2>3. Head(queue).closing = TRUE
    BY <2>1, <2>2 DEF Truthful
  <2>4. s \in Reportable /\ n \in Reported /\ n \in Offered
    BY <1>1, <2>1, RunTyped DEF Reported, NodesOf, RunInv, Closures, StatesSound
  <2>5. terminal[n] = None
    BY <1>1, <2>1, <2>4 DEF TruthInv, Undecided, Hand, Over
  <2>6. QED
    BY <1>1, <2>1, <2>3, <2>4, <2>5, ConcludesBy
<1>4. QED
  BY <1>2, <1>3

\* The seed of a resumed run carries a node forward.
LEMMA SeedsBy == ASSUME RunInv, TruthInv, SeedSatisfied PROVE Contract!CNext
<1>1. pc = "seed" /\ agenda # {} /\ Lowest(agenda) \in agenda /\ agenda \subseteq plan.satisfied
  BY LowestIsNode DEF SeedSatisfied, RunInv, Points, Starting, TypeOK, LoopTyped
<1>2. PICK n \in agenda : terminal' = RecordTerminal(n, "satisfied-from-prior") /\ plan' = plan
  BY <1>1 DEF SeedSatisfied, NotifyTerminal
<1>3. n \in plan.satisfied /\ n \in Tracked /\ n \in Node
  BY <1>1, TruthTyped
<1>4. terminal[n] = None
  BY <1>1, <1>3 DEF TruthInv, Carried, Seeding
<1>5. Contract!Decide(n, "satisfied-from-prior")
  BY <1>1, <1>2, <1>3, <1>4, Decides
<1>6. QED
  BY <1>3, <1>5 DEF Contract!CarryForward, Contract!CNext

\* The loop records an inherited state when its node's upstreams are recorded.
LEMMA InheritsBy == ASSUME RunInv, TruthInv, ApplyPropagated PROVE Contract!CNext
<1>1. pc = "apply" /\ decisions # << >> /\ Head(decisions).kind = "propagated" /\ plan' = plan
  BY DEF ApplyPropagated, Applying, Applied
<1>2. Head(decisions) = decisions[1] /\ 1 \in DOMAIN decisions /\ DOMAIN decisions \subseteq Nat \ {0}
  BY <1>1, RunTyped, TailElements
<1>3. PICK n, s : /\ n = decisions[1].node /\ s = decisions[1].state
                  /\ terminal' = RecordTerminal(n, s)
  BY <1>2 DEF ApplyPropagated
<1>4. /\ n \in Tracked /\ n \in Node /\ terminal[n] = None /\ s = Verdict(n) /\ s \in TerminalState
      /\ Upstream(n) # {} /\ Complete(n) /\ Upstream(n) \subseteq Node
  BY <1>1, <1>2, <1>3, InheritorFacts
<1>5. \A u \in Upstream(n) : terminal[u] = decided[u] /\ decided[u] # None
  <2>1. Inherits(1)
    BY <1>1, <1>2 DEF TruthInv, Agree
  <2>2. \A j \in DOMAIN decisions : ~(j < 1)
    BY <1>2
  <2>3. QED
    BY <1>3, <1>4, <2>1, <2>2 DEF Inherits, Complete
<1>6. {terminal[u] : u \in Upstream(n)} = {decided[u] : u \in Upstream(n)}
  BY <1>5
<1>7. /\ Contract!UpstreamOf(n) = Upstream(n)
      /\ Contract!Picture(n) = {decided[u] : u \in Upstream(n)}
      /\ Contract!GateOpen(n)
  BY <1>5, <1>6, SameStates DEF Contract!UpstreamOf, Upstream, Contract!Picture, Contract!GateOpen
<1>8. s # Fires /\ s = EvaluateRule(plan.rule[n], {decided[u] : u \in Upstream(n)})
  BY <1>4, NoneIsNoState DEF Verdict
<1>9. Contract!Decide(n, s)
  BY <1>1, <1>3, <1>4, Decides
<1>10. QED
  BY <1>4, <1>7, <1>8, <1>9, SameStates DEF Contract!Inherit, Contract!MayRun, Contract!CNext

\* A node left behind at the drain deadline was handed out.
LEMMA AbandonsBy == ASSUME RunInv, TruthInv, Abandon PROVE Contract!CNext
<1>1. pc = "leave" /\ plan' = plan
  BY DEF Abandon
<1>2. PICK n \in Leftover : terminal' = RecordTerminal(n, "abandoned")
  <2>1. Leftover \in SUBSET Node /\ Leftover # {}
    BY RunTyped DEF Leftover, Abandon
  <2>2. Lowest(Leftover) \in Leftover
    BY <2>1, LowestIsNode
  <2>3. QED
    BY <2>2 DEF Abandon
<1>3. n \in Offered /\ n \in Tracked /\ n \in Node /\ terminal[n] = None
  BY <1>2, TruthTyped DEF Leftover
<1>4. Contract!MayRun(n)
  BY <1>1, <1>3, OfferedMayRun DEF TruthInv, Calm
<1>5. Contract!Decide(n, "abandoned")
  BY <1>1, <1>2, <1>3, Decides
<1>6. "abandoned" \in Contract!TerminalState
  BY SameStates DEF TerminalState, FailureLike
<1>7. QED
  BY <1>3, <1>4, <1>5, <1>6 DEF Contract!Conclude, Contract!CNext

\* A teardown node ends, by itself or at its deadline.
LEMMA CleansUpBy == ASSUME RunInv, TruthInv, TeardownEnds \/ TeardownDeadline PROVE Contract!CNext
<1>1. PICK n \in plan.teardown : n = Cleaning /\ n \in agenda /\ n \in Node /\ pc = "teardown"
  BY CleaningFacts DEF TeardownEnds, TeardownDeadline
<1>2. PICK s \in ExecutedState \cup {"abandoned"} : terminal' = RecordTerminal(n, s) /\ plan' = plan
  <2>1. CASE TeardownEnds
    <3>1. result[n] \in ExecutedState
      BY <1>1, <2>1 DEF TeardownEnds, RunInv, Budget
    <3>2. QED
      BY <1>1, <2>1, <3>1 DEF TeardownEnds, CleanedUp
  <2>2. CASE TeardownDeadline
    BY <1>1, <2>2 DEF TeardownDeadline, CleanedUp
  <2>3. QED
    BY <2>1, <2>2
<1>3. terminal[n] = None
  BY <1>1 DEF TruthInv, CleanUpLast
<1>4. terminal' = [terminal EXCEPT ![n] = s]
  BY <1>2, <1>3, RunTyped DEF RecordTerminal
<1>5. s \in Contract!TerminalState
  BY SameStates DEF TerminalState, FailureLike, ExecutedState, SuccessLike, SkipLike
<1>6. QED
  BY <1>1, <1>2, <1>3, <1>4, <1>5, SameStates DEF Contract!CleanUp, Contract!Give, Contract!CNext

\* Every step gives one state as the contract allows, or none.
LEMMA StepIsContract ==
    ASSUME RunInv, TruthInv, [Next]_vars PROVE [Contract!CNext]_(Contract!cvars)
<1> USE DEF Contract!cvars
<1>1. CASE LoopStep
  <2>1. CASE Moves
    BY <2>1, MovesFacts DEF Hands
  <2>2. CASE SeedSatisfied \/ ApplyPropagated \/ Abandon \/ TakeDeadline \/ TakeReport
             \/ TeardownEnds \/ TeardownDeadline
    BY <2>2, SeedsBy, InheritsBy, AbandonsBy, ReceivesBy, CleansUpBy
  <2>3. CASE CascadeStep
    BY <2>3 DEF CascadeStep, Cascade, PopWork, VisitDependent, records
  <2>4. CASE OfferFrontier \/ ApplyReady \/ DrainAdmit
    BY <2>4 DEF OfferFrontier, ApplyReady, Applied, DrainAdmit, records
  <2>5. CASE RejectPinned \/ TakeWake \/ TakeStaleDeadline \/ TakeLateReport \/ TeardownStarts
    BY <2>5 DEF RejectPinned, TakeWake, TakeStaleDeadline, TakeLateReport, TeardownStarts, Quiet,
                records, loop
  <2>6. CASE DropMessage
    BY <2>6 DEF DropMessage, loop, records
  <2>7. QED
    BY <1>1, <2>1, <2>2, <2>3, <2>4, <2>5, <2>6 DEF LoopStep, Moves
<1>2. CASE (\E n \in Tracked : Beside(ThreadStep(n)))
           \/ (\E n \in plan.teardown : Beside(BodyEnds(n) \/ NextAttempt(n)))
  BY <1>2 DEF Beside, loop, records
<1>3. CASE Interrupt \/ ClockPasses
  BY <1>3 DEF Interrupt, ClockPasses, records
<1>4. CASE UNCHANGED vars
  BY <1>4 DEF vars, loop, records
<1>5. QED
  BY <1>1, <1>2, <1>3, <1>4 DEF Next

\* Only a node carried forward is recorded as satisfied from the prior run.
Prior == \A n \in Node : terminal[n] = "satisfied-from-prior" => n \in plan.satisfied

\* That is so of every run that keeps the contract.
LEMMA PriorStays ==
    ASSUME RunInv, Prior, [Contract!CNext]_(Contract!cvars) PROVE Prior'
<1>1. CASE UNCHANGED Contract!cvars
  BY <1>1 DEF Contract!cvars, Prior
<1>2. ASSUME NEW n \in Node, NEW s, Contract!Give(n, s),
             s = "satisfied-from-prior" => n \in plan.satisfied
      PROVE  Prior'
  <2>1. \A m \in Node \ {n} : terminal'[m] = terminal[m]
    BY <1>2, RunTyped DEF Contract!Give
  <2>2. terminal'[n] = s
    BY <1>2 DEF Contract!Give, RunInv, TypeOK, LoopTyped
  <2>3. QED
    BY <1>2, <2>1, <2>2 DEF Contract!Give, Prior
<1>3. "satisfied-from-prior" \notin ExecutedState \cup Reportable \cup {"abandoned"}
  BY DEF ExecutedState, Reportable, StopLike
<1>4. ASSUME NEW n \in Node, NEW s, Contract!Conclude(n, s) \/ Contract!CleanUp(n, s) PROVE Prior'
  <2>1. Contract!Give(n, s) /\ s \in ExecutedState \cup Reportable \cup {"abandoned"}
    BY <1>4, SameStates DEF Contract!Conclude, Contract!CleanUp, Contract!Decide
  <2>2. QED
    BY <1>2, <1>3, <2>1
<1>5. ASSUME NEW n \in Node, Contract!CarryForward(n) PROVE Prior'
  BY <1>2, <1>5 DEF Contract!CarryForward, Contract!Decide
<1>6. ASSUME NEW n \in Node, Contract!Inherit(n) PROVE Prior'
  <2>1. PICK s : s = EvaluateRule(plan.rule[n], Contract!Picture(n)) /\ Contract!Give(n, s)
    BY <1>6, SameStates DEF Contract!Inherit, Contract!Decide
  <2>2. plan.rule[n] \in TriggerRule
    BY RunTyped, PlanTyped
  <2>3. s # "satisfied-from-prior"
    BY <2>1, <2>2 DEF EvaluateRule, EvalAllSucceeded, EvalAnyFailed, TriggerRule, Fires
  <2>4. QED
    BY <1>2, <2>1, <2>3
<1>7. QED
  BY <1>1, <1>4, <1>5, <1>6 DEF Contract!CNext

-----------------------------------------------------------------------------
(* The invariant.                                                           *)

\* Every step of the loop, of a thread, of the clocks and of the signal handler
\* keeps it.
LEMMA StepTrue == ASSUME RunInv, TruthInv, Standing, [Next]_vars PROVE TruthInv' /\ Standing'
<1>1. ASSUME LoopStep PROVE TruthInv'
  <2>1. CASE Moves
    BY <2>1, MovesTrue
  <2>2. CASE SeedSatisfied \/ OfferFrontier \/ CascadeStep \/ ApplyReady \/ ApplyPropagated
             \/ DrainAdmit \/ Abandon
    BY <2>2, SeedTrue, FrontierTrue, CascadeTrue, ReadyTrue, PropagatedTrue, DrainAdmitTrue,
       AbandonTrue
  <2>3. CASE RejectPinned \/ TakeWake \/ TakeStaleDeadline \/ TakeDeadline \/ TakeLateReport
             \/ TakeReport \/ DropMessage
    BY <2>3, DropMessageTrue, RejectTrue, TakeWakeTrue, StaleDeadlineTrue, DeadlineTrue, LateReportTrue, ReportTrue
  <2>4. CASE TeardownStarts \/ TeardownEnds \/ TeardownDeadline
    BY <2>4, TeardownStartsTrue, TeardownEndsTrue
  <2>5. QED
    BY <1>1, <2>1, <2>2, <2>3, <2>4 DEF LoopStep, Moves
<1>2. CASE \E n \in Tracked : Beside(ThreadStep(n))
  <2>1. PICK n \in Tracked : Beside(ThreadStep(n))
    BY <1>2
  <2>2. n \in Node /\ ThreadStep(n) /\ UNCHANGED <<plan, loop>>
    BY <2>1, RunTyped DEF Beside
  <2>3. QED
    BY <2>1, <2>2, ThreadStepTrue, RunnerStands
<1>3. CASE \E n \in plan.teardown : Beside(BodyEnds(n) \/ NextAttempt(n))
  <2>1. PICK n \in plan.teardown : Beside(BodyEnds(n) \/ NextAttempt(n))
    BY <1>3
  <2>2. n \in Node /\ ThreadStep(n) /\ UNCHANGED <<plan, loop>>
    BY <2>1, RunTyped DEF Beside, ThreadStep, AfterBody
  <2>3. QED
    BY <2>1, <2>2, TeardownBodyTrue, RunnerStands
<1>4. CASE Interrupt
  <2>1. UNCHANGED <<plan, terminal, fate, runner, live, timedOut>>
    BY <1>4 DEF Interrupt, records, counts, threads
  <2>2. QED
    BY <1>4, <2>1, InterruptTrue, StandsStill
<1>5. CASE ClockPasses
  <2>1. UNCHANGED <<plan, terminal, fate, runner, live, timedOut>>
    BY <1>5 DEF ClockPasses, records, counts, threads
  <2>2. QED
    BY <1>5, <2>1, MovesTrue, StandsStill DEF Moves
<1>6. CASE UNCHANGED vars
  <2>1. /\ UNCHANGED <<plan, tracker, call, back, agenda, terminal, written, outcomes, live,
                       pending, timedOut, draining, cancelOrigin, runner, attempt, result, fate,
                       filled, buffer>>
        /\ UNCHANGED <<pc, queue, trigger, timer>>
    BY <1>6 DEF vars, loop, control, records, counts, modes, outside, threads
  <2>2. Brings({})
    BY <2>1, RunTyped, BringsNone
  <2>3. TruthInv'
    BY <2>1, <2>2, QueueTrue
  <2>4. QED
    BY <2>1, <2>3, StandsStill
<1>7. QED
  BY <1>1, <1>2, <1>3, <1>4, <1>5, <1>6, LoopStandsBy DEF Next

Truth == RunInv /\ TruthInv /\ Standing /\ Prior

\* The whole of it is inductive.
LEMMA TruthKeeps ==
    /\ Init /\ SoundResume(plan) => Truth
    /\ Truth /\ [Next]_vars => Truth'
<1>1. Init /\ SoundResume(plan) => Standing /\ Prior
  <2> SUFFICES ASSUME Init PROVE Standing /\ Prior
    OBVIOUS
  <2>1. RunInv
    BY InitRuns
  <2>2. timedOut = {} /\ live = {} /\ \A n \in Node : terminal[n] = None
    BY DEF Init
  <2>3. QED
    BY <2>1, <2>2, RunTyped DEF Standing, Prior, None
<1>2. Truth /\ [Next]_vars => Prior'
  BY StepIsContract, PriorStays DEF Truth
<1>3. QED
  BY <1>1, <1>2, InitRuns, InitTrue, StepKeeps, StepTrue DEF Truth

\* On every pipeline whose carried-forward nodes have no upstream, what a run
\* says of its nodes is true at every moment.
THEOREM TruthInvariant ==
    ASSUME \A p \in Plans : SoundResume(p)
    PROVE  Spec => []Truth
<1>1. Init => SoundResume(plan)
  BY DEF Init, InitTracker
<1>2. QED
  BY <1>1, TruthKeeps, PTL DEF Spec

-----------------------------------------------------------------------------
(* What follows from it.                                                    *)

\* A node has one truth, whatever races whatever: its one record in the stream,
\* its entry in the run's table, what its dependents were told, and the records
\* of its attempts agree.
THEOREM OneTruthHolds ==
    ASSUME \A p \in Plans : SoundResume(p)
    PROVE  Spec => []OneTruth
<1>1. Truth => OneTruth
  <2> SUFFICES ASSUME Truth PROVE OneTruth
    OBVIOUS
  <2>1. terminal \in [Node -> TerminalState \cup {None}] /\ Tracked \subseteq Node
    BY TruthTyped DEF Truth
  <2>2. OneRecord
    <3> SUFFICES ASSUME NEW n \in Node
                 PROVE  /\ Len(written[n]) <= 1
                        /\ Len(written[n]) = 1 <=> terminal[n] # None
                        /\ Len(written[n]) = 1 => written[n][1] = terminal[n]
      BY DEF OneRecord
    <3>1. written[n] = IF terminal[n] = None THEN << >> ELSE <<terminal[n]>>
      BY DEF Truth, TruthInv, Recorded
    <3>2. CASE terminal[n] = None
      BY <3>1, <3>2
    <3>3. CASE terminal[n] # None
      BY <3>1, <3>3
    <3>4. QED
      BY <3>2, <3>3
  <2>3. TrackerAgrees
    BY <2>1 DEF Truth, TruthInv, TrackerAgrees, Calm, Agree, Known
  <2>4. OutcomesAgree
    <3> SUFFICES ASSUME NEW n \in Node
                 PROVE  /\ Ordered(outcomes[n])
                        /\ outcomes[n] # << >> => Closing(n, terminal[n]).status
                                                    = outcomes[n][Len(outcomes[n])].status
      BY DEF OutcomesAgree, Ordered
    <3>1. Closed(n)
      BY DEF Truth, TruthInv, Outcomes
    <3>2. Closing(n, terminal[n]).status = StatusOf(terminal[n])
      BY DEF Closing, StatusOf
    <3>3. QED
      BY <3>1, <3>2 DEF Closed, EndsAs
  <2>5. QED
    BY <2>2, <2>3, <2>4 DEF OneTruth
<1>2. QED
  BY <1>1, TruthInvariant, PTL

\* A slot that has a value belongs to a node that is not recorded as failed, timed
\* out or skipped, although a closure may come back after its deadline.
THEOREM SlotsMatchRecords ==
    ASSUME \A p \in Plans : SoundResume(p)
    PROVE  Spec => []SlotMatchesRecord
<1>1. Truth => SlotMatchesRecord
  BY DEF Truth, RunInv, TypeOK, ThreadsTyped, TruthInv, Slots, Slot, SlotMatchesRecord
<1>2. QED
  BY <1>1, TruthInvariant, PTL

\* A run is cancelled as failed only if some node failed.
THEOREM StopsForAReason ==
    ASSUME \A p \in Plans : SoundResume(p)
    PROVE  Spec => []StopNeedsFailure
<1>1. Truth => StopNeedsFailure
  BY DEF Truth, TruthInv, Reasons
<1>2. QED
  BY <1>1, TruthInvariant, PTL

\* A node the tracker decided as a success has its value: in its slot, or in the
\* prior run's.
LEMMA SuccessHasValue ==
    ASSUME Truth, NEW u \in Node, decided[u] \in SuccessLike
    PROVE  u \in filled \cup plan.satisfied
<1>1. Known(u, decided[u])
  BY DEF Truth, TruthInv, Agree, SuccessLike, None
<1>2. CASE terminal[u] = decided[u]
  BY <1>2 DEF Truth, TruthInv, Slots, Slot, Prior, SuccessLike
<1>3. CASE \E i \in DOMAIN decisions : DecidesAs(decisions[i], u, decided[u])
  <2>1. PICK i \in DOMAIN decisions : decisions[i].kind = "propagated" /\ decisions[i].node = u
                                     /\ decisions[i].state = decided[u]
    BY <1>3 DEF DecidesAs
  <2>2. plan.rule[u] \in TriggerRule
    BY RunTyped, PlanTyped DEF Truth
  <2>3. decided[u] = Verdict(u) /\ decided[u] # "succeeded"
    BY <2>1, InheritorFacts DEF Truth
  <2>4. Verdict(u) # "satisfied-from-prior"
    BY <2>2 DEF Verdict, EvaluateRule, EvalAllSucceeded, EvalAnyFailed, TriggerRule, Fires
  <2>5. QED
    BY <2>3, <2>4 DEF SuccessLike
<1>4. QED
  BY <1>1, <1>2, <1>3 DEF Known

\* When the body of a default-rule node runs, every value it consumes is there.
THEOREM ConsumersAreFed ==
    ASSUME \A p \in Plans : SoundResume(p)
    PROVE  Spec => []ConsumersFindInputs
<1>1. Truth => ConsumersFindInputs
  <2> SUFFICES ASSUME Truth, NEW n \in Tracked, runner[n] = "body", DefaultRule(n),
                      NEW u \in plan.data[n]
               PROVE  u \in filled \cup plan.satisfied
    BY DEF ConsumersFindInputs
  <2>1. n \in Offered
    BY TruthTyped DEF Truth, Started
  <2>2. n \in Node /\ Upstream(n) \subseteq Node /\ u \in Upstream(n)
    BY RunTyped, PlanTyped DEF Truth, Upstream
  <2>3. Verdict(n) = Fires
    BY <2>1, <2>2 DEF Offered, RuleFired
  <2>4. {decided[v] : v \in Upstream(n)} \ SuccessLike = {}
    BY <2>3 DEF Verdict, EvaluateRule, EvalAllSucceeded, DefaultRule, Fires
  <2>5. QED
    BY <2>2, <2>4, SuccessHasValue
<1>2. QED
  BY <1>1, TruthInvariant, PTL

\* The loop implements the run contract: whatever the threads, the deadlines and
\* the signals do, a node gets one state, once, when its upstreams have theirs and
\* by the verdict of its rule, and teardown nodes come last.
THEOREM RunKeepsContract ==
    ASSUME \A p \in Plans : SoundResume(p)
    PROVE  Spec => RefinesContract
<1>1. Init => Contract!CInit
  BY SameStates DEF Init, InitTracker, Contract!CInit
<1>2. Truth /\ [Next]_vars => [Contract!CNext]_Contract!cvars
  BY StepIsContract DEF Truth
<1>3. QED
  BY <1>1, <1>2, TruthInvariant, PTL DEF Spec, RefinesContract, Contract!CSpec

-----------------------------------------------------------------------------
(* Nobody is forgotten, on pipelines whose countdowns come out even.        *)

\* As long as the loop receives, a node the tracker handed out has a state or is
\* in a hand.
NobodyDropped ==
    pc \notin Over => \A n \in Offered : terminal[n] # None \/ n \in Unoffered \cup Hand

\* When the loop is left every node has a state, or the drain deadline has passed.
Finished ==
    /\ pc = "leave" => \/ draining /\ drainClock = "passed"
                       \/ \A n \in Tracked : terminal[n] # None
    /\ pc \in {"exit", "teardown", "done"} => \A n \in Tracked :
         terminal[n] # None \/ (draining /\ drainClock = "passed" /\ runner[n] = "waiting")

\* The tracker loses nobody as long as neither it nor its walk moves.
LEMMA LostStays ==
    ASSUME NobodyLost, UNCHANGED <<plan, tracker, work, visiting, telling>>
    PROVE  NobodyLost'
<1> USE DEF tracker
<1>1. /\ Tracked' = Tracked /\ Offered' = Offered
      /\ \A n : (Upstream(n)' = Upstream(n)) /\ (Told(n)' = Told(n)) /\ (Queued(n)' <=> Queued(n))
      /\ \A n, u : Heard(n, u)' <=> Heard(n, u)
  BY DEF Tracked, Offered, RuleFired, Complete, Verdict, Upstream, Told, Queued, Heard
<1>2. QED
  BY <1>1 DEF NobodyLost, Pending

\* The run loses nobody in the tracker's walks.
LEMMA RunLosesNobody ==
    ASSUME RunInv, TruthInv, Countable(plan), NobodyLost, [Next]_vars PROVE NobodyLost'
<1> USE DEF TruthInv
<1>1. CASE SeedSatisfied
  <2>1. PICK n : n = Lowest(agenda) /\ n \in agenda /\ n \in Node
    BY <1>1, LowestIsNode DEF SeedSatisfied, RunInv, TypeOK, LoopTyped
  <2>2. NotifyTerminal(n, "satisfied-from-prior")
    BY <1>1, <2>1 DEF SeedSatisfied
  <2>3. QED
    BY <2>1, <2>2, CallLosesNobody, NoneIsNoState DEF RunInv
<1>2. CASE TakeDeadline \/ TakeReport
  <2>1. pc = "await" /\ queue # << >> /\ Head(queue) = queue[1] /\ 1 \in DOMAIN queue
    BY <1>2, RunTyped, TailElements DEF TakeDeadline, TakeReport, Receives
  <2>2. \E n \in Node : \E s \in Reportable : \E closing, closings, marked :
          Conclude(n, s, closing, closings, marked)
    <3>1. CASE TakeDeadline
      <4>1. PICK n : /\ n = Head(queue).node /\ Head(queue).kind = "deadline"
                     /\ Conclude(n, "timed-out", TRUE, Cut(1, "timed-out"), {n})
        BY <3>1 DEF TakeDeadline, Receives
      <4>2. n \in Node
        BY <2>1, <4>1, RunTyped DEF Warned, NodesOf, RunInv, Closures
      <4>3. "timed-out" \in Reportable
        BY DEF Reportable, ExecutedState
      <4>4. QED
        BY <4>1, <4>2, <4>3
    <3>2. CASE TakeReport
      <4>1. PICK n, s : /\ n = Head(queue).node /\ s = Head(queue).state /\ Head(queue).kind = "done"
                        /\ Conclude(n, s, Head(queue).closing, buffer[n], {})
        BY <3>2 DEF TakeReport, Receives
      <4>2. s \in Reportable /\ n \in Node
        BY <2>1, <4>1, RunTyped DEF Reported, NodesOf, RunInv, Closures, StatesSound
      <4>3. QED
        BY <4>1, <4>2
    <3>3. QED
      BY <1>2, <3>1, <3>2
  <2>3. PICK n \in Node, s \in Reportable : \E closing, closings, marked :
          Conclude(n, s, closing, closings, marked)
    BY <2>2
  <2>4. NotifyTerminal(n, IF draining /\ terminal[n] = None THEN "cancelled" ELSE s)
    BY <2>3 DEF Conclude
  <2>5. (IF draining /\ terminal[n] = None THEN "cancelled" ELSE s) \in TerminalState
    BY NoneIsNoState DEF Reportable, StopLike
  <2>6. QED
    BY <2>4, <2>5, CallLosesNobody DEF RunInv
<1>3. CASE CascadeStep
  BY <1>3, PopLosesNobody, VisitLosesNobody, LostStays DEF CascadeStep, Cascade, RunInv, call
<1>4. CASE Moves
  BY <1>4, MovesFacts, LostStays DEF Hands, call
<1>5. CASE OfferFrontier \/ ApplyReady \/ ApplyPropagated \/ DrainAdmit \/ Abandon
  BY <1>5, LostStays DEF OfferFrontier, ApplyReady, ApplyPropagated, Applied, DrainAdmit, Abandon, call
<1>6. CASE RejectPinned \/ TakeWake \/ TakeStaleDeadline \/ TakeLateReport \/ DropMessage
  BY <1>6, LostStays DEF RejectPinned, TakeWake, TakeStaleDeadline, TakeLateReport, DropMessage, Quiet, call
<1>7. CASE TeardownStarts \/ TeardownEnds \/ TeardownDeadline
  BY <1>7, LostStays DEF TeardownStarts, TeardownEnds, TeardownDeadline, CleanedUp, call
<1>8. CASE \/ \E n \in Tracked : Beside(ThreadStep(n))
           \/ \E n \in plan.teardown : Beside(BodyEnds(n) \/ NextAttempt(n))
  BY <1>8, LostStays DEF Beside, call
<1>9. CASE Interrupt \/ ClockPasses \/ UNCHANGED vars
  BY <1>9, LostStays DEF Interrupt, ClockPasses, vars, call
<1>10. QED
  BY <1>1, <1>2, <1>3, <1>4, <1>5, <1>6, <1>7, <1>8, <1>9 DEF Next, LoopStep, Moves

\* Who had a state keeps it, and who was in a hand is in one or has a state.
Passes(n) == /\ terminal[n] # None => terminal'[n] # None
             /\ n \in Unoffered \cup Hand => terminal'[n] # None \/ n \in Unoffered' \cup Hand'

\* So nobody is dropped if the ones handed out in the step are in a hand.
LEMMA DroppedStays ==
    ASSUME NobodyDropped, pc' \notin Over => pc \notin Over,
           Offered' \subseteq Offered \cup ReadyNodes', \A n \in Offered : Passes(n)
    PROVE  NobodyDropped'
BY DEF NobodyDropped, Passes, Hand

\* Nobody is when no hand loses anybody.
LEMMA NoHandShrinks ==
    ASSUME NobodyDropped, pc' \notin Over => pc \notin Over,
           Offered' \subseteq Offered \cup ReadyNodes', terminal' = terminal,
           Unoffered \subseteq Unoffered', ReadyNodes \subseteq ReadyNodes', Waiters \subseteq Waiters',
           live \subseteq live', Reported \ timedOut \subseteq Reported' \ timedOut'
    PROVE  NobodyDropped'
BY DroppedStays DEF Passes, Hand

\* The loop moves on, or the tracker walks.
LEMMA MovesDropNobody ==
    ASSUME RunInv, NobodyDropped, Moves \/ CascadeStep PROVE NobodyDropped'
<1>1. CASE Moves
  <2>1. UNCHANGED Hands /\ Unoffered' = Unoffered
    BY <1>1, MovesFacts
  <2>2. /\ Offered' = Offered /\ UNCHANGED <<terminal, live, timedOut>>
        /\ ReadyNodes' = ReadyNodes /\ Waiters' = Waiters /\ Reported' = Reported
    BY <2>1, StillTracks DEF Hands, RunInv, ReadyNodes, Waiters, Reported, NodesOf, ToSet, call
  <2>3. pc' \notin Over => pc \notin Over
    <3>1. CASE InstallWaker \/ SeedingDone \/ FrontierDone \/ TopBusy \/ TopLeaves
      BY <3>1 DEF InstallWaker, SeedingDone, FrontierDone, TopBusy, TopLeaves, EmptyHanded, Over
    <3>2. CASE TopPinned \/ WaitExpires \/ ApplyDone \/ DrainDone
      BY <3>2 DEF TopPinned, Pinned, EmptyHanded, WaitExpires, ApplyDone, DrainDone, Over
    <3>3. CASE Leave \/ Exit \/ TeardownDone \/ ClockPasses
      BY <3>3 DEF Leave, Exit, TeardownDone, ClockPasses, control, Over
    <3>4. QED
      BY <1>1, <3>1, <3>2, <3>3 DEF Moves
  <2>4. QED
    BY <2>1, <2>2, <2>3, NoHandShrinks
<1>2. CASE CascadeStep
  <2>1. /\ UNCHANGED <<plan, terminal, live, timedOut, pending, queue, back, agenda>>
        /\ pc = "cascade" /\ pc' \in {"cascade", "apply"}
    BY <1>2 DEF CascadeStep, counts, records, Cascade, PopWork, VisitDependent
  <2>2. Waiters' = Waiters /\ Reported' = Reported /\ Unoffered' = Unoffered
    BY <2>1 DEF Waiters, Reported, NodesOf, ToSet, Unoffered, Starting, InitialReady, InitialCount,
                Tracked
  <2>3. ReadyNodes \subseteq ReadyNodes' /\ Offered' \subseteq Offered \cup ReadyNodes'
    <3>1. CASE UNCHANGED <<plan, tracker, call>>
      BY <3>1, StillTracks DEF RunInv, ReadyNodes, NodesOf, call
    <3>2. CASE PopWork
      BY <3>2, PopTracks DEF RunInv, ReadyNodes, NodesOf, PopWork
    <3>3. CASE VisitDependent
      <4>1. PICK d \in visiting : PassesOver(d) \/ CountsDown(d) \/ FiresAt(d) \/ InheritsAt(d)
        BY <3>3, VisitSplit DEF RunInv
      <4>2. Offered' = IF FiresAt(d) THEN Offered \cup {d} ELSE Offered
        BY <4>1, VisitTracks DEF RunInv
      <4>3. decisions \in Seq(Decision) /\ Ready(d) \in Decision
        <5>1. d \in Tracked /\ decisions \in Seq(Decision)
          BY RunTyped DEF RunInv, TrackerInv, TrackerTypeOK
        <5>2. QED
          BY <5>1 DEF Ready, Decision
      <4>4. CASE decisions' = decisions
        <5>1. ~FiresAt(d)
          BY <4>3, <4>4, AppendProperties, LenProperties DEF FiresAt
        <5>2. QED
          BY <4>2, <4>4, <5>1 DEF ReadyNodes, NodesOf
      <4>5. ASSUME NEW e \in Decision, Appended(decisions', decisions, e)
            PROVE  ReadyNodes \subseteq ReadyNodes'
        BY <4>3, <4>5, NodesOfAppend DEF ReadyNodes
      <4>6. ASSUME FiresAt(d) PROVE d \in ReadyNodes'
        <5>1. PICK e \in Decision : e = Ready(d) /\ Appended(decisions', decisions, e)
          BY <4>3, <4>6 DEF FiresAt, Appended
        <5>2. e.kind = "ready" /\ e.node = d
          BY <5>1 DEF Ready
        <5>3. NodesOf(decisions', "ready") = NodesOf(decisions, "ready") \cup {e.node}
          BY ONLY <4>3, <5>1, <5>2, NodesOfAppend
        <5>4. QED
          BY <5>2, <5>3 DEF ReadyNodes, NodesOf
      <4>7. QED
        BY <4>1, <4>2, <4>4, <4>5, <4>6, VisitDecides DEF RunInv
    <3>4. QED
      BY <1>2, <3>1, <3>2, <3>3 DEF CascadeStep, Cascade
  <2>4. QED
    BY <2>1, <2>2, <2>3, NoHandShrinks DEF Over
<1>3. QED
  BY <1>1, <1>2

\* A message is sent, or one that is no report is taken.
LEMMA QueueDropsNobody ==
    ASSUME RunInv, NobodyDropped, pc' \notin Over => pc \notin Over, Unoffered \subseteq Unoffered',
           UNCHANGED <<plan, tracker, call, terminal, pending, live, timedOut>>,
           Reported \subseteq Reported'
    PROVE  NobodyDropped'
<1>1. Offered' = Offered /\ ReadyNodes' = ReadyNodes /\ Waiters' = Waiters
  BY StillTracks DEF RunInv, ReadyNodes, Waiters, NodesOf, ToSet, call
<1>2. QED
  BY <1>1, NoHandShrinks

\* A line that is answered is in the queue.
LEMMA LineDropsNobody ==
    ASSUME RunInv, NobodyDropped, pc \in {"top", "await"}, pc' \in {"top", "await"},
           UNCHANGED LineAside,
           NEW q \in Seq(Message), NodesOf(q, "done") = Reported, Single(q, "done"), StatesSound(q),
           NEW ns \in Seq(Node), Distinct(ns), ToSet(ns) = Waiters, NEW s \in Reportable,
           queue' = q \o [i \in DOMAIN ns |-> Done(ns[i], s, TRUE)]
    PROVE  NobodyDropped'
<1>0. Waiters \cap Reported = {} /\ Waiters \cap timedOut = {}
  BY DEF RunInv, OneHand, Closures
<1>1. Reported' = Reported \cup Waiters
  BY <1>0, LineReports
<1>2. Offered' = Offered /\ ReadyNodes' = ReadyNodes /\ Unoffered' = Unoffered /\ Unoffered = {}
  BY StillTracks DEF LineAside, RunInv, ReadyNodes, NodesOf, call, Unoffered, Starting, Points
<1>3. \A n \in Offered : Passes(n)
  BY <1>0, <1>1, <1>2 DEF Passes, Hand, LineAside, records
<1>4. QED
  BY <1>2, <1>3, DroppedStays DEF Over

\* The loop rejects its line, hears of an interrupt, or takes a message that is
\* overtaken.
LEMMA MessagesDropNobody ==
    ASSUME RunInv, NobodyDropped, RejectPinned \/ TakeWake \/ TakeStaleDeadline \/ TakeLateReport
    PROVE  NobodyDropped'
<1> USE DEF Quiet
<1>1. /\ queue \in Seq(Message) /\ Single(queue, "done") /\ StatesSound(queue)
      /\ pending \in Seq(Node) /\ Distinct(pending) /\ ToSet(pending) = Waiters
  BY RunTyped DEF RunInv, OneHand, Closures, Waiters
<1>2. CASE RejectPinned
  <2>1. /\ pc = "top" /\ pc' = "await" /\ UNCHANGED LineAside
        /\ queue' = queue \o [i \in DOMAIN pending |-> Done(pending[i], "failed", TRUE)]
    BY <1>2 DEF RejectPinned, Pinned, EmptyHanded, LineAside, Rejected, records, outside
  <2>2. "failed" \in Reportable /\ NodesOf(queue, "done") = Reported
    BY DEF Reportable, ExecutedState, Reported
  <2>3. QED
    BY <1>1, <2>1, <2>2, LineDropsNobody
<1>3. CASE TakeWake
  <2>1. /\ pc = "await" /\ pc' = "top" /\ UNCHANGED LineAside
        /\ queue # << >> /\ Head(queue).kind = "wake"
    BY <1>3 DEF TakeWake, Receives, LineAside
  <2>2. PICK q : q = Tail(queue)
    OBVIOUS
  <2>3. /\ q \in Seq(Message) /\ NodesOf(q, "done") = Reported /\ Single(q, "done")
        /\ StatesSound(q)
    BY <1>1, <2>1, <2>2, QueueShrinks DEF Reported
  <2>4. CASE draining
    <3>1. queue' = q /\ pending' = pending
      BY <1>3, <2>2, <2>4 DEF TakeWake
    <3>2. Reported' = Reported /\ Unoffered' = Unoffered
      BY <2>1, <2>3, <3>1 DEF Reported, NodesOf, Unoffered, Starting, LineAside, RunInv, Points
    <3>3. QED
      BY <2>1, <3>1, <3>2, QueueDropsNobody DEF LineAside, records, Over
  <2>5. CASE ~draining
    <3>1. \E order \in Seq(Node) : /\ Distinct(order) /\ ToSet(order) = Waiters
                                   /\ queue' = q \o CancelAll(order)
      <4>1. CASE stopping
        BY <1>1, <1>3, <2>2, <2>5, <4>1 DEF TakeWake
      <4>2. CASE ~stopping
        <5>1. PICK order \in Seq(Node) :
                /\ order = Among(pending, Default) \o Among(pending, Node \ Default)
                /\ Distinct(order) /\ ToSet(order) = Waiters
          BY OrderIsLine
        <5>2. queue' = q \o CancelAll(order)
          BY <1>3, <2>2, <2>5, <4>2, <5>1 DEF TakeWake
        <5>3. QED
          BY <5>1, <5>2
      <4>3. QED
        BY <4>1, <4>2
    <3>2. PICK order \in Seq(Node) : /\ Distinct(order) /\ ToSet(order) = Waiters
                                     /\ queue' = q \o CancelAll(order)
      BY <3>1
    <3>3. queue' = q \o [i \in DOMAIN order |-> Done(order[i], "cancelled", TRUE)]
      BY <3>2 DEF CancelAll, Cancelled
    <3>4. "cancelled" \in Reportable
      BY DEF Reportable, StopLike
    <3>5. QED
      BY <2>1, <2>3, <3>2, <3>3, <3>4, LineDropsNobody
  <2>6. QED
    BY <2>4, <2>5
<1>4. CASE TakeStaleDeadline
  <2>1. /\ pc = "await" /\ pc' = "top" /\ queue # << >> /\ Head(queue).kind = "deadline"
        /\ queue' = Tail(queue) /\ UNCHANGED <<plan, tracker, call, pending, live, timedOut, back, terminal>>
    BY <1>4 DEF TakeStaleDeadline, Receives, counts, records
  <2>2. Reported' = Reported /\ Unoffered = {}
    BY <1>1, <2>1, QueueShrinks DEF Reported, NodesOf, Unoffered, Starting
  <2>3. QED
    BY <2>1, <2>2, QueueDropsNobody DEF Over
<1>5. CASE TakeLateReport
  <2>1. PICK n : /\ n = Head(queue).node /\ n \in timedOut /\ timedOut' = timedOut \ {n}
    BY <1>5 DEF TakeLateReport, Overtaken
  <2>2. /\ pc = "await" /\ queue # << >> /\ Head(queue).kind = "done"
        /\ queue' = Tail(queue) /\ pc' \in {"top", "drain"}
        /\ UNCHANGED <<plan, tracker, call, pending, live, terminal>>
    BY <1>5 DEF TakeLateReport, Receives, records
  <2>3. NodesOf(queue', "done") = Reported \ {n}
    BY <1>1, <2>1, <2>2, QueueShrinks DEF Reported
  <2>4. Reported \ timedOut \subseteq Reported' \ timedOut' /\ Unoffered = {}
    BY <2>1, <2>2, <2>3 DEF Reported, NodesOf, Unoffered, Starting
  <2>5. Offered' = Offered /\ ReadyNodes' = ReadyNodes /\ Waiters' = Waiters
    BY <2>2, StillTracks DEF RunInv, ReadyNodes, Waiters, NodesOf, ToSet, call
  <2>6. QED
    BY <2>2, <2>4, <2>5, NoHandShrinks DEF Over
<1>6. QED
  BY <1>2, <1>3, <1>4, <1>5

\* What becomes of a node that is taken up drops nobody else, and it neither.
LEMMA TakingDropsNobody ==
    ASSUME RunInv, NobodyDropped, NEW n, TakenUp(n), pc \notin Over, terminal' = terminal,
           Unoffered \subseteq Unoffered' \cup {n}, ReadyNodes \subseteq ReadyNodes' \cup {n},
           Waiters \subseteq Waiters' \cup {n},
           \/ terminal[n] # None
           \/ Launched(n) \/ Answered(n) \/ LeftWaiting(n),
           live \subseteq live', Reported \subseteq Reported'
    PROVE  NobodyDropped'
<1>1. /\ UNCHANGED <<timedOut, pc>> /\ Offered' = Offered /\ n \in Node
      /\ n \notin timedOut /\ n \notin Reported
  BY TakenUpFacts DEF TakenUp, OfferAside
<1>2. terminal[n] # None \/ n \in Hand'
  <2>1. CASE Launched(n)
    BY <2>1 DEF Launched, Hand
  <2>2. CASE Answered(n)
    BY <1>1, <2>2, AnswerBrings DEF Hand
  <2>3. CASE LeftWaiting(n)
    BY <1>1, <2>3, RunTyped, LineGrows DEF Hand, LeftWaiting
  <2>4. QED
    BY <2>1, <2>2, <2>3
<1>3. \A m \in Offered : Passes(m)
  BY <1>1, <1>2 DEF Passes, Hand
<1>4. QED
  BY <1>1, <1>3, DroppedStays

\* One that is offered leaves nobody out of the line.
LEMMA OfferLeavesLine ==
    ASSUME RunInv, NEW n \in Node, n \notin Reported, OfferOrPend(n)
    PROVE  Waiters \subseteq Waiters' /\ live \subseteq live' /\ Reported \subseteq Reported'
<1>1. pending' = pending => Waiters' = Waiters
  BY DEF Waiters, ToSet
<1>2. queue' = queue => Reported' = Reported
  BY DEF Reported, NodesOf
<1>3. "failed" \in Reportable /\ TRUE \in BOOLEAN /\ FALSE \in BOOLEAN
  BY DEF Reportable, ExecutedState
<1>4. CASE Fits(n) /\ Admit(n) /\ UNCHANGED pending
  BY <1>1, <1>2, <1>3, <1>4, ReportJoins DEF Admit
<1>5. CASE queue' = Append(queue, Rejected(n)) /\ UNCHANGED <<threads, live, pending>>
  BY <1>1, <1>3, <1>5, ReportJoins DEF Rejected
<1>6. CASE pending' = Append(pending, n) /\ UNCHANGED <<threads, live, queue>>
  BY <1>2, <1>6, RunTyped, LineGrows
<1>7. QED
  BY <1>4, <1>5, <1>6 DEF OfferOrPend

\* The start-up offers a node of the initial frontier.
LEMMA FrontierDropsNobody == ASSUME RunInv, TruthInv, NobodyDropped, OfferFrontier PROVE NobodyDropped'
<1>1. /\ pc = "frontier" /\ pc' = pc /\ agenda # {} /\ UNCHANGED OfferAside
      /\ UNCHANGED <<plan, tracker, call, terminal>>
  BY DEF OfferFrontier, OfferAside, records
<1>2. PICK n \in agenda :
         /\ n \in Node /\ agenda' = agenda \ {n}
         /\ \/ terminal[n] # None /\ UNCHANGED <<threads, queue, live, pending>>
            \/ terminal[n] = None /\ OfferOrPend(n)
  <2>1. Lowest(agenda) \in agenda /\ Lowest(agenda) \in Node
    BY <1>1, LowestIsNode DEF RunInv, TypeOK, LoopTyped
  <2>2. QED
    BY <2>1 DEF OfferFrontier
<1>3. /\ Unoffered = agenda /\ Unoffered' = agenda' /\ ReadyNodes' = ReadyNodes
      /\ Single(decisions, "ready")'
  BY <1>1 DEF Unoffered, ReadyNodes, NodesOf, Single, RunInv, OneHand, call
<1>4. n \in Offered /\ n \notin Reported /\ n \notin ReadyNodes /\ n \notin Started
  BY <1>3 DEF RunInv, OneHand
<1>5. runner[n] \in {"waiting", "absent"}
  BY <1>4, RunTyped DEF Started
<1>6. TakenUp(n)
  BY <1>1, <1>2, <1>3, <1>4, <1>5, StillTracks DEF TakenUp, RunInv
<1>7. \/ terminal[n] # None
      \/ Launched(n) \/ Answered(n) \/ LeftWaiting(n)
  <2> SUFFICES ASSUME terminal[n] = None PROVE Launched(n) \/ Answered(n) \/ LeftWaiting(n)
    OBVIOUS
  <2>1. n \notin plan.satisfied
    BY <1>1 DEF TruthInv, Carried, Seeding
  <2>2. runner[n] = "waiting"
    BY <1>2, <1>5, <2>1 DEF TruthInv, Carried
  <2>3. QED
    BY <1>2, <2>2, OfferCases
<1>8. Waiters \subseteq Waiters' /\ live \subseteq live' /\ Reported \subseteq Reported'
  BY <1>2, <1>4, OfferLeavesLine DEF Waiters, ToSet, Reported, NodesOf
<1>9. QED
  BY <1>1, <1>2, <1>3, <1>6, <1>7, <1>8, TakingDropsNobody DEF Over

\* The loop takes up a node that became ready.
LEMMA ReadyDropsNobody == ASSUME RunInv, TruthInv, NobodyDropped, ApplyReady PROVE NobodyDropped'
<1> DEFINE n == Head(decisions).node
<1>1. /\ Applying("ready") /\ decisions' = Tail(decisions)
      /\ UNCHANGED <<plan, tracker, work, visiting, telling, terminal>>
      /\ UNCHANGED OfferAside /\ agenda' = agenda /\ pc = "apply" /\ pc' = pc
      /\ \/ terminal[n] # None /\ UNCHANGED <<threads, queue, live, pending>>
         \/ terminal[n] = None /\ queue' = Append(queue, Cancelled(n)) /\ UNCHANGED <<threads, live, pending>>
         \/ terminal[n] = None /\ OfferOrPend(n)
  BY DEF ApplyReady, Applied, OfferAside, control, records, modes, outside, Applying
<1>2. /\ TrackerInv' /\ Offered' = Offered
      /\ Single(decisions, "ready")' /\ ReadyNodes' = ReadyNodes \ {n}
      /\ n \in ReadyNodes /\ n \in Tracked
  BY <1>1, DecisionTaken
<1> HIDE DEF n
<1>3. n \in Offered /\ n \notin Reported /\ n \notin Unoffered /\ n \notin Started /\ n \in Node
  BY <1>2, RunTyped DEF RunInv, OneHand
<1>4. runner[n] \in {"waiting", "absent"}
  BY <1>3, RunTyped DEF Started
<1>5. Unoffered' = Unoffered
  BY <1>1 DEF Unoffered, Starting, OfferAside, InitialReady, InitialCount, Tracked
<1>6. TakenUp(n)
  BY <1>1, <1>2, <1>3, <1>4, <1>5 DEF TakenUp
<1>7. /\ \/ terminal[n] # None
         \/ Launched(n) \/ Answered(n) \/ LeftWaiting(n)
      /\ Waiters \subseteq Waiters' /\ live \subseteq live' /\ Reported \subseteq Reported'
  <2>1. CASE terminal[n] # None /\ UNCHANGED <<threads, queue, live, pending>>
    BY <2>1 DEF Waiters, ToSet, Reported, NodesOf
  <2>2. CASE terminal[n] = None /\ queue' = Append(queue, Cancelled(n)) /\ UNCHANGED <<threads, live, pending>>
    <3>1. "cancelled" \in Reportable \ {"succeeded"} /\ TRUE \in BOOLEAN
      BY DEF Reportable, StopLike
    <3>2. Waiters' = Waiters
      BY <2>2 DEF Waiters, ToSet
    <3>3. Reported' = Reported \cup {n}
      BY <1>3, <2>2, <3>1, ReportJoins DEF Cancelled
    <3>4. QED
      BY <2>2, <3>1, <3>2, <3>3 DEF Answered, Cancelled
  <2>3. CASE terminal[n] = None /\ OfferOrPend(n)
    <3>1. n \notin plan.satisfied
      BY <1>2 DEF TruthInv, Carried
    <3>2. runner[n] = "waiting"
      BY <1>3, <1>4, <3>1 DEF TruthInv, Carried
    <3>3. QED
      BY <1>3, <2>3, <3>2, OfferCases, OfferLeavesLine
  <2>4. QED
    BY <1>1, <2>1, <2>2, <2>3
<1>8. QED
  BY <1>1, <1>2, <1>5, <1>6, <1>7, TakingDropsNobody DEF Over

\* The loop admits the head of its line.
LEMMA AdmittingDropsNobody == ASSUME RunInv, TruthInv, NobodyDropped, DrainAdmit PROVE NobodyDropped'
<1> DEFINE n == Head(pending)
<1>1. /\ pc = "drain" /\ pc' = pc /\ pending # << >> /\ pending' = Tail(pending) /\ Admit(n)
      /\ UNCHANGED OfferAside /\ agenda' = agenda /\ UNCHANGED <<plan, tracker, call, terminal>>
  BY DEF DrainAdmit, OfferAside, control, records
<1>2. n \in Waiters /\ ToSet(Tail(pending)) = Waiters \ {n}
  BY <1>1, RunTyped, LineMoves DEF RunInv, OneHand, Waiters
<1> HIDE DEF n
<1>3. Unoffered = {} /\ Unoffered' = {} /\ Waiters' = Waiters \ {n}
  BY <1>1, <1>2 DEF RunInv, Unoffered, Starting, OfferAside, Waiters, ToSet, Points
<1>4. /\ n \in Offered /\ n \notin Reported /\ n \notin ReadyNodes /\ n \in Tracked /\ n \notin Started
  BY <1>2, RunTyped DEF RunInv, OneHand
<1>5. runner[n] \in {"waiting", "absent"}
  BY <1>4, RunTyped DEF Started
<1>6. ReadyNodes' = ReadyNodes /\ Single(decisions, "ready")'
  BY <1>1 DEF ReadyNodes, NodesOf, Single, RunInv, OneHand, call
<1>7. TakenUp(n)
  BY <1>1, <1>3, <1>4, <1>5, <1>6, StillTracks DEF TakenUp, RunInv
<1>8. n \notin plan.satisfied
  BY <1>2 DEF TruthInv, Carried
<1>9. runner[n] = "waiting"
  BY <1>4, <1>5, <1>8, RunTyped DEF TruthInv, Carried
<1>10. Launched(n) /\ live \subseteq live' /\ queue' = queue
  BY <1>1, <1>3, <1>9, AdmitLaunches DEF Launched
<1>11. Reported' = Reported
  BY <1>10 DEF Reported, NodesOf
<1>12. QED
  BY <1>1, <1>3, <1>6, <1>7, <1>10, <1>11, TakingDropsNobody DEF Over

\* The loop records an inherited state.
LEMMA PropagatingDropsNobody == ASSUME RunInv, TruthInv, NobodyDropped, ApplyPropagated PROVE NobodyDropped'
<1> USE DEF ApplyPropagated, Applied, control
<1>1. /\ UNCHANGED <<plan, tracker, queue, pc, back, agenda, live, pending, timedOut>>
      /\ pc = "apply" /\ decisions' = Tail(decisions) /\ Applying("propagated")
      /\ decisions # << >> /\ Head(decisions).kind = "propagated"
  BY DEF Applying
<1>2. PICK n, s : /\ n = Head(decisions).node /\ s = Head(decisions).state
                  /\ terminal' = RecordTerminal(n, s)
  OBVIOUS
<1>3. Offered' = Offered /\ Head(decisions) \in Decision
  BY <1>1, DecisionTaken
<1> HIDE DEF ApplyPropagated
<1>4. ReadyNodes' = ReadyNodes
  <2>1. NodesOf(Tail(decisions), "ready") = NodesOf(decisions, "ready")
    BY <1>1, RunTyped, NodesOfTail
  <2>2. ReadyNodes' = NodesOf(Tail(decisions), "ready") /\ ReadyNodes = NodesOf(decisions, "ready")
    BY <1>1 DEF ReadyNodes, NodesOf
  <2>3. QED
    BY <2>1, <2>2
<1>5. Waiters' = Waiters /\ Reported' = Reported /\ Unoffered' = Unoffered
  BY <1>1 DEF Waiters, Reported, NodesOf, ToSet, Unoffered, Starting, InitialReady, InitialCount, Tracked
<1>6. \A m \in Node : terminal[m] # None => terminal'[m] # None
  BY <1>2, TruthTyped DEF RecordTerminal
<1>7. \A m \in Offered : Passes(m)
  BY <1>1, <1>4, <1>5, <1>6, RunTyped DEF Passes, Hand
<1>8. QED
  BY <1>1, <1>3, <1>7, DroppedStays DEF Over

\* A node that was carried forward is seeded.
LEMMA SeedingDropsNobody == ASSUME RunInv, TruthInv, NobodyDropped, SeedSatisfied PROVE NobodyDropped'
<1>1. PICK n \in plan.satisfied : /\ NotifyTerminal(n, "satisfied-from-prior") /\ n \in Node
                                  /\ terminal' = RecordTerminal(n, "satisfied-from-prior")
  <2>1. agenda \subseteq plan.satisfied /\ agenda \in SUBSET Node /\ agenda # {}
    BY DEF RunInv, Points, Starting, TypeOK, LoopTyped, SeedSatisfied
  <2>2. QED
    BY <2>1, LowestIsNode DEF SeedSatisfied
<1>2. /\ UNCHANGED <<plan, queue, back, pending, live, timedOut>>
      /\ pc = "seed" /\ pc' = "cascade" /\ back = "seed" /\ decisions = << >>
  BY DEF SeedSatisfied, counts, RunInv, Points, TruthInv, Calm, NotifyTerminal
<1>3. Offered' = Offered
  BY <1>1, CallTracks, NoneIsNoState DEF RunInv, Justified
<1>4. /\ Waiters' = Waiters /\ Reported' = Reported /\ Unoffered' = Unoffered
      /\ ReadyNodes = {}
  BY <1>2 DEF Waiters, Reported, ReadyNodes, NodesOf, ToSet, Unoffered, Starting, InitialReady,
              InitialCount, Tracked
<1>5. \A m \in Node : terminal[m] # None => terminal'[m] # None
  BY <1>1, TruthTyped DEF RecordTerminal
<1>6. \A m \in Offered : Passes(m)
  BY <1>2, <1>4, <1>5, RunTyped DEF Passes, Hand
<1>7. QED
  BY <1>2, <1>3, <1>6, DroppedStays DEF Over

\* A node that is concluded has a state, and the line it answers is in the queue.
LEMMA ConcludingDropsNobody ==
    ASSUME RunInv, TruthInv, NobodyDropped, pc = "await", queue # << >>,
           NEW n \in Node, NEW s \in Reportable, NEW closing, NEW closings \in Seq(OutcomeRecord),
           NEW marked \in SUBSET {n}, Conclude(n, s, closing, closings, marked),
           RuleFired(n), Head(queue).kind = "done" => Head(queue).node = n
    PROVE  NobodyDropped'
<1>1. PICK gone \in Seq(Node) :
         /\ Distinct(gone) /\ ToSet(gone) \subseteq Waiters
         /\ queue' = Tail(queue) \o CancelAll(gone)
         /\ pending' \in Seq(Node) /\ Waiters' = Waiters \ ToSet(gone)
         /\ inFlight' = CountDown(inFlight) + Len(gone)
  BY CancelsSplit
<1>2. /\ timedOut' = timedOut \cup marked /\ live' = live \ {n} /\ pc' = "cascade"
      /\ UNCHANGED <<plan, back, agenda>> /\ back = "drain"
  BY DEF Conclude, NotifyTerminal, RunInv, Points, Starting
<1>3. inFlight' \in Nat
  BY <1>1, RunTyped, LenProperties DEF CountDown
<1>4. terminal'[n] # None /\ \A m \in Node \ {n} : terminal'[m] = terminal[m]
  BY <1>1, <1>3, ConcludeTyped
<1>5. Offered' = Offered
  <2>1. PICK state \in Reportable : NotifyTerminal(n, state)
    <3>1. "cancelled" \in Reportable
      BY DEF Reportable, StopLike
    <3>2. QED
      BY <3>1 DEF Conclude
  <2>2. state \in TerminalState
    BY NoneIsNoState DEF Reportable
  <2>3. QED
    BY <2>1, <2>2, CallTracks DEF RunInv, Justified
<1>6. /\ decisions = << >> /\ Unoffered = {} /\ ReadyNodes = {}
  BY <1>2 DEF TruthInv, Calm, ReadyNodes, NodesOf, Unoffered, Starting
<1>7. PICK q : q = Tail(queue)
  OBVIOUS
<1>8. /\ q \in Seq(Message) /\ Single(q, "done") /\ StatesSound(q)
      /\ NodesOf(q, "done") \subseteq Reported /\ Reported \subseteq NodesOf(q, "done") \cup {n}
  BY <1>7, RunTyped, QueueShrinks DEF Reported, RunInv, OneHand, Closures
<1>9. Reported' = NodesOf(q, "done") \cup ToSet(gone)
  <2>1. queue' = q \o [i \in DOMAIN gone |-> Done(gone[i], "cancelled", TRUE)]
    BY <1>1, <1>7 DEF CancelAll, Cancelled
  <2>2. "cancelled" \in Reportable /\ ToSet(gone) \cap NodesOf(q, "done") = {}
    BY <1>1, <1>8 DEF Reportable, StopLike, RunInv, OneHand
  <2>3. QED
    BY <1>1, <1>8, <2>1, <2>2, LineReports
<1>10. ToSet(gone) \cap timedOut = {}
  BY <1>1 DEF RunInv, OneHand, Closures
<1>11. \A m \in Offered \ {n} : Passes(m)
  BY <1>1, <1>2, <1>4, <1>6, <1>8, <1>9, <1>10, RunTyped DEF Passes, Hand
<1>12. \A m \in Offered : Passes(m)
  BY <1>4, <1>11 DEF Passes
<1>13. QED
  BY <1>2, <1>5, <1>12, DroppedStays DEF Over

\* The loop takes the report of a node, or its deadline.
LEMMA ReportsDropNobody ==
    ASSUME RunInv, TruthInv, NobodyDropped, TakeDeadline \/ TakeReport PROVE NobodyDropped'
<1>1. /\ pc = "await" /\ queue # << >> /\ queue \in Seq(Message) /\ Head(queue) = queue[1]
      /\ 1 \in DOMAIN queue
  BY RunTyped, TailElements DEF TakeDeadline, TakeReport, Receives
<1>2. CASE TakeDeadline
  <2>1. PICK n, closings, marked :
           /\ n = Head(queue).node /\ Head(queue).kind = "deadline"
           /\ closings = Cut(1, "timed-out") /\ marked = {n}
           /\ Conclude(n, "timed-out", TRUE, closings, marked)
    BY <1>2 DEF TakeDeadline, Receives
  <2>2. n \in Offered
    BY <1>1, <2>1 DEF Warned, NodesOf, RunInv, OneHand, Closures
  <2>3. /\ n \in Node /\ RuleFired(n) /\ marked \in SUBSET {n}
        /\ "timed-out" \in Reportable /\ closings \in Seq(OutcomeRecord)
    BY <2>1, <2>2, RunTyped DEF Reportable, ExecutedState, Cut, OutcomeRecord, Offered
  <2>4. Head(queue).kind # "done"
    BY <2>1
  <2>5. QED
    BY <1>1, <2>1, <2>3, <2>4, ConcludingDropsNobody
<1>3. CASE TakeReport
  <2>1. PICK n, s, closings, marked :
           /\ n = Head(queue).node /\ s = Head(queue).state /\ Head(queue).kind = "done"
           /\ closings = buffer[n] /\ marked = {}
           /\ Conclude(n, s, Head(queue).closing, closings, marked)
    BY <1>3 DEF TakeReport, Receives
  <2>2. n \in Offered /\ s \in Reportable
    BY <1>1, <2>1 DEF Reported, NodesOf, RunInv, OneHand, Closures, StatesSound
  <2>3. n \in Node /\ RuleFired(n) /\ closings \in Seq(OutcomeRecord) /\ marked \in SUBSET {n}
    BY <2>1, <2>2, RunTyped DEF RunInv, TypeOK, ThreadsTyped, Offered
  <2>4. QED
    BY <1>1, <2>1, <2>2, <2>3, ConcludingDropsNobody
<1>4. QED
  BY <1>2, <1>3

\* A closure, a deadline or a signal goes on beside the loop.
LEMMA BesideDropsNobody ==
    ASSUME RunInv, NobodyDropped,
           \/ \E n \in Tracked : Beside(ThreadStep(n))
           \/ \E n \in plan.teardown : Beside(BodyEnds(n) \/ NextAttempt(n))
           \/ Interrupt
    PROVE  NobodyDropped'
<1>1. UNCHANGED <<plan, tracker, call, terminal, pending, live, timedOut, pc, back, agenda>>
  BY DEF Beside, Interrupt, loop, control, counts, records
<1>2. Unoffered' = Unoffered
  BY <1>1 DEF Unoffered, Starting, InitialReady, InitialCount, Tracked
<1>3. queue \in Seq(Message)
  BY RunTyped
<1>4. \/ queue' = queue
      \/ \E m \in Message : Appended(queue', queue, m)
  <2>1. CASE Interrupt
    <3>1. Wake \in Message
      BY DEF Wake, Message, TerminalState, StopLike
    <3>2. QED
      BY <2>1, <3>1 DEF Interrupt, Request, Appended
  <2>2. ASSUME NEW n \in Node, BodyEnds(n) \/ InputsPanic(n) \/ NextAttempt(n) \/ Finish(n)
        PROVE  queue' = queue
    BY <2>2, BodyEndsFacts DEF InputsPanic, NextAttempt, Finish
  <2>3. ASSUME NEW n \in Node, Report(n)
        PROVE  \E m \in Message : Appended(queue', queue, m)
    <3>1. result[n] \in Reportable /\ TRUE \in BOOLEAN
      BY <2>3 DEF Report, RunInv, Budget, Reportable
    <3>2. Done(n, result[n], TRUE) \in Message
      BY <3>1, AnswersTyped
    <3>3. QED
      BY <2>3, <3>2 DEF Report, Appended
  <2>4. ASSUME NEW n \in Node, TimerFires(n)
        PROVE  \E m \in Message : Appended(queue', queue, m)
    <3>1. Deadline(n) \in Message
      BY DEF Deadline, Message, TerminalState, FailureLike
    <3>2. QED
      BY <2>4, <3>1 DEF TimerFires, Appended
  <2>5. Tracked \subseteq Node /\ plan.teardown \subseteq Node
    BY RunTyped
  <2>6. QED
    BY <2>1, <2>2, <2>3, <2>4, <2>5 DEF Beside, ThreadStep, AfterBody
<1>5. Reported \subseteq Reported'
  <2>1. CASE queue' = queue
    BY <2>1 DEF Reported, NodesOf
  <2>2. ASSUME NEW m \in Message, Appended(queue', queue, m) PROVE Reported \subseteq Reported'
    <3>1. NodesOf(queue, "done") \subseteq NodesOf(queue', "done")
      BY <1>3, <2>2, NodesOfAppend
    <3>2. QED
      BY <3>1 DEF Reported, NodesOf
  <2>3. QED
    BY <1>4, <2>1, <2>2
<1>6. QED
  BY <1>1, <1>2, <1>5, QueueDropsNobody

\* No step of the run drops anybody.
LEMMA NobodyIsDropped ==
    ASSUME RunInv, TruthInv, NobodyDropped, [Next]_vars PROVE NobodyDropped'
<1>1. CASE Moves \/ CascadeStep
  BY <1>1, MovesDropNobody
<1>2. CASE RejectPinned \/ TakeWake \/ TakeStaleDeadline \/ TakeLateReport
  BY <1>2, MessagesDropNobody
<1>3. CASE TakeDeadline \/ TakeReport
  BY <1>3, ReportsDropNobody
<1>4. CASE SeedSatisfied \/ OfferFrontier \/ ApplyReady \/ ApplyPropagated \/ DrainAdmit
  BY <1>4, SeedingDropsNobody, FrontierDropsNobody, ReadyDropsNobody, PropagatingDropsNobody,
     AdmittingDropsNobody
<1>5. CASE Abandon \/ TeardownStarts \/ TeardownEnds \/ TeardownDeadline
  BY <1>5 DEF NobodyDropped, Over, Abandon, TeardownStarts, TeardownEnds, TeardownDeadline,
              InTeardown, CleanedUp, control, loop
<1>6. CASE \/ \E n \in Tracked : Beside(ThreadStep(n))
           \/ \E n \in plan.teardown : Beside(BodyEnds(n) \/ NextAttempt(n))
           \/ Interrupt
  BY <1>6, BesideDropsNobody
<1>7. CASE DropMessage \/ UNCHANGED vars
  <2>1. /\ UNCHANGED <<plan, tracker, call, terminal, pending, live, timedOut, pc, back, agenda, queue>>
    BY <1>7 DEF DropMessage, DropsMessage, vars, loop, control, counts, records
  <2>2. Unoffered' = Unoffered /\ Reported' = Reported
    BY <2>1 DEF Unoffered, Starting, InitialReady, InitialCount, Tracked, Reported, NodesOf
  <2>3. QED
    BY <2>1, <2>2, QueueDropsNobody
<1>8. QED
  BY <1>1, <1>2, <1>3, <1>4, <1>5, <1>6, <1>7 DEF Next, LoopStep, Moves

\* Nothing in flight is nothing live, and no report but of an overtaken closure.
LEMMA NothingInFlight ==
    ASSUME RunInv, inFlight = 0 PROVE live = {} /\ Reported \subseteq timedOut
<1>1. queue \in Seq(Message) /\ live \subseteq Node /\ IsFiniteSet(live)
  BY RunTyped
<1>2. Counted(queue, live \cup timedOut) \in Nat
  BY <1>1, CountedTyped
<1>3. Cardinality(live) = 0 /\ Counted(queue, live \cup timedOut) = 0
  BY <1>2, InFlightSum
<1>4. live = {}
  BY <1>1, <1>3, FS_EmptySet
<1>5. Places(queue, Loose(timedOut)) = {}
  BY <1>1, <1>3, <1>4, PlacesFinite, FS_EmptySet DEF Counted
<1>6. ASSUME NEW i \in DOMAIN queue, queue[i].kind = "done" PROVE queue[i].node \in timedOut
  <2>1. queue[i] \in Message
    BY <1>1, ElementOfSeq
  <2>2. queue[i] \notin Loose(timedOut)
    BY <1>5 DEF Places
  <2>3. QED
    BY <1>6, <2>1, <2>2 DEF Loose
<1>7. QED
  BY <1>4, <1>6 DEF Reported, NodesOf

\* When nothing is in flight and nobody waits, every node has a state.
LEMMA EmptyMeansDone ==
    ASSUME RunInv, TruthInv, Countable(plan), NobodyLost, NobodyDropped,
           pc = "top", inFlight = 0, pending = << >>
    PROVE  \A n \in Tracked : terminal[n] # None
<1>1. decisions = << >> /\ work = << >> /\ Idle
  BY DEF TruthInv, Calm, Idle
<1>2. Hand = {} /\ Unoffered = {}
  BY <1>1, NothingInFlight DEF Hand, ReadyNodes, Waiters, NodesOf, ToSet, Unoffered, Starting
<1>3. /\ Tracked \subseteq Node /\ plan.satisfied \subseteq Tracked /\ Offered \subseteq Tracked
      /\ terminal \in [Node -> TerminalState \cup {None}] /\ None \notin TerminalState
  BY TruthTyped
<1>4. \A n \in Offered \cup plan.satisfied : terminal[n] # None
  BY <1>2, <1>3 DEF NobodyDropped, Over, TruthInv, Carried, Seeding
<1>5. \A n \in Offered \cup plan.satisfied : decided[n] # None
  <2> SUFFICES ASSUME NEW n \in Offered \cup plan.satisfied PROVE decided[n] # None
    OBVIOUS
  <2>1. n \in Tracked /\ terminal[n] \in TerminalState /\ terminal[n] # None
    BY <1>3, <1>4
  <2>2. ~Walked(n, terminal[n])
    BY <1>1 DEF Walked
  <2>3. QED
    BY <2>1, <2>2 DEF TruthInv, Agree, Known, Over
<1>6. \A n \in Tracked : decided[n] # None
  BY <1>1, <1>5, StillMeansDone DEF RunInv
<1>7. QED
  BY <1>1, <1>3, <1>6 DEF TruthInv, Agree, Known

\* What is decided at the end stays decided.
LEMMA FinishedStays ==
    ASSUME Finished, UNCHANGED <<plan, draining>>,
           drainClock = "passed" => drainClock' = "passed",
           \/ pc' \notin Over
           \/ pc' = pc
           \/ {pc, pc'} \subseteq {"exit", "teardown", "done"},
           \A n \in Tracked : terminal[n] # None => terminal'[n] # None,
           pc \in {"exit", "teardown", "done"} =>
              \A n \in Tracked : runner[n] = "waiting" => runner'[n] = "waiting"
    PROVE  Finished'
<1>1. Tracked' = Tracked
  BY DEF Tracked
<1>2. CASE pc' \notin Over
  BY <1>2 DEF Finished, Over
<1>3. CASE pc' = pc
  BY <1>1, <1>3 DEF Finished
<1>4. CASE {pc, pc'} \subseteq {"exit", "teardown", "done"}
  BY <1>1, <1>4 DEF Finished
<1>5. QED
  BY <1>2, <1>3, <1>4

\* Leaving the loop, and the process, leaves nobody behind but what the drain
\* deadline cut off.
LEMMA LeavingFinishes ==
    ASSUME RunInv, TruthInv, Countable(plan), NobodyLost, NobodyDropped, Finished,
           TopBusy \/ TopLeaves \/ WaitExpires \/ Leave
    PROVE  Finished'
<1>1. UNCHANGED <<plan, terminal, draining, drainClock, runner>>
  BY DEF TopBusy, TopLeaves, EmptyHanded, WaitExpires, Leave, Quiet, records, modes, threads
<1>2. Tracked' = Tracked
  BY <1>1 DEF Tracked
<1>3. CASE TopBusy \/ WaitExpires
  <2>1. pc' \in {"await", "top"} \/ (pc' = "leave" /\ draining /\ drainClock = "passed")
    BY <1>3 DEF TopBusy, WaitExpires, DrainOver, WaitOver
  <2>2. QED
    BY <1>1, <2>1 DEF Finished
<1>4. CASE TopLeaves
  <2>1. pc = "top" /\ inFlight = 0 /\ pending = << >> /\ pc' = "leave"
    BY <1>4 DEF TopLeaves, EmptyHanded, RunInv, Stops
  <2>2. QED
    BY <1>1, <1>2, <2>1, EmptyMeansDone DEF Finished
<1>5. CASE Leave
  <2>1. pc = "leave" /\ pc' = "exit" /\ (draining => Leftover = {})
    BY <1>5 DEF Leave
  <2>2. CASE \A n \in Tracked : terminal[n] # None
    BY <1>1, <1>2, <2>1, <2>2 DEF Finished
  <2>3. CASE draining /\ drainClock = "passed"
    <3>1. ASSUME NEW n \in Tracked, terminal[n] = None PROVE runner[n] = "waiting"
      <4>1. n \notin live
        BY <2>1, <2>3, <3>1 DEF Leftover
      <4>2. n \notin Started /\ n \in Node
        BY <3>1, <4>1, RunTyped DEF RunInv, Closures
      <4>3. n \notin plan.satisfied
        BY <2>1, <3>1 DEF TruthInv, Carried, Seeding
      <4>4. runner[n] # "absent"
        BY <4>2, <4>3 DEF TruthInv, Carried
      <4>5. QED
        BY <4>2, <4>4, RunTyped DEF Started
    <3>2. QED
      BY <1>1, <1>2, <2>1, <2>3, <3>1 DEF Finished
  <2>4. QED
    BY <2>1, <2>2, <2>3 DEF Finished
<1>6. QED
  BY <1>3, <1>4, <1>5

\* A node that waits for ever is started by nobody.
LEMMA WaitersWait ==
    ASSUME RunInv, NEW n \in Node, ThreadStep(n), NEW m \in Node, runner[m] = "waiting"
    PROVE  runner'[m] = "waiting"
<1>1. runner \in [Node -> RunnerState]
  BY RunTyped
<1>2. CASE BodyEnds(n)
  BY <1>1, <1>2, BodyEndsFacts
<1>3. CASE InputsPanic(n) \/ NextAttempt(n) \/ Finish(n) \/ Report(n) \/ TimerFires(n)
  BY <1>1, <1>3 DEF InputsPanic, NextAttempt, Finish, Report, TimerFires
<1>4. QED
  BY <1>2, <1>3 DEF ThreadStep, AfterBody

\* No step of the run leaves a node undecided that should not be.
LEMMA FinishedKeeps ==
    ASSUME RunInv, TruthInv, Countable(plan), NobodyLost, NobodyDropped, Finished, [Next]_vars
    PROVE  Finished'
<1>1. CASE TopBusy \/ TopLeaves \/ WaitExpires \/ Leave
  BY <1>1, LeavingFinishes
<1>2. CASE \/ InstallWaker \/ SeedSatisfied \/ SeedingDone \/ OfferFrontier \/ FrontierDone
           \/ TopPinned \/ RejectPinned \/ TakeWake \/ TakeStaleDeadline \/ TakeDeadline
           \/ TakeLateReport \/ TakeReport \/ DropMessage
  <2>1. pc' \notin Over
    BY <1>2 DEF DropMessage, loop, control, InstallWaker, SeedSatisfied, SeedingDone, OfferFrontier, FrontierDone, TopPinned,
                Pinned, EmptyHanded, RejectPinned, TakeWake, TakeStaleDeadline, TakeDeadline, TakeLateReport,
                TakeReport, Conclude, Over
  <2>2. QED
    BY <2>1 DEF Finished, Over
<1>3. CASE CascadeStep \/ ApplyReady \/ ApplyPropagated \/ ApplyDone \/ DrainAdmit \/ DrainDone
  <2>1. back \in {"seed", "drain"}
    BY DEF RunInv, TypeOK, LoopTyped
  <2>2. pc' \notin Over
    BY <1>3, <2>1 DEF CascadeStep, ApplyReady, ApplyPropagated, Applied, Applying, ApplyDone,
                      DrainAdmit, DrainDone, control, Over
  <2>3. QED
    BY <2>2 DEF Finished, Over
<1>4. CASE Abandon
  <2>1. \A m \in Node : terminal[m] # None => terminal'[m] # None
    BY <1>4, TruthTyped DEF Abandon, RecordTerminal
  <2>2. /\ UNCHANGED <<plan, pc, draining, drainClock>> /\ pc = "leave"
    BY <1>4 DEF Abandon, control, modes
  <2>3. QED
    BY <2>1, <2>2, RunTyped, FinishedStays
<1>5. CASE Exit \/ TeardownDone
  <2>1. /\ UNCHANGED <<plan, draining, drainClock, terminal, runner>>
        /\ {pc, pc'} \subseteq {"exit", "teardown", "done"}
    BY <1>5 DEF Exit, TeardownDone, Quiet, modes, records, threads
  <2>2. QED
    BY <2>1, FinishedStays
<1>6. CASE TeardownStarts \/ TeardownEnds \/ TeardownDeadline
  <2>1. PICK c \in Node : c = Cleaning /\ c \notin Tracked
    BY <1>6, CleaningFacts DEF TeardownStarts, TeardownEnds, TeardownDeadline
  <2>2. UNCHANGED <<plan, pc, draining, drainClock>>
    BY <1>6 DEF TeardownStarts, TeardownEnds, TeardownDeadline, CleanedUp, loop, control, modes
  <2>3. \/ terminal' = terminal
        \/ \E s : terminal' = RecordTerminal(c, s)
    BY <1>6, <2>1 DEF TeardownStarts, TeardownEnds, TeardownDeadline, CleanedUp, loop, records
  <2>4. \E s : runner' = [runner EXCEPT ![c] = s]
    BY <1>6, <2>1 DEF TeardownStarts, TeardownEnds, TeardownDeadline, CleanedUp, Dispatch
  <2>5. \A n \in Tracked : terminal'[n] = terminal[n] /\ runner'[n] = runner[n]
    BY <2>1, <2>3, <2>4, TruthTyped, RunTyped DEF RecordTerminal
  <2>6. QED
    BY <2>2, <2>5, FinishedStays
<1>7. CASE \/ \E n \in Tracked : Beside(ThreadStep(n))
           \/ \E n \in plan.teardown : Beside(BodyEnds(n) \/ NextAttempt(n))
  <2>1. PICK n \in Node : ThreadStep(n) /\ UNCHANGED <<plan, loop>>
    BY <1>7, RunTyped DEF Beside, ThreadStep, AfterBody
  <2>2. UNCHANGED <<plan, pc, draining, drainClock, terminal>>
    BY <2>1 DEF loop, control, modes, records
  <2>3. \A m \in Tracked : runner[m] = "waiting" => runner'[m] = "waiting"
    BY <2>1, RunTyped, WaitersWait
  <2>4. QED
    BY <2>2, <2>3, FinishedStays
<1>8. CASE Interrupt \/ ClockPasses \/ UNCHANGED vars
  <2>1. UNCHANGED <<plan, pc, draining, terminal, runner>>
    BY <1>8 DEF Interrupt, ClockPasses, vars, loop, control, modes, records, threads
  <2>2. drainClock = "passed" => drainClock' = "passed"
    BY <1>8 DEF Interrupt, ClockPasses, vars, loop, modes
  <2>3. QED
    BY <2>1, <2>2, FinishedStays
<1>9. QED
  BY <1>1, <1>2, <1>3, <1>4, <1>5, <1>6, <1>7, <1>8 DEF Next, LoopStep

\* The inductive invariant of a pipeline whose countdowns come out even.
EveryNode == Truth /\ Countable(plan) /\ NobodyLost /\ NobodyDropped /\ Finished

\* Nobody is lost, dropped or left from the first step to the last.
LEMMA EveryNodeCounts ==
    ASSUME \A p \in Plans : SoundResume(p) /\ Countable(p)
    PROVE  Spec => []EveryNode
<1>1. Init => EveryNode
  <2> SUFFICES ASSUME Init PROVE EveryNode
    OBVIOUS
  <2>1. plan \in Plans /\ InitTracker /\ pc = "boot"
    BY DEF Init, InitTracker
  <2>2. Truth /\ NobodyLost /\ Countable(plan)
    BY <2>1, TruthKeeps, InitLosesNobody
  <2>3. Offered = InitialReady
    BY <2>1, InitTracks
  <2>4. NobodyDropped /\ Finished
    BY <2>1, <2>3 DEF NobodyDropped, Finished, Unoffered, Starting
  <2>5. QED
    BY <2>2, <2>4 DEF EveryNode
<1>2. EveryNode /\ [Next]_vars => EveryNode'
  <2> SUFFICES ASSUME EveryNode, [Next]_vars PROVE EveryNode'
    OBVIOUS
  <2>1. Truth'
    BY TruthKeeps DEF EveryNode
  <2>2. Countable(plan)'
    BY <2>1 DEF Truth, RunInv, TrackerInv, TrackerTypeOK
  <2>3. NobodyLost' /\ NobodyDropped' /\ Finished'
    BY RunLosesNobody, NobodyIsDropped, FinishedKeeps DEF EveryNode, Truth
  <2>4. QED
    BY <2>1, <2>2, <2>3 DEF EveryNode
<1>3. QED
  BY <1>1, <1>2, PTL DEF Spec

\* When the loop is left every node of the main graph has a state, but for the ones
\* the drain deadline cut off, and at the end every teardown node has one.
THEOREM EveryoneIsDecided ==
    ASSUME \A p \in Plans : SoundResume(p) /\ Countable(p)
    PROVE  Spec => []AllDecided
<1>1. EveryNode => AllDecided
  BY DEF EveryNode, Finished, AllDecided, Truth, TruthInv, CleanUpLast
<1>2. QED
  BY <1>1, EveryNodeCounts, PTL

\* A run that exits as a success has decided every node, and none of them failed.
THEOREM SuccessHidesNothing ==
    ASSUME \A p \in Plans : SoundResume(p) /\ Countable(p)
    PROVE  Spec => []SuccessIsHonest
<1>1. EveryNode => SuccessIsHonest
  <2> SUFFICES ASSUME EveryNode, pc = "done", ExitCode = "success", NEW n \in Tracked
               PROVE  terminal[n] \in SuccessLike \cup SkipLike
    BY DEF SuccessIsHonest
  <2>1. PICK states : states = {terminal[m] : m \in Tracked} \ {None}
    OBVIOUS
  <2>2. cancelOrigin \in Origin \cup {None}
    BY DEF EveryNode, Truth, RunInv, TypeOK, LoopTyped
  <2>3. cancelOrigin = None
    BY <2>2 DEF ExitCode, SelectShutdownExit, Origin
  <2>4. states \cap FailureLike = {} /\ states \cap StopLike = {}
    <3>1. SelectShutdownExit(OverallOutcome(states), cancelOrigin, TRUE) = "success"
      BY <2>1 DEF ExitCode
    <3>2. OverallOutcome(states) # "failed" /\ OverallOutcome(states) # "cancelled"
      BY <3>1 DEF SelectShutdownExit
    <3>3. QED
      BY <3>2 DEF OverallOutcome
  <2>5. terminal[n] \in states /\ terminal[n] \in TerminalState
    <3>1. ~draining
      BY <2>3 DEF EveryNode, Truth, TruthInv, Reasons
    <3>2. terminal[n] # None
      BY <3>1 DEF EveryNode, Finished
    <3>3. QED
      BY <2>1, <3>2, TruthTyped DEF EveryNode, Truth
  <2>6. QED
    BY <2>4, <2>5 DEF TerminalState
<1>2. QED
  BY <1>1, EveryNodeCounts, PTL
=============================================================================
