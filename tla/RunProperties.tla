---------------------------- MODULE RunProperties ----------------------------
(***************************************************************************)
(* What a run guarantees: properties that relate the loop's books to the   *)
(* threads beside it, the event stream and the tracker.                    *)
(***************************************************************************)
EXTENDS RunLoop

ClockState == {"unset", "armed", "passed"}
Origin == {"failure-under-stop", "external-interrupt"}
Message == [kind : {"done", "deadline", "wake"}, node : Node \cup {0},
            state : TerminalState, closing : BOOLEAN]
Point == {"boot", "seed", "frontier", "top", "await", "cascade", "apply",
          "drain", "leave", "exit", "teardown", "done"}

OutcomeRecord == [attempt : Nat \ {0},
                  status : {"succeeded", "failed", "timed-out", "cancelled", "abandoned",
                             "satisfied-from-prior"}]

LoopTyped ==
    /\ pc \in Point /\ back \in {"seed", "drain"} /\ agenda \subseteq Node
    /\ terminal \in [Node -> TerminalState \cup {None}]
    /\ written \in [Node -> Seq(TerminalState)]
    /\ outcomes \in [Node -> Seq(OutcomeRecord)]
    /\ inFlight \in Nat /\ live \subseteq Node /\ pending \in Seq(Node)
    /\ stopping \in BOOLEAN /\ draining \in BOOLEAN
    /\ drainClock \in ClockState /\ zombieClock \in ClockState
    /\ timedOut \subseteq Node /\ candidates \subseteq Node /\ atExit \subseteq Node
    /\ cancelOrigin \in Origin \cup {None} /\ trigger \in Origin \cup {None}
    /\ requests \in 0..MaxRequests

ThreadsTyped ==
    /\ runner \in [Node -> RunnerState]
    /\ attempt \in [Node -> Nat] /\ \A n \in Node : attempt[n] <= MaxAttempts[n]
    /\ result \in [Node -> ExecutedState \cup {None}]
    /\ fate \in [Node -> {"running", "completed", "timed-out"}]
    /\ timer \in [Node -> TimerState]
    /\ filled \subseteq Node /\ buffer \in [Node -> Seq(OutcomeRecord)]
    /\ queue \in Seq(Message)

\* Every variable of the run stays in its set: retries stay in their budget
\* and every message is one the loop knows.
TypeOK == LoopTyped /\ ThreadsTyped

-----------------------------------------------------------------------------
(* The books of the loop.                                                   *)

Charged == {n \in Tracked : runner[n] \in {"body", "backoff", "finishing", "unwound"}}
InQueue(kind, S) == {i \in DOMAIN queue : queue[i].kind = kind /\ queue[i].node \in S}

\* The in-flight count pairs every increment (admit, reject, cancel) with one
\* report: it is the number of live nodes and of queued reports that belong to
\* no live closure and no timed-out one.  If it ran high the run would wait
\* for ever; if it ran low the run would leave with work outstanding.
InFlightPaired ==
    pc # "boot" => inFlight = Cardinality(live)
                              + Cardinality(InQueue("done", Node \ (live \cup timedOut)))

\* Capacity is charged for exactly the attempts that occupy a thread, a
\* backoff or a zombie, or whose panic left the permit to a deadline that is
\* not over, whichever thread gives it back and whoever decided the node
\* meanwhile.
CapacityFollowsThreads ==
    \A p \in Pool : free[p] + Cardinality(Tokens(Charged, [n \in Node |-> Cost[n][p]]))
                     = Capacity[p]

\* The loop's two books agree with the threads beside it at every moment: what is
\* in flight, and what is charged.
LoopBooks == InFlightPaired /\ CapacityFollowsThreads

\* A closure its deadline overtook keeps its permit and its zombie record
\* until it really returns, and no other attempt is ever counted a zombie.
ZombieUntilReturn == ToSet(zombies) = timedOut \cap permits

-----------------------------------------------------------------------------
(* Terminal states.                                                         *)

\* The event stream has at most one node-terminal record per node, and it says
\* what the run's own table says: reclassified, propagated, rejected, late and
\* duplicate reports included.
OneRecord ==
    \A n \in Node : /\ Len(written[n]) <= 1
                    /\ Len(written[n]) = 1 <=> terminal[n] # None
                    /\ Len(written[n]) = 1 => written[n][1] = terminal[n]

\* When the teardown phase begins every node has its state, so a teardown node
\* is told of every node it covers; one that the drain deadline left without a
\* state never ran.  When the run ends every teardown node has a state as well.
AllDecided ==
    /\ pc \in {"teardown", "done"} =>
         \A n \in Tracked :
            \/ terminal[n] # None
            \/ drainClock = "passed" /\ runner[n] = "waiting"
    /\ pc = "done" => \A n \in plan.teardown : terminal[n] # None

\* A run has decided every node when it ends, however it ends.
AllDecidedAlways == pc = "done" => \A n \in Tracked : terminal[n] # None

\* The states the loop records follow the run contract: gate, verdict, once,
\* and teardown last.
Contract == INSTANCE RunContract WITH outcome <- terminal
RefinesContract == Contract!CSpec

\* An output slot never contradicts the record: a node recorded as failed,
\* timed out or skipped has no value in its slot, however late its closure.
SlotMatchesRecord ==
    \A n \in filled : terminal[n] \in {None, "succeeded", "cancelled", "abandoned"}

\* When the body of a default-rule node runs, the value of every data upstream
\* is there: in its slot, or rehydrated from the prior run.
ConsumersFindInputs ==
    \A n \in Tracked : runner[n] = "body" /\ DefaultRule(n)
                    => plan.data[n] \subseteq filled \cup plan.satisfied

\* What a dependent was told is what was recorded: the tracker and the table
\* of terminal states agree on every node the tracker has decided, except
\* while the loop is still working through the tracker's decisions.
TrackerAgrees ==
    pc \in {"top", "await", "drain", "leave"} =>
        \A n \in Tracked : decided[n] # None => decided[n] = terminal[n]

\* The attempt-outcome records of a node are of different attempts, in their
\* order, and the last of them ends the way the node does: a late result, a
\* deadline, a reclassification or a cut teardown never closes an attempt that
\* is closed, and never says something else of the node.
OutcomesAgree ==
    \A n \in Node :
      LET closed == outcomes[n] IN
        /\ \A i, j \in DOMAIN closed : i < j => closed[i].attempt < closed[j].attempt
        /\ closed # << >> => Closing(n, terminal[n]).status = closed[Len(closed)].status

\* A node has one truth: its record in the stream, its entry in the run's table,
\* what its dependents were told, and its attempts' records agree.
OneTruth == OneRecord /\ TrackerAgrees /\ OutcomesAgree

\* When the run ends, every attempt that began has its outcome record.
EveryAttemptRecorded ==
    pc = "done" => \A n \in Node : \A k \in 1..attempt[n] :
        \E i \in DOMAIN outcomes[n] : outcomes[n][i].attempt = k

-----------------------------------------------------------------------------
(* Stop, cancellation, deadlines.                                           *)

Starts(n) == runner[n] = "waiting" /\ runner'[n] = "body"

\* No default-rule node starts once the run is stopping, and none at all once
\* it is draining, wherever it was waiting when the run stopped.
NoStartAfterStop ==
    [][\A n \in Tracked : Starts(n) => ~draining /\ ~(stopping /\ DefaultRule(n))]_vars

\* The run fails under stop-on-first-failure only if some node failed.
StopNeedsFailure ==
    cancelOrigin = "failure-under-stop" =>
        \E n \in Tracked : terminal[n] \in FailureLike

\* When the loop waits with nothing to receive, it has acted on every interrupt.
CancelHeard == pc = "await" /\ queue = << >> /\ trigger # None => draining

ExitCode == SelectShutdownExit(OverallOutcome({terminal[n] : n \in Tracked} \ {None}),
                               cancelOrigin, TRUE)

\* A run that exits as a success has decided every node, and each of them
\* succeeded or was skipped: no failure, timeout, cancellation or forgotten
\* node hides behind it.
SuccessIsHonest ==
    pc = "done" /\ ExitCode = "success" =>
        \A n \in Tracked : terminal[n] \in SuccessLike \cup SkipLike

\* An interrupted run is a run failure only if some node failed or timed out.
FailureByCause ==
    pc = "done" /\ cancelOrigin = "external-interrupt" /\ ExitCode = "run-failure" =>
        \E n \in Node : terminal[n] \in {"failed", "timed-out"}

\* A drain ends, whether or not any body ever returns.
DrainEnds == draining ~> pc = "done"

\* A run ends although closures past their deadline never return.
RunEnds == <>(pc = "done")
=============================================================================
