------------------------------- MODULE RunLoop -------------------------------
(***************************************************************************)
(* The run loop (run_loop in crates/cli/src/driver.rs): it owns the        *)
(* readiness tracker, offers ready nodes to admission, receives what the   *)
(* attempts report, records terminal states and handles stop, cancellation *)
(* and the end of the run.  It is one task of the framework runtime; the   *)
(* threads of Attempts and the signal handler run beside it.               *)
(*                                                                         *)
(* pc is the point of the loop.  A step is one pass of one of its inner    *)
(* loops, so another thread may run between two of them.  The tracker is   *)
(* private to the loop, so its cascade is not interleaved with anything.   *)
(***************************************************************************)
EXTENDS Readiness, Attempts

CONSTANTS FailureMode,   \* "stop" on the first failure, or "continue"
          Blocking,      \* nodes whose body never yields to its runtime
          MaxRequests    \* bound: external interrupts explored

ASSUME RunLoopAssumption ==
    FailureMode \in {"stop", "continue"} /\ MaxRequests \in Nat /\ Blocking \subseteq Node

VARIABLES
    pc,            \* the point of the loop
    back,          \* where the loop goes on after it applied the decisions
    agenda,        \* nodes the start-up or teardown phase has still to treat
    terminal,      \* terminal_states
    written,       \* the node-terminal records of the event stream, per node
    outcomes,      \* its attempt-outcome records, per node
    inFlight,      \* in_flight
    live,          \* nodes with a dispatched closure that has not reported
    pending,       \* ready nodes that wait for capacity
    stopping, draining,
    drainClock,    \* drain_deadline: unset, armed or passed
    zombieClock,   \* zombie_capacity_deadline, likewise
    timedOut,      \* timed_out_zombies
    candidates,    \* zombie_candidates
    cancelOrigin,  \* the origin the loop recorded, or None
    trigger,       \* the origin CancelTrigger recorded, or None
    requests,      \* interrupts so far
    atExit         \* nodes a zombie-at-exit event was written for

control == <<pc, back, agenda>>
records == <<terminal, written, outcomes, candidates>>
counts  == <<inFlight, live, pending, timedOut>>
modes   == <<stopping, draining, drainClock, zombieClock, cancelOrigin>>
outside == <<trigger, requests>>
loop    == <<control, records, counts, modes, outside, atExit>>
vars    == <<plan, tracker, call, ledger, threads, queue, loop>>

DefaultRule(n) == plan.rule[n] = "all-succeeded"
Default == {n \in Node : DefaultRule(n)}
\* Mutant: a skip or a cancellation stops the run as well.
AnythingStops(s) == s \notin SuccessLike
IsFailureLike(s) == s \in FailureLike
IsZombieCandidate(s) == s \in {"timed-out", "abandoned"}

\* record_terminal keeps the first state.
RecordTerminal(n, s) == [terminal EXCEPT ![n] = IF @ = None THEN s ELSE @]
Write(n, s) == [written EXCEPT ![n] = Append(@, s)]
\* The attempt-outcome record of attempt k.
Cut(k, s) == <<[attempt |-> k, status |-> s]>>

\* The messages by which the loop reports a node it will not run to itself.
Rejected(n) == Done(n, "failed", TRUE)
Cancelled(n) == Done(n, "cancelled", TRUE)
CancelAll(ns) == [i \in DOMAIN ns |-> Cancelled(ns[i])]

Lowest(S) == CHOOSE n \in S : \A m \in S : n <= m
-----------------------------------------------------------------------------
Init ==
    /\ InitTracker /\ InitLedger /\ InitAttempts(plan.satisfied)
    /\ pc = "boot" /\ back = "seed" /\ agenda = {}
    /\ terminal = [n \in Node |-> None]
    /\ written = [n \in Node |-> << >>]
    /\ outcomes = [n \in Node |-> << >>]
    /\ inFlight = 0 /\ live = {} /\ pending = << >> /\ timedOut = {}
    /\ candidates = {} /\ atExit = {}
    /\ stopping = FALSE /\ draining = FALSE
    /\ drainClock = "unset" /\ zombieClock = "unset"
    /\ cancelOrigin = None /\ trigger = None /\ requests = 0

-----------------------------------------------------------------------------
(* Offering a ready node.                                                   *)

\* admit: a node without a runner, which it takes out of the map to run it,
\* gives its permit straight back and fails with no events at all.
Admit(n) ==
    /\ inFlight' = inFlight + 1
    /\ \/ /\ runner[n] # "waiting"
          /\ queue' = Append(queue, Done(n, "failed", FALSE))
          /\ UNCHANGED <<ledger, threads, live>>
       \/ /\ runner[n] = "waiting"
          /\ TryAdmit(n)
          /\ Dispatch(n)
          /\ live' = live \cup {n}
          /\ UNCHANGED queue

OfferOrPend(n) ==
    \/ /\ Fits(n)
       /\ Admit(n)
       /\ UNCHANGED pending
    \/ /\ ~CanEverFit(n)
       /\ queue' = Append(queue, Rejected(n))
       /\ inFlight' = inFlight + 1
       /\ UNCHANGED <<ledger, threads, live, pending>>
    \/ /\ ~Fits(n) /\ CanEverFit(n)
       /\ pending' = Append(pending, n)
       /\ UNCHANGED <<ledger, threads, live, inFlight, queue>>

-----------------------------------------------------------------------------
(* Start-up: the waker, the satisfied nodes, then the initial frontier.     *)

InstallWaker ==
    /\ pc = "boot"
    /\ pc' = "seed"
    /\ agenda' = plan.satisfied
    /\ UNCHANGED <<plan, tracker, call, ledger, threads, queue, back, records,
                   counts, modes, outside, atExit>>

SeedSatisfied ==
    /\ pc = "seed" /\ agenda # {}
    /\ LET n == Lowest(agenda)
       IN  /\ agenda' = agenda \ {n}
           /\ terminal' = RecordTerminal(n, "satisfied-from-prior")
           /\ written' = Write(n, "satisfied-from-prior")
           /\ outcomes' = [outcomes EXCEPT ![n] = @ \o Cut(1, "satisfied-from-prior")]
           /\ NotifyTerminal(n, "satisfied-from-prior")
    /\ pc' = "cascade"
    /\ UNCHANGED <<ledger, threads, queue, back, counts, candidates, modes, outside, atExit>>

SeedingDone ==
    /\ pc = "seed" /\ agenda = {}
    /\ pc' = "frontier"
    /\ agenda' = InitialReady
    /\ back' = "drain"
    /\ UNCHANGED <<plan, tracker, call, ledger, threads, queue, records,
                   counts, modes, outside, atExit>>

OfferFrontier ==
    /\ pc = "frontier" /\ agenda # {}
    /\ LET n == Lowest(agenda)
       IN  /\ agenda' = agenda \ {n}
           /\ IF terminal[n] # None
              THEN UNCHANGED <<ledger, threads, queue, inFlight, live, pending>>
              ELSE OfferOrPend(n)
    /\ UNCHANGED <<plan, tracker, call, pc, back, records, timedOut, modes,
                   outside, atExit>>

FrontierDone ==
    /\ pc = "frontier" /\ agenda = {}
    /\ pc' = "top"
    /\ UNCHANGED <<plan, tracker, call, ledger, threads, queue, back, agenda,
                   records, counts, modes, outside, atExit>>
-----------------------------------------------------------------------------
(* The head of the loop and its wait.                                       *)

Quiet == UNCHANGED <<plan, tracker, call, ledger, threads, back, agenda,
                     records, outside, atExit>>

\* The loop is at its head when the message it had in hand is dropped.
EmptyHanded == pc = "top" /\ \A n \in Tracked : timer[n] # "in-hand"
DropMessage ==
    /\ pc = "top"
    /\ \E n \in Tracked : DropsMessage(n)
    /\ UNCHANGED <<plan, tracker, call, loop>>

DrainOver == draining /\ drainClock = "passed"

\* Something is in flight: wait for it, unless the drain deadline has passed.
TopBusy ==
    /\ EmptyHanded /\ inFlight > 0
    /\ pc' = IF DrainOver THEN "leave" ELSE "await"
    /\ zombieClock' = "unset"
    /\ Quiet
    /\ UNCHANGED <<queue, counts, stopping, draining, drainClock, cancelOrigin>>

TopLeaves ==
    /\ EmptyHanded /\ inFlight = 0 /\ (pending = << >> \/ draining)
    /\ pc' = "leave"
    /\ Quiet
    /\ UNCHANGED <<queue, counts, modes>>

\* Waiters and nothing in flight: a timed-out closure holds the capacity they
\* need.  Wait for it, but at most the grace period; then fail every waiter.
Pinned == EmptyHanded /\ inFlight = 0 /\ pending # << >> /\ ~draining

TopPinned ==
    /\ Pinned /\ zombieClock # "passed"
    /\ pc' = "await"
    /\ zombieClock' = "armed"
    /\ Quiet
    /\ UNCHANGED <<queue, counts, stopping, draining, drainClock, cancelOrigin>>

RejectPinned ==
    /\ Pinned /\ zombieClock = "passed"
    /\ pc' = "await"
    /\ zombieClock' = "unset"
    /\ queue' = queue \o [i \in DOMAIN pending |-> Rejected(pending[i])]
    /\ inFlight' = Len(pending)
    /\ pending' = << >>
    /\ Quiet
    /\ UNCHANGED <<live, timedOut, stopping, draining, drainClock, cancelOrigin>>

\* Mutants: each of the two deadlines is left out of the bounded wait.
NoDrainDeadline == ~draining /\ zombieClock = "passed"
NoZombieDeadline == draining /\ drainClock = "passed"
WaitOver == IF draining THEN drainClock = "passed" ELSE zombieClock = "passed"

\* recv_next times out: a drain ends, a wait for a zombie is looked at again.
WaitExpires ==
    /\ pc = "await" /\ queue = << >>
    /\ WaitOver
    /\ pc' = IF draining THEN "leave" ELSE "top"
    /\ Quiet
    /\ UNCHANGED <<queue, counts, modes>>
-----------------------------------------------------------------------------
(* Receiving a message.                                                     *)

Receives(kind) == pc = "await" /\ queue # << >> /\ Head(queue).kind = kind

\* The cancellation sentinel: enter_cancellation with a full drain.  A run
\* that was stopping already has cancelled its default-rule waiters.
TakeWake ==
    /\ Receives("wake")
    /\ pc' = "top"
    /\ LET order == IF stopping THEN pending
                    ELSE Among(pending, Default) \o Among(pending, Node \ Default)
       IN  IF draining
           THEN /\ queue' = Tail(queue)
                /\ UNCHANGED <<inFlight, pending, modes>>
           ELSE /\ queue' = Tail(queue) \o CancelAll(order)
                /\ inFlight' = inFlight + Len(order)
                /\ pending' = << >>
                /\ cancelOrigin' = IF cancelOrigin = None THEN trigger ELSE cancelOrigin
                /\ draining' = TRUE /\ drainClock' = "armed"
                /\ stopping' = TRUE
                /\ UNCHANGED zombieClock
    /\ Quiet
    /\ UNCHANGED <<live, timedOut>>

\* attempt_number_of the events of a report: the last attempt they name, or 1.
LastAttempt(closings) == IF closings = << >> THEN 1 ELSE closings[Len(closings)].attempt

\* record_attempt_outcome, the entry into stop-on-first-failure, and the call
\* of the tracker.  closings are the closing events of the report, in their
\* order; marked adds the node to timed_out_zombies.
Conclude(n, s, closing, closings, marked) ==
    LET reclassified == draining /\ terminal[n] = None
        state   == IF reclassified THEN "cancelled" ELSE s
        stops   == FailureMode = "stop" /\ ~stopping /\ IsFailureLike(state)
        cancels == IF stops THEN Among(pending, Default) ELSE << >>
    IN  /\ terminal' = RecordTerminal(n, state)
        /\ written' = IF reclassified \/ closing THEN Write(n, state) ELSE written
        /\ outcomes' = [outcomes EXCEPT ![n] = @ \o
               IF reclassified THEN Cut(LastAttempt(closings), "cancelled") ELSE closings]
        /\ candidates' = candidates \cup (IF IsZombieCandidate(state) THEN {n} ELSE {})
        /\ timedOut' = timedOut \cup marked
        /\ live' = live \ {n}
        /\ stopping' = (stopping \/ stops)
        /\ cancelOrigin' = IF stops /\ cancelOrigin = None
                           THEN "failure-under-stop" ELSE cancelOrigin
        /\ pending' = IF stops THEN Among(pending, Node \ Default)
                      ELSE pending
        /\ queue' = Tail(queue) \o CancelAll(cancels)
        /\ inFlight' = CountDown(inFlight) + Len(cancels)
        /\ NotifyTerminal(n, state)
        /\ pc' = "cascade"
        /\ UNCHANGED <<back, agenda, draining, drainClock, zombieClock, outside, atExit>>

\* Mutant: only the fate cell is asked, which a panic leaves running.
StaleByFate(n) == fate[n] # "running"
Stale(n) == terminal[n] # None \/ fate[n] # "running"

\* A deadline whose node is decided, or whose closure claimed its completion
\* first, is dropped.
TakeStaleDeadline ==
    /\ Receives("deadline")
    /\ Stale(Head(queue).node) /\ TakesInHand(Head(queue).node)
    /\ pc' = "top"
    /\ queue' = Tail(queue)
    /\ UNCHANGED <<plan, tracker, call, ledger, back, agenda, records, outside, atExit,
                   counts, modes, runner, attempt, result, fate, filled, buffer>>

\* mark_unkillable_timeout: the deadline claims the node; a permit the closure
\* still holds becomes a zombie's.  Whichever attempt it was, it is recorded as
\* the first.
TakeDeadline ==
    /\ Receives("deadline")
    /\ LET n == Head(queue).node
       IN  /\ ~Stale(n) /\ TakesInHand(n)
           /\ fate' = [fate EXCEPT ![n] = "timed-out"]
           /\ IF n \in permits THEN MarkZombie(n) ELSE UNCHANGED ledger
           /\ Conclude(n, "timed-out", TRUE, Cut(1, "timed-out"), {n})
    /\ UNCHANGED <<runner, attempt, result, filled, buffer>>

\* Mutant: a late report is taken for an ordinary one.
NeverOvertaken(n) == FALSE
Overtaken(n) == n \in timedOut

\* The late report of a closure its deadline already decided.
TakeLateReport ==
    /\ Receives("done")
    /\ LET n == Head(queue).node
       IN  Overtaken(n) /\ timedOut' = timedOut \ {n}
    /\ queue' = Tail(queue)
    /\ pc' = IF draining THEN "top" ELSE "drain"
    /\ Quiet
    /\ UNCHANGED <<inFlight, live, pending, modes>>

TakeReport ==
    /\ Receives("done")
    /\ LET m == Head(queue)
       IN  /\ ~Overtaken(m.node)
           /\ Conclude(m.node, m.state, m.closing, buffer[m.node], {})
    /\ UNCHANGED <<ledger, threads>>
-----------------------------------------------------------------------------
(* The tracker's decisions, one at a time, then the waiters.                *)

CascadeStep ==
    /\ pc = "cascade"
    /\ \/ Cascade /\ UNCHANGED pc
       \/ Idle /\ pc' = "apply" /\ UNCHANGED <<plan, tracker, call>>
    /\ UNCHANGED <<ledger, threads, queue, back, agenda, records, counts, modes,
                   outside, atExit>>

Applying(kind) == pc = "apply" /\ decisions # << >> /\ Head(decisions).kind = kind
Applied == decisions' = Tail(decisions)
           /\ UNCHANGED <<plan, tracker, work, visiting, telling, control, modes,
                          outside, atExit, timedOut>>

\* Mutant: a stop bars only the nodes that were waiting when it came.
BarredByDrain(n) == draining
Barred(n) == draining \/ (stopping /\ DefaultRule(n))

ApplyReady ==
    /\ Applying("ready")
    /\ LET n == Head(decisions).node
       IN  \/ /\ terminal[n] # None
              /\ UNCHANGED <<ledger, threads, queue, inFlight, live, pending>>
           \/ /\ terminal[n] = None
              /\ Barred(n)
              /\ queue' = Append(queue, Cancelled(n))
              /\ inFlight' = inFlight + 1
              /\ UNCHANGED <<ledger, threads, live, pending>>
           \/ /\ terminal[n] = None
              /\ ~Barred(n)
              /\ OfferOrPend(n)
    /\ Applied
    /\ UNCHANGED records

ApplyPropagated ==
    /\ Applying("propagated")
    /\ LET d == Head(decisions)
       IN  /\ written' = Write(d.node, d.state)
           /\ terminal' = RecordTerminal(d.node, d.state)
           /\ candidates' = candidates \cup
                  (IF IsZombieCandidate(d.state) THEN {d.node} ELSE {})
    /\ Applied /\ UNCHANGED outcomes
    /\ UNCHANGED <<ledger, threads, queue, inFlight, live, pending>>

ApplyDone ==
    /\ pc = "apply" /\ decisions = << >>
    /\ pc' = IF back = "drain" /\ draining THEN "top" ELSE back
    /\ Quiet
    /\ UNCHANGED <<queue, counts, modes>>

\* drain_pending: strictly first in, first out.  The first waiter that does
\* not fit ends it.
DrainAdmit ==
    /\ pc = "drain" /\ pending # << >> /\ Fits(Head(pending))
    /\ pending' = Tail(pending)
    /\ Admit(Head(pending))
    /\ UNCHANGED <<plan, tracker, call, control, records, timedOut, modes,
                   outside, atExit>>

DrainDone ==
    /\ pc = "drain"
    /\ pending # << >> => ~Fits(Head(pending))
    /\ pc' = "top"
    /\ Quiet
    /\ UNCHANGED <<queue, counts, modes>>

-----------------------------------------------------------------------------
(* The end of the run.                                                      *)

Leftover == {n \in live : terminal[n] = None}

Abandon ==
    /\ pc = "leave" /\ draining /\ Leftover # {}
    /\ LET n == Lowest(Leftover)
       IN  /\ terminal' = RecordTerminal(n, "abandoned")
           /\ written' = Write(n, "abandoned")
           /\ candidates' = candidates \cup {n}
    /\ UNCHANGED <<plan, tracker, call, ledger, threads, queue, control, counts, outcomes,
                   modes, outside, atExit>>

\* Not a drain: sleep for the grace period first if there is any candidate.
\* The candidate list is written as it is.
Leave ==
    /\ pc = "leave" /\ ~(draining /\ Leftover # {})
    /\ pc' = "exit"
    /\ Quiet
    /\ UNCHANGED <<queue, counts, modes>>

Exit ==
    /\ pc = "exit"
    /\ pc' = "teardown"
    /\ agenda' = plan.teardown
    /\ atExit' = candidates
    /\ UNCHANGED <<plan, tracker, call, ledger, threads, queue, back,
                   records, counts, modes, outside>>

-----------------------------------------------------------------------------
(* The teardown phase: however the main graph ended, every teardown node    *)
(* runs, one after the other, on the thread that drives the phase.          *)

Cleaning == Lowest(agenda)
InTeardown == pc = "teardown" /\ agenda # {}

TeardownStarts ==
    /\ InTeardown /\ runner[Cleaning] = "waiting"
    /\ Dispatch(Cleaning)
    /\ UNCHANGED <<plan, tracker, call, ledger, queue, loop>>

\* record_teardown_outcome, with the closing records it writes; the runner is
\* dropped.
CleanedUp(s, closings) ==
    /\ terminal' = RecordTerminal(Cleaning, s)
    /\ written' = Write(Cleaning, s)
    /\ outcomes' = [outcomes EXCEPT ![Cleaning] = @ \o closings]
    /\ runner' = [runner EXCEPT ![Cleaning] = "gone"]
    /\ agenda' = agenda \ {Cleaning}
    /\ UNCHANGED <<plan, tracker, call, ledger, attempt, result, fate, timer, filled,
                   buffer, queue, pc, back, candidates, counts, modes, outside, atExit>>

TeardownEnds ==
    /\ InTeardown /\ runner[Cleaning] = "finishing"
    /\ CleanedUp(result[Cleaning], buffer[Cleaning])

\* The deadline is a timer of the runtime that polls the body: it is looked at
\* only when the body, or its backoff, yields.  The records of attempts that
\* were closed before it are not written.
TeardownDeadline ==
    /\ InTeardown
    /\ \/ runner[Cleaning] = "backoff"
       \/ runner[Cleaning] = "body" /\ Cleaning \notin Blocking
    /\ CleanedUp("abandoned", Cut(attempt[Cleaning], "abandoned"))

TeardownDone ==
    /\ pc = "teardown" /\ agenda = {}
    /\ pc' = "done"
    /\ Quiet
    /\ UNCHANGED <<queue, counts, modes>>
-----------------------------------------------------------------------------
(* Beside the loop.                                                         *)

\* CancelTrigger.request: the first origin is kept, and the loop is woken if its
\* waker is installed.
Request(origin) ==
    /\ trigger' = IF trigger = None THEN origin ELSE trigger
    /\ queue' = IF pc = "boot" THEN queue ELSE Append(queue, Wake)

\* on_signal: only the first of the process's signals fires the handle.
Interrupt ==
    /\ pc \notin {"cascade", "done"} /\ requests < MaxRequests
    /\ requests' = requests + 1
    /\ IF requests = 0 THEN Request("external-interrupt") ELSE UNCHANGED <<trigger, queue>>
    /\ UNCHANGED <<plan, tracker, call, ledger, threads, control, records,
                   counts, modes, atExit>>

ClockPasses ==
    /\ pc \notin {"cascade", "done"}
    /\ \/ drainClock = "armed" /\ drainClock' = "passed" /\ UNCHANGED zombieClock
       \/ zombieClock = "armed" /\ zombieClock' = "passed" /\ UNCHANGED drainClock
    /\ UNCHANGED <<plan, tracker, call, ledger, threads, queue, control, records,
                   counts, stopping, draining, cancelOrigin, outside, atExit>>

\* The threads run until the process ends with the run.
Beside(step) ==
    /\ pc \notin {"cascade", "done"}
    /\ step
    /\ UNCHANGED <<plan, tracker, call, loop>>

LoopStep ==
    \/ InstallWaker \/ SeedSatisfied \/ SeedingDone \/ OfferFrontier \/ FrontierDone
    \/ DropMessage \/ TopBusy \/ TopLeaves \/ TopPinned \/ RejectPinned \/ WaitExpires
    \/ TakeWake \/ TakeStaleDeadline \/ TakeDeadline \/ TakeLateReport \/ TakeReport
    \/ CascadeStep \/ ApplyReady \/ ApplyPropagated \/ ApplyDone
    \/ DrainAdmit \/ DrainDone \/ Abandon \/ Leave \/ Exit
    \/ TeardownStarts \/ TeardownEnds \/ TeardownDeadline \/ TeardownDone

Next ==
    \/ LoopStep
    \/ \E n \in Tracked : Beside(ThreadStep(n))
    \/ \E n \in plan.teardown : Beside(BodyEnds(n) \/ NextAttempt(n))
    \/ Interrupt
    \/ ClockPasses

Spec == Init /\ [][Next]_vars

\* The framework runtime has a worker of its own, so the loop and the clocks
\* always go on; no task, blocking or compute thread can hold them up.  The
\* teardown deadline is one of those clocks.
LoopFair == WF_vars(LoopStep) /\ WF_vars(ClockPasses)

\* A runner that is past its body, and a deadline, go on as well.
RunnersFair == \A n \in Node : /\ WF_vars(Beside(n \in Tracked /\ AfterBody(n)))
                               /\ WF_vars(Beside(TimerFires(n)))

\* Bodies without a deadline return in the end; guarded ones need not.
UnguardedReturn ==
    \A n \in Node \ Guarded : WF_vars(Beside(n \in Tracked /\ BodyEnds(n)))

DrainSpec == Spec /\ LoopFair
FairSpec  == Spec /\ LoopFair /\ RunnersFair /\ UnguardedReturn
=============================================================================
