------------------------------- MODULE Attempts ------------------------------
(***************************************************************************)
(* The threads beside the run loop: one runner per admitted node (the      *)
(* closure that admit dispatches, with GenericNodeRunner's retry loop      *)
(* inside) and one deadline timer per guarded node, a blocking or compute  *)
(* node that declares a timeout.  They share the admission ledger, the     *)
(* node's AttemptFate and the loop's unbounded channel                     *)
(* (crates/cli/src/driver.rs, crates/cli/src/run_flow.rs and the retry     *)
(* loops of crates/core/src/execution.rs).                                 *)
(***************************************************************************)
EXTENDS Admission, TriggerRules

CONSTANTS Guarded,       \* nodes with an unkillable deadline
          Timed,         \* await-bound nodes with a timeout
          Fragile,       \* nodes whose input can panic while it is cloned
          MaxAttempts,   \* RetryConfig::max_attempts of every node
          BodyResult     \* the ways a task body may end, panics apart

ASSUME AttemptsAssumption ==
    /\ Guarded \subseteq Node /\ Timed \subseteq Node \ Guarded /\ Fragile \subseteq Node
    /\ MaxAttempts \in [Node -> Nat \ {0}]
    /\ BodyResult \subseteq ExecutedState \ {"timed-out"}

VARIABLES runner,   \* where the node's runner is
          attempt,  \* the number of its current attempt, 0 before the first
          result,   \* the state its run() will return
          fate,     \* AttemptFate of a guarded node
          timer,    \* its deadline: off, armed, fired, in the loop's hand, or over
          filled,   \* nodes whose output slot holds a value
          buffer,   \* per node, the closing events its runner has buffered
          queue     \* the loop's channel

threads == <<runner, attempt, result, fate, timer, filled, buffer>>

\* "unwound": gone, but its permit is still in the cell the deadline shares.
RunnerState == {"absent", "waiting", "body", "backoff", "finishing", "returned", "gone",
                "unwound"}
TimerState == {"off", "armed", "fired", "in-hand", "over"}

\* The three kinds of message.  closing says that the events a done message
\* carries include the node-terminal record.
Done(n, s, closing) == [kind |-> "done", node |-> n, state |-> s, closing |-> closing]
Deadline(n) == [kind |-> "deadline", node |-> n, state |-> "timed-out", closing |-> TRUE]
Wake == [kind |-> "wake", node |-> 0, state |-> "cancelled", closing |-> FALSE]

\* A node carried forward by a resume has no runner.
InitAttempts(absent) ==
    /\ runner = [n \in Node |-> IF n \in absent THEN "absent" ELSE "waiting"]
    /\ attempt = [n \in Node |-> 0]
    /\ result = [n \in Node |-> None]
    /\ fate = [n \in Node |-> "running"]
    /\ timer = [n \in Node |-> "off"]
    /\ filled = {}
    /\ buffer = [n \in Node |-> << >>]
    /\ queue = << >>

\* The tail of admit: the deadline is armed and the closure dispatched.
Dispatch(n) ==
    /\ runner' = [runner EXCEPT ![n] = "body"]
    /\ attempt' = [attempt EXCEPT ![n] = 1]
    /\ timer' = [timer EXCEPT ![n] = IF n \in Guarded THEN "armed" ELSE "off"]
    /\ UNCHANGED <<result, fate, filled, buffer>>

\* Mutant: the late-result barrier lets every result through.
LateIgnored(n) == FALSE
Late(n)        == n \in Guarded /\ fate[n] = "timed-out"
RetriesLeft(n) == attempt[n] < MaxAttempts[n]

\* emit_attempt_outcome_record: one closing event per attempt.  A deliberate
\* skip is closed like a failure; only the node's state tells them apart.
Closing(n, s) == [attempt |-> attempt[n], status |-> IF s = "skipped" THEN "failed" ELSE s]
Closes(n, s) == buffer' = [buffer EXCEPT ![n] = Append(@, Closing(n, s))]

\* The retry loop goes on to a backoff, or ends with the state s.
BacksOff(n) ==
    /\ RetriesLeft(n)
    /\ runner' = [runner EXCEPT ![n] = "backoff"]
    /\ UNCHANGED result
Settles(n, s) ==
    /\ runner' = [runner EXCEPT ![n] = "finishing"]
    /\ result' = [result EXCEPT ![n] = s]

\* The body returned and claimed its completion before anything else: its
\* value fills the slot.  A failure may be retry-eligible or permanent.
BodyReturns(n, s) ==
    /\ runner[n] = "body" /\ ~Late(n)
    /\ fate' = [fate EXCEPT ![n] = IF n \in Guarded THEN "completed" ELSE @]
    /\ filled' = IF s = "succeeded" THEN filled \cup {n} ELSE filled
    /\ (s = "failed" /\ BacksOff(n)) \/ Settles(n, s)
    /\ Closes(n, s)
    /\ UNCHANGED <<attempt, timer, queue, ledger>>

\* The timeout of an await-bound attempt won the race: its future is dropped.
\* It is always retry-eligible.
BodyTimesOut(n) ==
    /\ runner[n] = "body" /\ n \in Timed
    /\ IF RetriesLeft(n) THEN BacksOff(n) ELSE Settles(n, "timed-out")
    /\ Closes(n, "timed-out")
    /\ UNCHANGED <<attempt, fate, filled, timer, queue, ledger>>

\* The deadline claimed the node first: the barrier refuses the value and the
\* attempt ends as a permanent failure, whatever it produced.
BodyReturnsLate(n) ==
    /\ runner[n] = "body" /\ Late(n)
    /\ Settles(n, "failed")
    /\ Closes(n, "failed")
    /\ UNCHANGED <<fate, filled, attempt, timer, queue, ledger>>

\* A panic unwinds past claim_completion, so the fate stays as it is; it is
\* not retried.
BodyPanics(n) ==
    /\ runner[n] = "body"
    /\ Settles(n, "failed")
    /\ Closes(n, "failed")
    /\ UNCHANGED <<fate, filled, attempt, timer, queue, ledger>>

\* The inputs are resolved before the attempt that catches panics begins, once
\* per run(): a panic there unwinds the whole closure, and nothing is reported.
\* A permit of its own drops; one in a cell stays while the timer, its message
\* in the channel or the loop has hold of the cell.
InputsPanic(n) ==
    /\ n \in Fragile
    /\ runner[n] = "body" /\ attempt[n] = 1
    /\ IF timer[n] \in {"off", "over"}
       THEN runner' = [runner EXCEPT ![n] = "gone"] /\ DropPermit(n)
       ELSE runner' = [runner EXCEPT ![n] = "unwound"] /\ UNCHANGED ledger
    /\ UNCHANGED <<attempt, result, fate, timer, filled, buffer, queue>>

\* The backoff is over; attempt_begins puts a completed fate back to running.
NextAttempt(n) ==
    /\ runner[n] = "backoff"
    /\ runner' = [runner EXCEPT ![n] = "body"]
    /\ attempt' = [attempt EXCEPT ![n] = @ + 1]
    /\ fate' = [fate EXCEPT ![n] = IF @ = "completed" THEN "running" ELSE @]
    /\ UNCHANGED <<result, timer, filled, buffer, queue, ledger>>

\* run() returns and the permit drops, before the loop hears of it.
Finish(n) ==
    /\ runner[n] = "finishing"
    /\ runner' = [runner EXCEPT ![n] = "returned"]
    /\ result' = [result EXCEPT ![n] = IF Late(n) THEN "timed-out" ELSE @]
    /\ DropPermit(n)
    /\ UNCHANGED <<attempt, fate, timer, filled, buffer, queue>>

Report(n) ==
    /\ runner[n] = "returned"
    /\ runner' = [runner EXCEPT ![n] = "gone"]
    /\ queue' = Append(queue, Done(n, result[n], TRUE))
    /\ UNCHANGED <<attempt, result, fate, timer, filled, buffer, ledger>>

TimerFires(n) ==
    /\ timer[n] = "armed"
    /\ timer' = [timer EXCEPT ![n] = "fired"]
    /\ queue' = Append(queue, Deadline(n))
    /\ UNCHANGED <<runner, attempt, result, fate, filled, buffer, ledger>>

\* The loop takes the deadline's message, and drops it when it is done with it:
\* of a cell that a panic left behind it was the last hold.
TakesInHand(n) == timer' = [timer EXCEPT ![n] = "in-hand"]
DropsMessage(n) ==
    /\ timer[n] = "in-hand"
    /\ timer' = [timer EXCEPT ![n] = "over"]
    /\ IF runner[n] = "unwound"
       THEN runner' = [runner EXCEPT ![n] = "gone"] /\ DropPermit(n)
       ELSE UNCHANGED <<runner, ledger>>
    /\ UNCHANGED <<attempt, result, fate, filled, buffer, queue>>

BodyEnds(n) ==
    \/ \E s \in BodyResult : BodyReturns(n, s)
    \/ BodyTimesOut(n) \/ BodyReturnsLate(n) \/ BodyPanics(n)
AfterBody(n) == NextAttempt(n) \/ Finish(n) \/ Report(n)

ThreadStep(n) == BodyEnds(n) \/ InputsPanic(n) \/ AfterBody(n) \/ TimerFires(n)
=============================================================================
