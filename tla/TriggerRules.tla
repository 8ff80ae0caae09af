---------------------------- MODULE TriggerRules ----------------------------
(***************************************************************************)
(* The closed vocabulary of a dagr run and the pure functions over it: the *)
(* nine terminal states and their four classes, the three trigger rules,   *)
(* the gate that evaluates a rule over the upstream picture, and the       *)
(* overall outcome of a run (crates/core/src/readiness.rs and the tail of  *)
(* crates/cli/src/driver.rs).                                              *)
(***************************************************************************)
EXTENDS Naturals, FiniteSets

\* No terminal state recorded yet (Rust's Option::None).
None == "none"

SuccessLike == {"succeeded", "satisfied-from-prior"}
SkipLike    == {"skipped", "upstream-skipped"}
FailureLike == {"failed", "timed-out", "abandoned", "upstream-failed"}
StopLike    == {"cancelled"}

TerminalState == SuccessLike \cup SkipLike \cup FailureLike \cup StopLike

\* The states a task that really ran can return from its runner.
ExecutedState == {"succeeded", "failed", "timed-out", "skipped"}

TriggerRule == {"all-succeeded", "all-terminal", "any-failed"}

ClassOf(s) == CASE s \in SuccessLike -> "success"
                [] s \in SkipLike    -> "skip"
                [] s \in FailureLike -> "failure"
                [] s \in StopLike    -> "stop"

-----------------------------------------------------------------------------
(* The gate.  An evaluation returns Fires or the state to propagate.        *)

Fires == "fires"

\* Mutant: a skipped upstream is as good as a success.
EvalSkipsAreFine(states) ==
    IF states \subseteq SuccessLike \cup SkipLike THEN Fires ELSE "upstream-failed"

\* The default rule folds two flags over the upstreams that are not a
\* success: they stay raised while every such upstream is a skip, a stop.
EvalAllSucceeded(states) ==
    LET bad == states \ SuccessLike
    IN  IF bad = {}                   THEN Fires
        ELSE IF bad \subseteq SkipLike THEN "upstream-skipped"
        ELSE IF bad \subseteq StopLike THEN "cancelled"
        ELSE "upstream-failed"

EvalAnyFailed(states) ==
    IF states \cap FailureLike # {} THEN Fires ELSE "skipped"

EvaluateRule(rule, states) ==
    CASE rule = "all-succeeded" -> EvalAllSucceeded(states)
      [] rule = "all-terminal"  -> Fires
      [] rule = "any-failed"    -> EvalAnyFailed(states)

-----------------------------------------------------------------------------
(* The end of a run.                                                        *)

\* Mutant: a timeout is forgotten among the failures.
OutcomeForgetsTimeouts(states) ==
    IF states \cap {"failed", "abandoned", "upstream-failed"} # {} THEN "failed"
    ELSE IF states \cap StopLike # {} THEN "cancelled"
    ELSE "succeeded"

OverallOutcome(states) ==
    IF states \cap FailureLike # {}   THEN "failed"
    ELSE IF states \cap StopLike # {} THEN "cancelled"
    ELSE "succeeded"

\* The shutdown exit, by precedence: run failure, sink failure, cancellation,
\* success.  origin is the recorded cancellation origin or None.
SelectShutdownExit(outcome, origin, flushOk) ==
    IF outcome = "failed" \/ origin = "failure-under-stop" THEN "run-failure"
    ELSE IF ~flushOk THEN "sink-failure"
    ELSE IF origin = "external-interrupt" \/ outcome = "cancelled" THEN "cancelled"
    ELSE "success"
=============================================================================
