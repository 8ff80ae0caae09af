----------------------------- MODULE RunArtifact -----------------------------
(***************************************************************************)
(* The run artifact: what fold_stream (crates/artifact/src/fold.rs) makes  *)
(* of the records of one run's event stream.  A record is reduced to the   *)
(* fields the fold reads; its offset is its position in the stream, so     *)
(* the clock of this module ticks once per record.                         *)
(***************************************************************************)
EXTENDS Integers, SequencesExt, Functions

-----------------------------------------------------------------------------
(* Records *)

Note(k, n, a, s, v) == [kind |-> k, node |-> n, attempt |-> a, status |-> s, value |-> v]
Ready(n) == Note("node-ready", n, 0, "", 0)
Admitted(n) == Note("node-admitted", n, 0, "", 0)
Begun(n, a) == Note("attempt-started", n, a, "", 0)
Outcome(n, a, s, v) == Note("attempt-outcome", n, a, s, v)
Produced(n, a, v) == Note("output-produced", n, a, "", v)
Terminal(n, s) == Note("node-terminal", n, 0, s, 0)
Started == Note("run-started", 0, 0, "", 0)
Finished(s) == Note("run-finished", 0, 0, s, 0)
Garbled == Note("garbled", 0, 0, "", 0)

At(s, kind, n) == {i \in DOMAIN s : s[i].kind = kind /\ s[i].node = n}

\* The k-th least element of a finite set of numbers
Nth(S, k) == CHOOSE i \in S : Cardinality({j \in S : j <= i}) = k

\* The latest such record before position i; 0 when there is none
Before(s, kind, n, i) == Max({0} \cup {j \in At(s, kind, n) : j < i})

\* read_records, of the records it reads: those of the ended lines, and the last
\* one even when its line is not ended; part of a record at the end is dropped.
\* A damaged line before it, or a stream without run-started, is an error.
Folds(s) == /\ \A i \in DOMAIN s : s[i].kind # "garbled"
            /\ \E i \in DOMAIN s : s[i].kind = "run-started"

-----------------------------------------------------------------------------
(* Attempts *)

\* build_attempt_record: the time from the latest attempt-started to the
\* outcome, split into the waits recorded inside it and the rest.
Phases(s, i) ==
    LET n == s[i].node
        begun == Before(s, "attempt-started", n, i)
        start == IF begun = 0 THEN i ELSE begun
        since(j) == IF j > start THEN j - start ELSE 0
        total == i - start
        ready == since(Before(s, "node-ready", n, i))
        permit == Min({since(Before(s, "node-admitted", n, i)), total - ready})
        wait == Min({IF s[i].attempt > 1 THEN since(Before(s, "attempt-outcome", n, i)) ELSE 0,
                     total - ready - permit})
    IN [total |-> total, ready_wait |-> ready, permit_wait |-> permit, backoff |-> wait,
        executing |-> total - ready - permit - wait]

NoPhases == [total |-> 0, ready_wait |-> 0, permit_wait |-> 0, backoff |-> 0, executing |-> 0]

Attempt(a, s, v, phases) == [attempt |-> a, status |-> s, value |-> v, phases |-> phases]

\* synthesize_never_ran: a node with a terminal record and no attempt.
NeverRan(terminal) == Attempt(1, terminal.status, terminal.value, NoPhases)

\* assemble_attempts: a node's attempts in the order of their outcomes; else one
\* made from its last node-terminal record; else it counts as upstream-failed.
AttemptsOf(s, n) ==
    LET outcomes == At(s, "attempt-outcome", n)
        terminals == At(s, "node-terminal", n)
    IN IF outcomes # {}
       THEN [k \in 1..Cardinality(outcomes) |->
                LET i == Nth(outcomes, k) IN
                Attempt(s[i].attempt, s[i].status, s[i].value, Phases(s, i))]
       ELSE <<IF terminals # {} THEN NeverRan(s[Max(terminals)])
              ELSE Attempt(1, "upstream-failed", 0, NoPhases)>>

\* assemble_outputs.
Outputs(s) == {[node |-> s[i].node, attempt |-> s[i].attempt, value |-> s[i].value] :
                  i \in {j \in DOMAIN s : s[j].kind = "output-produced"}}

-----------------------------------------------------------------------------
(* Summary *)

\* A node's share of a path: the executing time of all its attempts
Executing(attempts) == FoldLeft(LAMBDA sum, a : sum + a.phases.executing, 0, attempts)

EndOf(s, n) == Max({0} \cup At(s, "attempt-outcome", n) \cup At(s, "node-terminal", n))
ReadyOf(s, n) == LET r == At(s, "node-ready", n) IN IF r = {} THEN EndOf(s, n) ELSE Min(r)

\* Mutant: the nodes are taken by their names alone.
ByName(s, u, v) == u < v

\* The nodes are taken in the order of their readiness, then of their names.
Earlier(s, u, v) == \/ ReadyOf(s, u) < ReadyOf(s, v)
                    \/ ReadyOf(s, u) = ReadyOf(s, v) /\ u < v

\* critical_path_ns: without edges, a node may precede another when it had ended
\* by the time the other was ready.
CriticalPath(s, attempts) ==
    LET nodes == DOMAIN attempts
        extend(cp, v) ==
            LET before == {u \in DOMAIN cp : EndOf(s, u) # 0 /\ EndOf(s, u) <= ReadyOf(s, v)}
            IN (v :> Max({0} \cup {cp[u] : u \in before}) + Executing(attempts[v])) @@ cp
        cp == FoldLeft(extend, <<>>, SetToSortSeq(nodes, LAMBDA u, v : Earlier(s, u, v)))
    IN Max({0} \cup Range(cp))

\* assemble_summary.
Summary(s, attempts) == [elapsed |-> Len(s), critical |-> CriticalPath(s, attempts)]

-----------------------------------------------------------------------------
\* fold_stream: a stream without run-finished is an interrupted run, and counts
\* as cancelled.
Interrupted(s) == \A i \in DOMAIN s : s[i].kind # "run-finished"
OverallOutcome(s) ==
    LET last == SelectSeq(s, LAMBDA r : r.kind = "run-finished")
    IN IF last = <<>> THEN "cancelled" ELSE Head(last).status

Fold(s, nodes) ==
    LET attempts == [n \in nodes |-> AttemptsOf(s, n)]
    IN [folds |-> Folds(s), interrupted |-> Interrupted(s), outcome |-> OverallOutcome(s),
        attempts |-> attempts, outputs |-> Outputs(s), summary |-> Summary(s, attempts)]
=============================================================================
