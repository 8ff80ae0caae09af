------------------------------ MODULE RunStore -------------------------------
(***************************************************************************)
(* The run store across a chain of resumed runs: the event stream a run    *)
(* writes record by record (crates/artifact/src/event_stream.rs and its    *)
(* callers in the driver), crashes and sink faults in the middle of it,    *)
(* the fold that reads back whatever is on disk (fold.rs), and the resume  *)
(* that plans the next run from it (the resume verb, contract.rs).         *)
(***************************************************************************)
EXTENDS ResumePlan, RunArtifact

CONSTANTS Results,   \* what a body may do; "retried": fail once, then succeed
          Hashed,    \* durable nodes whose reference carries a content hash
          MaxGen,    \* bound: runs in the chain
          MaxFault   \* bound: appends that fail

ASSUME StoreAssumption ==
    Hashed \subseteq Durable /\ Results \subseteq {"succeeded", "retried", "failed", "skipped"}

VARIABLES gen,     \* the run in progress, or being planned; the last one started
          stream,  \* what read_records reads of the stream of run gen
          artifact, \* artifact[g]: what the resume verb reads of the artifact of run g
          tail,    \* its last line: "ended", or left by a failed append as "part" of
                   \* a record or a "whole" one, the last of stream, without its end
          faults,  \* appends that have failed
          life,    \* of run gen: "planned", "up", "closing" (its outcome is being
                   \* written), "over" (finished or killed)
          batch,   \* the records of the transition being written
          states,  \* terminal_states of run gen, "open" before
          body,    \* what each node's body did: "no", "running" or its result
          store,   \* store[n]: the run whose value n's reference leads to, or 0
          slot,    \* slot[n]: the run whose value is in n's output slot, or 0
          ran,     \* the nodes whose body succeeded in run gen
          recorded \* recorded[n]: the run whose value the prior's reference names

running == <<life, batch, states, body, slot>>
history == <<gen, stream, artifact, tail, faults, store, ran, recorded>>
all     == <<prior, gone, planner, running, history>>

\* There is a process of run gen.
Alive == life \in {"up", "closing"}

Reference(n) == IF n \in Durable THEN gen ELSE 0

\* record_attempt_outcome: the events of a finished body, kept back while it ran
\* and written together.  A skip is written as a failed attempt.
RecordsOf(n, result) ==
    LET opens(k) == <<Admitted(n), Begun(n, k)>>
        failure == opens(1) \o <<Outcome(n, 1, "failed", 0)>>
        success(k) == opens(k) \o <<Outcome(n, k, "succeeded", Reference(n))>> \o
                      (IF n \in Durable THEN <<Produced(n, k, gen)>> ELSE <<>>) \o
                      <<Terminal(n, "succeeded")>>
    IN CASE result = "succeeded" -> success(1)
         [] result = "retried"   -> failure \o success(2)
         [] OTHER                -> failure \o <<Terminal(n, result)>>

StateOf(result) == IF result = "retried" THEN "succeeded" ELSE result

-----------------------------------------------------------------------------
\* Mutant: the first attempt of a node tells its state.
FirstAttempt(a, n) == Head(a.attempts[n])

\* A node's record is its last attempt.
FoldedRecord(a, n) == Last(a.attempts[n])

\* Of a run artifact, what the resume verb reads
Kept(a) == [folds |-> a.folds,
            node |-> [n \in Node |-> [state |-> FoldedRecord(a, n).status,
                                      value |-> FoldedRecord(a, n).value]]]

NoArtifact == Kept(Fold(<<>>, Node))
NothingRecorded == [n \in Node |-> 0]

\* build_prior_run.
PriorOf(a) == [n \in Node |-> [state |-> a.node[n].state, ref |-> a.node[n].value # 0]]

-----------------------------------------------------------------------------
\* The memory of a process that has not begun.
Blank ==
    /\ prior' = PriorOf(NoArtifact) /\ gone' = {} /\ recorded' = NothingRecorded
    /\ must_run' = {} /\ rehydrate' = {} /\ before' = {} /\ rest' = {}
    /\ batch' = <<>>
    /\ states' = [n \in Node |-> "open"] /\ body' = [n \in Node |-> "no"]
    /\ slot' = [n \in Node |-> 0]

\* The first run has no prior: every node is to run.
StoreInit ==
    /\ prior = PriorOf(NoArtifact) /\ gone = {} /\ recorded = NothingRecorded
    /\ phase = "planned" /\ must_run = Node /\ rehydrate = {} /\ before = {} /\ rest = {}
    /\ gen = 1 /\ stream = <<>> /\ artifact = [g \in 1..MaxGen |-> NoArtifact]
    /\ tail = "ended" /\ faults = 0
    /\ life = "planned" /\ batch = <<>>
    /\ states = [n \in Node |-> "open"] /\ body = [n \in Node |-> "no"]
    /\ store = [n \in Node |-> 0] /\ slot = [n \in Node |-> 0] /\ ran = {}

\* The run starts: a value that is no longer there cannot be read back; the
\* others fill their slots, and the satisfied nodes are recorded.
Launch ==
    /\ life = "planned" /\ phase = "planned"
    /\ \A n \in rehydrate : store[n] # 0
    /\ life' = "up"
    /\ slot' = [n \in Node |-> IF n \in rehydrate THEN store[n] ELSE 0]
    /\ states' = [n \in Node |-> IF n \in Satisfied THEN "satisfied-from-prior" ELSE "open"]
    /\ LET known(n) == IF n \in rehydrate THEN slot'[n] ELSE 0
           record(i) == LET n == Nth(Satisfied, i \div 3 + 1) IN
               CASE i % 3 = 0 -> Ready(n)
                 [] i % 3 = 1 -> Outcome(n, 1, "satisfied-from-prior", known(n))
                 [] i % 3 = 2 -> Terminal(n, "satisfied-from-prior")
       IN batch' = <<Started>> \o [i \in 1..(3 * Cardinality(Satisfied)) |-> record(i - 1)]
    /\ UNCHANGED <<prior, gone, planner, body, history>>

\* The records whose lines are ended
Lines == IF tail = "whole" THEN Front(stream) ELSE stream

\* EventStreamWriter::emit: one record is on disk before the next is begun.
\* Behind an unended line it is on that line, and the line is damaged.
AppendRecord ==
    /\ Alive /\ batch # <<>>
    /\ stream' = Append(Lines, IF tail = "ended" THEN Head(batch) ELSE Garbled)
    /\ tail' = "ended"
    /\ batch' = Tail(batch)
    /\ UNCHANGED <<prior, gone, planner, life, states, body, slot, gen, artifact, faults, store, ran, recorded>>

\* append_line fails: nothing of the record is on disk, or a part of it, or all
\* of it but the end of its line; the driver goes on.
SinkFault ==
    /\ Alive /\ batch # <<>> /\ faults < MaxFault
    /\ \/ UNCHANGED <<stream, tail>>
       \/ stream' = Lines /\ tail' = "part"
       \/ tail = "ended" /\ stream' = Append(stream, Head(batch)) /\ tail' = "whole"
    /\ faults' = faults + 1
    /\ batch' = Tail(batch)
    /\ UNCHANGED <<prior, gone, planner, life, states, body, slot, gen, artifact, store, ran, recorded>>

SuccessLike(n) == states[n] \in {"succeeded", "satisfied-from-prior"}

\* admit: a node that is to run starts when its upstreams have succeeded, and
\* only then is recorded as ready.
Start(n) ==
    /\ life = "up" /\ batch = <<>> /\ n \in must_run
    /\ states[n] = "open" /\ body[n] = "no"
    /\ \A u \in Upstreams[n] : SuccessLike(u)
    /\ body' = [body EXCEPT ![n] = "running"]
    /\ batch' = <<Ready(n)>>
    /\ UNCHANGED <<prior, gone, planner, life, states, slot, history>>

\* The body returns.  On success its value is in its slot, and a durable one
\* has replaced whatever its reference led to.
Return(n) ==
    /\ body[n] = "running"
    /\ \E result \in Results :
         LET success == StateOf(result) = "succeeded" IN
         /\ body' = [body EXCEPT ![n] = result]
         /\ slot' = IF success THEN [slot EXCEPT ![n] = gen] ELSE slot
         /\ store' = IF success /\ n \in Durable THEN [store EXCEPT ![n] = gen] ELSE store
         /\ ran' = IF success THEN ran \cup {n} ELSE ran
    /\ UNCHANGED <<prior, gone, planner, life, batch, states, gen, stream, artifact, tail, faults, recorded>>

\* The driver takes the returned body up and starts to write what became of it.
Report(n) ==
    /\ life = "up" /\ batch = <<>> /\ states[n] = "open" /\ body[n] \in Results
    /\ states' = [states EXCEPT ![n] = StateOf(body[n])]
    /\ batch' = RecordsOf(n, body[n])
    /\ UNCHANGED <<prior, gone, planner, life, body, slot, history>>

\* A node that can no longer fire is recorded without having run.
Propagate(n) ==
    /\ life = "up" /\ batch = <<>> /\ states[n] = "open" /\ body[n] = "no"
    /\ \E u \in Upstreams[n] : states[u] # "open" /\ ~SuccessLike(u)
    /\ LET failed == \E u \in Upstreams[n] : states[u] \in {"failed", "upstream-failed"}
           state == IF failed THEN "upstream-failed" ELSE "upstream-skipped"
       IN /\ \A u \in Upstreams[n] : states[u] # "open"
          /\ states' = [states EXCEPT ![n] = state]
          /\ batch' = <<Terminal(n, state)>>
    /\ UNCHANGED <<prior, gone, planner, life, body, slot, history>>

\* Every node is decided: the run records its outcome as its last act.
Conclude ==
    /\ life = "up" /\ life' = "closing" /\ batch = <<>>
    /\ \A n \in Node : states[n] # "open"
    /\ batch' = <<Finished(IF \E n \in Node : states[n] = "failed" THEN "failed"
                           ELSE "succeeded")>>
    /\ UNCHANGED <<prior, gone, planner, states, body, slot, history>>

\* The process is gone, killed at any moment or because it is done; all that
\* is left is what it wrote.
Stop ==
    /\ Alive
    /\ life' = "over" /\ phase' = "gate" /\ Blank
    /\ UNCHANGED <<gen, stream, artifact, tail, faults, store, ran>>

\* The fold, by the run itself at its end or by the fold verb after a crash.
FoldStream ==
    /\ life = "over" /\ artifact[gen] = NoArtifact
    /\ artifact' = [artifact EXCEPT ![gen] = Kept(Fold(stream, Node))]
    /\ stream' = <<>> /\ tail' = "ended"
    /\ UNCHANGED <<prior, gone, planner, running, gen, faults, store, ran, recorded>>

\* Between runs a durable object may be deleted.
Vanish(n) ==
    /\ life \in {"planned", "over"} /\ store[n] # 0
    /\ store' = [store EXCEPT ![n] = 0]
    /\ UNCHANGED <<prior, gone, planner, running, gen, stream, artifact, tail, faults, ran, recorded>>

\* Mutant: the probe never looks at the hash.
ExistenceOnly(a) == {n \in Node : a.node[n].value # 0 /\ store[n] = 0}

\* References that lead nowhere, or by their hash to another value.
Dangling(a) == {n \in Node : LET v == a.node[n].value IN
                   v # 0 /\ (store[n] = 0 \/ (n \in Hashed /\ store[n] # v))}

\* resume_verb: the operator names any earlier run with an artifact.
Resume ==
    /\ \/ life = "over"
       \/ life = "planned" /\ phase = "refused"
       \/ life = "planned" /\ phase = "planned" /\ \E n \in rehydrate : store[n] = 0
    /\ gen < MaxGen /\ gen' = gen + 1
    /\ \E g \in 1..gen :
         /\ artifact[g].folds
         /\ prior' = PriorOf(artifact[g])
         /\ gone' = Dangling(artifact[g])
         /\ recorded' = [n \in Node |-> artifact[g].node[n].value]
    /\ phase' = "gate" /\ must_run' = {} /\ rehydrate' = {} /\ before' = {} /\ rest' = {}
    /\ life' = "planned" /\ stream' = <<>> /\ tail' = "ended"
    /\ ran' = {}
    /\ UNCHANGED <<batch, states, body, slot, artifact, faults, store>>

Plan == /\ life = "planned"
        /\ Planning \/ Gate(TRUE, TRUE, TRUE)
        /\ UNCHANGED <<running, history>>

StoreNext ==
    \/ Launch \/ AppendRecord \/ SinkFault \/ Conclude \/ Stop \/ FoldStream \/ Resume \/ Plan
    \/ \E n \in Node : Start(n) \/ Return(n) \/ Report(n) \/ Propagate(n) \/ Vanish(n)

StoreSpec == StoreInit /\ [][StoreNext]_all

-----------------------------------------------------------------------------
SucceededIn(a) == {n \in Node : FoldedRecord(a, n).status = "succeeded"}

\* The executing time along the longest path of the graph
LongestPath(a) ==
    LET to[n \in Node] == Executing(a.attempts[n]) + Max({0} \cup {to[u] : u \in Upstreams[n]})
    IN Max(Range(to))

Tells(a) ==
    a.folds =>
        /\ \A n \in SucceededIn(a) : n \in ran /\ FoldedRecord(a, n).value \in {0, gen}
        /\ \A o \in a.outputs : o.node \in ran /\ o.value = gen
        /\ faults = 0 =>
               /\ ~a.interrupted => SucceededIn(a) = ran
               /\ \A o \in a.outputs : \E k \in DOMAIN a.attempts[o.node] :
                      LET r == a.attempts[o.node][k] IN
                      r.attempt = o.attempt /\ r.status = "succeeded" /\ r.value = o.value

\* At every moment, what a fold of the stream would say is the truth about its
\* run: a node it calls succeeded did succeed in that run, and its reference and
\* the outputs it lists are values of that run.  While no append is lost, no
\* success is missing once the run has finished, and an output belongs to a
\* listed successful attempt (fold_stream).
HonestArtifact == life # "planned" => Tells(Fold(stream, Node))

\* While no append is lost, the critical path a fold finds without the graph is
\* at least the longest path through the graph and at most the whole run
\* (critical_path_ns).
PathIsBounded ==
    life # "planned" /\ faults = 0 =>
        LET a == Fold(stream, Node) IN
        a.folds => LongestPath(a) <= a.summary.critical /\ a.summary.critical <= a.summary.elapsed

\* A body that runs in a chain of runs has the value of every input: this
\* run's if the producer ran again, else one read back, and with a content hash
\* it is the very value the prior run recorded.
RightInputs ==
    \A n \in Node : body[n] = "running" =>
        \A p \in DataInputs[n] :
            IF p \in must_run THEN slot[p] = gen
            ELSE /\ slot[p] # 0
                 /\ p \in Hashed => slot[p] = recorded[p]
=============================================================================
