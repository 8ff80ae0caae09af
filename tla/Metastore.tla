------------------------------ MODULE Metastore ------------------------------
(***************************************************************************)
(* The run index (crates/metastore): one SQLite file that every running    *)
(* flow projects its event stream into as it writes it (live_sink.rs, teed *)
(* by metastore_tee.rs), and that `metastore sync' fills again from the    *)
(* streams on disk (mapping.rs, cli/metastore.rs).                         *)
(*                                                                         *)
(* The processes share the streams and the write lock of the file.  What a *)
(* transaction is going to write is computed before it has the lock.       *)
(***************************************************************************)
EXTENDS FiniteSetsExt, Integers

CONSTANTS Run,       \* runs with a live sink, one process each
          Syncer,    \* `metastore sync' processes
          Length,    \* records of a run
          Hashless,  \* runs whose output reference carries no content hash
          Lookalike, \* runs with a parameter named `kind' of value `run-finished'
          MaxTries,  \* RetryPolicy::max_attempts
          MaxTrouble   \* failed writes, probes and kills explored

ASSUME MetastoreAssumption ==
    /\ Run \cap Syncer = {} /\ "nobody" \notin Run \cup Syncer
    /\ Hashless \cup Lookalike \subseteq Run
    /\ Length \in Nat /\ Length >= 3
    /\ MaxTries \in Nat \ {0} /\ MaxTrouble \in Nat

VARIABLES shape,  \* of the tables: "none", "old" or "new"
          writer, \* who holds the write lock
          row,    \* row[r]: what the tables say of run r
          stage,  \* stage[p]: how far process p has come
          job,    \* job[p]: the write transaction p is to make
          file,   \* file[r]: the records on disk
          sink,   \* sink[r]: the live sink of run r
          next,   \* next[r]: the record run r writes next
          seq,    \* seq[r]: EventStreamWriter::next_seq
          place,  \* place[s]: the streams s has still to visit in this pass
          troubles

indexVars == <<shape, writer, row, stage, job, file, sink, next, seq, place, troubles>>

Process == Run \cup Syncer
Nobody == "nobody"

\* The records of a stream: run-started, attempts, output-produced, run-finished
RunStarted == 1
OutputProduced == Length - 1
RunFinished == Length
Attempts(lines) == lines \ {RunStarted, RunFinished}

NoJob == [kind |-> "none", run |-> Nobody, lines |-> {}, live |-> FALSE, try |-> 0]
Job(kind) == [NoJob EXCEPT !.kind = kind, !.try = 1]

NoRow == [state |-> "none", nodes |-> {}, latest |-> 0, outputs |-> 0]
NewSink == [buffer |-> {}, finished |-> FALSE, fault |-> FALSE]

\* Stages a process does not leave
Over == {"refused", "clean", "sink-failure", "killed"}

Fails == troubles < MaxTrouble /\ troubles' = troubles + 1
Fine == UNCHANGED troubles

-----------------------------------------------------------------------------
(* The projection of a stream: mapping.rs *)

\* fold_stream: nothing without run-started
Foldable(lines) == RunStarted \in lines

\* A stream without run-finished folds to a cancelled run
OutcomeOf(lines) == IF RunFinished \in lines THEN "succeeded" ELSE "cancelled"

\* output_produced_upsert: the conflict target holds the content hash, and an
\* absent hash conflicts with nothing.  More than one is counted as two.
OutputRows(r, lines, n) ==
    IF OutputProduced \notin lines THEN n
    ELSE IF r \in Hashless THEN IF n = 0 THEN 1 ELSE 2
    ELSE 1

\* attempt_upsert: one row for every attempt the stream tells of
AttemptRows(j, old) == old.nodes \cup Attempts(j.lines)

\* terminal_upserts: the latest attempt, as that stream knows it
LatestRow(j, old) == IF Attempts(j.lines) = {} THEN old.latest ELSE Max(Attempts(j.lines))

\* RunState: a live run is running, whatever its stream folds to so far
RunState(j) == IF j.live THEN "running" ELSE OutcomeOf(j.lines)

\* Mutant: the row of a run that is there already is left alone.
InsertOnly(r, j, old) ==
    [state   |-> IF old.state # "none" THEN old.state ELSE RunState(j),
     nodes   |-> AttemptRows(j, old),
     latest  |-> LatestRow(j, old),
     outputs |-> OutputRows(r, j.lines, old.outputs)]

\* build_statements: rows are inserted or replaced, never deleted
Upserted(r, j, old) ==
    [state   |-> RunState(j),
     nodes   |-> AttemptRows(j, old),
     latest  |-> LatestRow(j, old),
     outputs |-> OutputRows(r, j.lines, old.outputs)]

\* project_once: the buffer is folded again as a whole; without run-started
\* there is nothing to write
Projection(r, buffer, finished) ==
    [Job("rows") EXCEPT !.run = r, !.lines = buffer, !.live = ~finished]

-----------------------------------------------------------------------------
(* Opening: MetaStore::open_with_retry *)

\* There is no file yet, one made before the additive columns, or a good one.
MetastoreInit ==
    /\ shape \in {"none", "old", "new"}
    /\ writer = Nobody /\ row = [r \in Run |-> NoRow]
    /\ stage = [p \in Process |-> "start"] /\ job = [p \in Process |-> NoJob]
    /\ file = [r \in Run |-> {}] /\ sink = [r \in Run |-> NewSink]
    /\ next = [r \in Run |-> 1] /\ seq = [r \in Run |-> 0]
    /\ place = [s \in Syncer |-> {}] /\ troubles = 0

\* The process opens the index: CREATE ... IF NOT EXISTS in one transaction
Open(p) ==
    /\ stage[p] = "start"
    /\ stage' = [stage EXCEPT ![p] = "opening"]
    /\ job' = [job EXCEPT ![p] = Job("create")]
    /\ UNCHANGED <<shape, writer, row, file, sink, next, seq, place, troubles>>

\* apply_additive_columns: missing columns are looked for outside the
\* transaction that adds them; a look that fails finds every column there
Probe(p) ==
    /\ stage[p] = "opening" /\ job[p] = NoJob
    /\ \/ /\ shape = "old" /\ job' = [job EXCEPT ![p] = Job("alter")]
          /\ UNCHANGED stage /\ Fine
       \/ /\ IF shape = "old" THEN Fails ELSE Fine
          /\ stage' = [stage EXCEPT ![p] = "up"] /\ UNCHANGED job
    /\ UNCHANGED <<shape, writer, row, file, sink, next, seq, place>>

-----------------------------------------------------------------------------
(* A live run: RunSink, MetastoreSink *)

\* line_is_run_finished: a scan of the bytes, which a parameter can match too
SeenFinished(r, k) == sink[r].finished \/ k = RunFinished \/ (k = RunStarted /\ r \in Lookalike)

\* The emit of record next[r] returns.
Emitted(r, ok) ==
    /\ next' = [next EXCEPT ![r] = @ + 1]
    /\ seq' = [seq EXCEPT ![r] = IF ok THEN @ + 1 ELSE @]

\* RunSink::append_line: the file cannot be written; nothing else is tried
LoseLine(r) ==
    /\ stage[r] = "up" /\ job[r] = NoJob /\ next[r] \in 1..Length
    /\ Fails /\ Emitted(r, FALSE)
    /\ UNCHANGED <<shape, writer, row, stage, job, file, sink, place>>

\* RunSink::append_line: the record is on disk, then in the hands of the
\* worker; after a fault every call fails.  The driver goes on in any case.
AppendLine(r) ==
    /\ stage[r] = "up" /\ job[r] = NoJob /\ next[r] \in 1..Length
    /\ file' = [file EXCEPT ![r] = @ \cup {next[r]}]
    /\ IF sink[r].fault
       THEN Emitted(r, FALSE) /\ UNCHANGED <<sink, job>>
       ELSE LET buffer == sink[r].buffer \cup {next[r]}
                finished == SeenFinished(r, next[r])
            IN /\ sink' = [sink EXCEPT ![r].buffer = buffer, ![r].finished = finished]
               /\ IF Foldable(buffer)
                  THEN /\ job' = [job EXCEPT ![r] = Projection(r, buffer, finished)]
                       /\ UNCHANGED <<next, seq>>
                  ELSE Emitted(r, TRUE) /\ UNCHANGED job
    /\ UNCHANGED <<shape, writer, row, stage, place, troubles>>

\* Mutant: the last flush does not look at the fault.
FlushAnyway(r) ==
    /\ stage[r] = "up" /\ job[r] = NoJob /\ next[r] = Length + 1
    /\ IF Foldable(sink[r].buffer)
       THEN /\ job' = [job EXCEPT ![r] = Projection(r, sink[r].buffer, sink[r].finished)]
            /\ stage' = [stage EXCEPT ![r] = "flushing"]
       ELSE stage' = [stage EXCEPT ![r] = "clean"] /\ UNCHANGED job
    /\ UNCHANGED <<shape, writer, row, file, sink, next, seq, place, troubles>>

\* EventStreamWriter::finish, MetastoreSink::flush: a fault comes up again,
\* else everything is projected once more
Flush(r) ==
    /\ stage[r] = "up" /\ job[r] = NoJob /\ next[r] = Length + 1
    /\ IF sink[r].fault
       THEN stage' = [stage EXCEPT ![r] = "sink-failure"] /\ UNCHANGED job
       ELSE IF Foldable(sink[r].buffer)
       THEN /\ job' = [job EXCEPT ![r] = Projection(r, sink[r].buffer, sink[r].finished)]
            /\ stage' = [stage EXCEPT ![r] = "flushing"]
       ELSE stage' = [stage EXCEPT ![r] = "clean"] /\ UNCHANGED job
    /\ UNCHANGED <<shape, writer, row, file, sink, next, seq, place, troubles>>

-----------------------------------------------------------------------------
(* `metastore sync' *)

\* discover_run_streams, at the start of a pass: the first one, or the next
\* one of --follow
Discover(s) ==
    /\ stage[s] \in {"up", "rest"}
    /\ stage' = [stage EXCEPT ![s] = IF @ = "up" THEN "first" ELSE "follow"]
    /\ place' = [place EXCEPT ![s] = {r \in Run : stage[r] \notin {"start", "opening", "refused"}}]
    /\ UNCHANGED <<shape, writer, row, job, file, sink, next, seq, troubles>>

\* sync_run_store: a stream is read and folded as it is now; the rows are to
\* say that the run is over.  One that does not fold is skipped.
ReadStream(s) ==
    /\ stage[s] \in {"first", "follow"} /\ job[s] = NoJob
    /\ \E r \in place[s] :
         /\ job' = IF Foldable(file[r])
                   THEN [job EXCEPT ![s] = Projection(r, file[r], TRUE)] ELSE job
         /\ place' = [place EXCEPT ![s] = @ \ {r}]
    /\ UNCHANGED <<shape, writer, row, stage, file, sink, next, seq, troubles>>

\* The pass is done; without --follow the verb ends here.
PassEnds(s) ==
    /\ stage[s] \in {"first", "follow"} /\ job[s] = NoJob /\ place[s] = {}
    /\ stage' = [stage EXCEPT ![s] = "rest"]
    /\ UNCHANGED <<shape, writer, row, job, file, sink, next, seq, place, troubles>>

-----------------------------------------------------------------------------
(* Write transactions: MetaStore::with_write_txn *)

\* The result of p's transaction reaches the code that asked for it.
Answer(p, ok) ==
    /\ job' = [job EXCEPT ![p] = NoJob]
    /\ stage' = [stage EXCEPT ![p] =
                   CASE job[p].kind \in {"create", "alter"} /\ ~ok -> "refused"
                     [] job[p].kind = "alter" /\ ok          -> "up"
                     [] @ = "flushing"                      -> IF ok THEN "clean" ELSE "sink-failure"
                     [] @ = "first" /\ ~ok                  -> "sink-failure"
                     [] @ = "follow" /\ ~ok                 -> "rest"
                     [] OTHER                               -> @]
    /\ place' = IF p \in Syncer /\ ~ok THEN [place EXCEPT ![p] = {}] ELSE place
    /\ sink' = IF p \in Run /\ job[p].kind = "rows" /\ ~ok
               THEN [sink EXCEPT ![p].fault = TRUE] ELSE sink
    /\ IF stage[p] = "up" /\ p \in Run THEN Emitted(p, ok) ELSE UNCHANGED <<next, seq>>

\* BEGIN IMMEDIATE
Begin(p) ==
    /\ job[p] # NoJob /\ writer = Nobody
    /\ writer' = p
    /\ UNCHANGED <<shape, row, stage, job, file, sink, next, seq, place, troubles>>

IsBusy(p) == writer \notin {Nobody, p}

\* backoff: some time later the transaction is tried again
Again(j) == [j EXCEPT !.try = @ + 1]

\* BEGIN IMMEDIATE while another process writes: busy, tried again a bounded
\* number of times
Busy(p) ==
    /\ job[p] # NoJob /\ IsBusy(p)
    /\ IF job[p].try < MaxTries
       THEN /\ job' = [job EXCEPT ![p] = Again(@)]
            /\ UNCHANGED <<stage, sink, next, seq, place>>
       ELSE Answer(p, FALSE)
    /\ UNCHANGED <<shape, writer, row, file, troubles>>

\* The statements of the job cannot run on the tables as they are: a column
\* added by another process meanwhile, or one that is not there
Rejected(j) == \/ j.kind = "alter" /\ shape = "new"
               \/ j.kind = "rows" /\ shape = "old"

Commit(p) ==
    /\ writer = p /\ ~Rejected(job[p])
    /\ writer' = Nobody
    /\ shape' = CASE job[p].kind = "create" /\ shape = "none" -> "new"
                  [] job[p].kind = "alter" -> "new"
                  [] OTHER -> shape
    /\ row' = IF job[p].kind = "rows"
              THEN [row EXCEPT ![job[p].run] = Upserted(job[p].run, job[p], @)] ELSE row
    /\ Answer(p, TRUE)
    /\ UNCHANGED <<file, troubles>>

\* An error in the body or of COMMIT: rolled back and not tried again
Rollback(p) ==
    /\ writer = p
    /\ IF Rejected(job[p]) THEN Fine ELSE Fails
    /\ writer' = Nobody
    /\ Answer(p, FALSE)
    /\ UNCHANGED <<shape, row, file>>

-----------------------------------------------------------------------------
\* A process dies; a transaction it has open is gone.
Kill(p) ==
    /\ stage[p] \notin Over \cup {"start"} /\ Fails
    /\ stage' = [stage EXCEPT ![p] = "killed"]
    /\ job' = [job EXCEPT ![p] = NoJob]
    /\ writer' = IF writer = p THEN Nobody ELSE writer
    /\ UNCHANGED <<shape, row, file, sink, next, seq, place>>

Steps(p) == Open(p) \/ Probe(p) \/ Begin(p) \/ Busy(p) \/ Commit(p) \/ Rollback(p)
RunSteps(r) == Steps(r) \/ AppendLine(r) \/ Flush(r)
SyncSteps(s) == Steps(s) \/ Discover(s) \/ ReadStream(s) \/ PassEnds(s)

MetastoreNext ==
    \/ \E r \in Run : RunSteps(r) \/ LoseLine(r)
    \/ \E s \in Syncer : SyncSteps(s)
    \/ \E p \in Process : Kill(p)

\* Every process goes on with what it does; nothing has to go wrong.
MetastoreSpec ==
    /\ MetastoreInit /\ [][MetastoreNext]_indexVars
    /\ \A r \in Run : WF_indexVars(RunSteps(r))
    /\ \A s \in Syncer : WF_indexVars(SyncSteps(s))

-----------------------------------------------------------------------------
\* A run that ends well has all of its stream in the index: whatever failed on
\* the way, a write that was lost is told at the end (live_sink.rs: guaranteed,
\* not best-effort).
NeverSwallowed ==
    \A r \in Run : stage[r] = "clean" /\ Foldable(file[r]) =>
        /\ Attempts(file[r]) \subseteq row[r].nodes
        /\ RunFinished \in file[r] => row[r].state \notin {"none", "running"}

\* What a sync of the stream as it is says of run r
Exact(r) ==
    IF Foldable(file[r])
    THEN /\ row[r].state = OutcomeOf(file[r]) /\ row[r].nodes = Attempts(file[r])
         /\ row[r].nodes # {} => row[r].latest = Max(row[r].nodes)
         /\ OutputProduced \in file[r] /\ r \notin Hashless => row[r].outputs = 1
    ELSE row[r] = NoRow

\* A consolidator that keeps running brings the index to the truth about every
\* run and leaves it there: of runs that finished, were killed or lost their
\* sink, and in spite of rows that were computed from an older stream and
\* written over newer ones.
FollowConverges ==
    \A r \in Run : (\E s \in Syncer : <>[](stage[s] \notin Over)) => <>[](stage[r] \in Over /\ Exact(r))

-----------------------------------------------------------------------------
(* Not so: each is refuted by a configuration of its own. *)

\* Projecting a run again does not duplicate its lineage (mapping.rs:434).
OutputOnce == \A r \in Run : row[r].outputs <= 1

\* A run that is still writing is "running" in the index (mapping.rs:130).
UpIsRunning ==
    \A r \in Run : stage[r] = "up" /\ next[r] \in 2..RunFinished - 1 => row[r].state \in {"none", "running"}

\* No two records of a stream have one number (event_stream.rs:852).
Gapless == \A r \in Run : job[r] = NoJob => seq[r] = Cardinality(file[r])

\* A column is added only where it is absent, whoever else opens the file
\* (store.rs:320).
AddedWhenAbsent == \A p \in Process : writer = p /\ job[p].kind = "alter" => shape = "old"
=============================================================================
