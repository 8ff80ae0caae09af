# dagr in TLA+

dagr runs a typed, acyclic pipeline of tasks: it starts a node when its upstreams allow it, within
declared capacity, on this machine or in a pod, retries it, times it out, stops or drains the run,
and writes an event stream from which every artifact is derived. This directory models the program
from the command line to what a later run reads back: flow assembly, the start of a run, the
readiness tracker, the admission controller, the run loop and the attempts beside it, output slots,
the event stream and its fold, resume planning, the directories of a run, remote attempts, the blob
store and the run index. TLC checks the models on small instances; TLAPS proves theorems about nine
of them for all values of their constants.

`PROJECT.json` maps every definition to the lines it stands for and lists the hazards, the runs, a
mutant for each property, the theorems, and where the code and its documents disagree.

## 1. The system

| Component (docs/arch.md) | State | Operations | Talks to |
|---|---|---|---|
| Readiness tracker C11, C15 (`core/src/readiness.rs`) | per node: countdown, upstream states, decided state | construction, `initial_ready`, `notify_terminal` | called by the run loop only |
| Admission controller C12 (`core/src/admission.rs`) | pools, waiters, zombies, residency, one mutex | `try_admit`, `offer`, `poll_admissions`, `mark_zombie`, `Permit` drop, `transfer_residency` | run loop; every attempt thread (permit drop) |
| Run loop C11-C17 (`cli/src/driver.rs`) | in-flight count, waiting list, terminal states, modes (stopping, draining), two deadlines, zombie sets, event writer | start-up, frontier, offers, reports, deadlines, drain, teardown phase, exit | tracker (calls), admission (lock), attempts and signals (one unbounded channel) |
| Attempts C13, C14 (`cli/src/run_flow.rs`, `core/src/execution.rs`) | runner position, attempt number, fate cell, output slot | run a body, claim completion, back off, retry, finish, report; the deadline timer | admission, fate cell (shared with the loop), channel |
| Cancellation and signals C16 (driver.rs, `cli/src/signals.rs`) | recorded origin, waker, delivery count | `request`, `install_waker`, `on_signal` | channel |
| Output slots C10 (`core/src/slot.rs`) | content, leases, consumer counts, residency | fill, read, take, mark, drop, redeem | attempts, residency ledger |
| Resume C27 (`core/src/resume.rs`, the resume verb) | none (pure) | gate, seed, closure, demand, rehydration | before the loop; reads the prior run |
| Event stream and fold C19, C22 (`artifact`) | next sequence number, sink | append, flush; fold of a stream with a possibly unended last line | run loop, later invocations |
| Scratch C18 and temp directories (`core/src/scratch.rs`, `cli/src/temp.rs`) | files | get, put, remove, carry forward; create, remove, sweep | one node; other invocations of the pipeline |
| Assembly C1-C7 (`core/src/flow.rs`, `assembly.rs`) | a builder | registrations, the checks, the order | before everything |
| Command line, configuration, bootstrap C23, C25, C26 (`cli/src/contract.rs`, `registry.rs`, `config.rs`, `core/src/limits.rs`) | none | verbs, knobs over flag, environment and file, the probe of the machine, refusals, exit codes | operator, files, machine |
| Remote attempts (`cli/src/k8s_runner.rs`, `remote.rs`, `exec_node.rs`, `adoption.rs`, `submission_log.rs`; crate `k8s`) | pods, labels, write-ahead records, shards, the observer's sets | submit, await, replay, tombstone, adopt, revoke; list, watch, route | cluster, event stream, blob store |
| Blob store and its reclaim (crate `blob`, `cli/src/blob_gc.rs`) | objects under content keys | put, get, head, list, delete; walk, refuse, delete | bodies, resume, prune |
| Metastore (crate `metastore`, `cli/src/metastore_tee.rs`) | tables in one file, a write lock, a worker per run | open and migrate, live projection, sync, follow | event stream, other processes |
| Renderers, graph artifact, macros, test kit, demos C20, C21, C24, C28 | values | formatting, code generation | |

What is hard here: one loop task, many threads and two clocks that meet in a channel, a mutex and a
fate cell; a closure that cannot be killed and outlives its deadline, its run's drain or both; a stop
that must let contingencies run; capacity that follows a thread rather than a decision; processes
that die between two writes and others that read what they left; a cluster that answers late, twice
or not at all; a resume that starts in the middle.

What makes the parts correct:

- tracker: a rule is evaluated once, on the complete upstream picture; nobody is left waiting when
  nothing is left to report; the blamed node is a cause;
- admission: the books are exact whoever releases; a waiter that can fit is served;
- loop: a node has one truth, which the table, the stream, the tracker and its attempts' records
  share; the in-flight count is exact (else the run hangs or leaves early); nothing starts after a
  stop or in a drain that should not; the run ends, and its exit tells the truth;
- slots: no value goes under a reader, none outlives its last consumer, bytes are given back once;
- resume: exactly what must run again runs again, and finds the values the prior run recorded;
- store: what the fold says of a run is so, wherever the run was cut;
- remote: no pod that the log does not announce, no success without a pod and a value behind it, no
  touch on another build's pod, no waiter left on a pod that has ended;
- blobs and index: an answer is true of some moment of its call; nothing an earlier run recorded is
  reclaimed; rows are never missing silently, and a sync that goes on makes them right;
- front end: an accepted flow has an order, and a run starts as its settings and its machine say.

## 2. The modules

| Module | Models |
|---|---|
| `Nodes` | the node set; numbers stand for names, so number order is the name order of the code's maps |
| `TriggerRules` | terminal states and classes, `evaluate_rule`, `overall_outcome`, `select_shutdown_exit` |
| `RunContract` | the abstract promise: a node gets one state, once, when all upstreams have theirs; it may run only if its rule fires and otherwise inherits the rule's verdict; a resume may carry it forward; teardown comes last |
| `Readiness` | `ReadinessTracker`: `NotifyTerminal`, `PopWork`, `VisitDependent` |
| `ReadinessDriver` | the calls its driver makes, with tracker properties; implements `RunContract` |
| `Admission`, `AdmissionQueue` | the ledger (`Fits`, `TryAdmit`, `MarkZombie`, `DropPermit`); the same with waiting queue, bypass, residency leases and clients |
| `Attempts` | runner threads, fate cells, deadline timers, the channel, closing events; extends `Admission` |
| `RunLoop` | `run_loop`, the teardown phase and the exit; composes `Readiness`, `Attempts`, `Admission` |
| `RunProperties` | what a run guarantees; implements `RunContract` |
| `OutputSlot` | `OutputSlot`, `SlotRef`, `ConsumerLease`, `RedemptionHandle`, `ResidencyLedger` |
| `ResumePlan` | `plan_resume` one visited name at a time, with the definition of a complete plan |
| `RunArtifact` | the records of a stream and `fold_stream`: attempts, phases, outputs, critical path, outcome |
| `RunStore` | a chain of runs over `ResumePlan` and `RunArtifact`: appends, sink faults, kills, fold, resume |
| `RunDirectory` | temp directories and scratch of a chain of invocations, operation by operation |
| `PodWatch` | the observer: list, watch, reconnect, expiry, stall, failure limit, routing to waiters |
| `PodBody` | `exec-node`: its checks, the body, the watchdog, the shard and its reader (values only) |
| `Remote` | the runner, the submission log, adoption, revocation, landing; composes `PodWatch`, `PodBody` |
| `BlobStore` | the port over a directory or a bucket with retries |
| `BlobReclaim` | runs, a resume and the reclaim beside each other over `BlobStore` |
| `Metastore` | live sinks, workers, the tee and `metastore sync` over one file |
| `Assembly` | the builder and `assemble`, problem by problem, and its order loop |
| `Bootstrap` | limits of a machine, headroom, pins, demands, the capacity check (values only) |
| `CommandLine` | verbs, flow selection, the resolution of each knob, the start, end and exit of `run`; uses `Bootstrap` |
| `ReadinessProofs`, `RunProofs` | theorems about the tracker; about the run loop and what a run says |
| `ResourceProofs` | theorems about `AdmissionQueue` and `OutputSlot` |
| `RunStoreProofs` | theorems about `ResumePlan`, `RunStore` and `Metastore` |
| `StorageProofs` | theorems about `RunDirectory`, `BlobStore` and `BlobReclaim` |
| `RemoteProofs` | theorems about `Remote`, with `PodWatch` and `PodBody` |
| `FrontEndProofs` | theorems about `Assembly` and `CommandLine` |
| `CommonLemmas` | lemmas they share |
| `MC*` | small instances for TLC; `Metastore` and `BlobReclaim` need no module of their own |

**Readiness.** `remaining`, `upstreams` and `decided` are the fields of `NodeState`. A call of
`notify_terminal` is `NotifyTerminal` and then `PopWork`/`VisitDependent` until the work list is
empty; `decisions` is the vector it returns. The tracker is owned by the loop, so nothing else runs
meanwhile. Data and ordering upstreams are counted apart and told together, as in the code.

**Admission.** One variable per field of `Inner`. `free` is indexed by pool, so "memory, blocking,
compute, remote" is any set of pools. Each operation holds the mutex and is one step; in
`AdmissionQueue` a poll is several steps with the mutex held.

**Attempts.** `runner[n]` is the position of the dispatched closure: `body`, `backoff`, `finishing`
(the body is over, the permit still held), `returned` (the permit dropped, the report not yet sent),
`gone`. `fate[n]` is the `AttemptFate` of a node with an unkillable deadline (`Guarded`): the closure
claims it on return (`BodyReturns`), the loop at the deadline, and whoever comes second is refused. A
panic claims nothing, and one while the inputs are resolved (`Fragile`) unwinds the whole closure
without a report. Its permit goes with it, unless the node has a deadline: then the permit is in a cell
that the timer's message holds too (driver.rs:2641-2660), the closure is `unwound`, and the permit is
given back when the loop drops that message at the end of its iteration (`timer[n] = "in-hand"`,
`DropMessage`), which is after `drain_pending` has looked at the waiters.
`Timed` nodes are await-bound and lose the race against their own timeout. `buffer[n]` holds the
closing events until the report.

**RunLoop.** `pc` is the point in `run_loop`. One step is one pass of one of its inner loops, because
between two passes another thread may drop a permit or send a message. `boot` is the time before the
waker is installed; `seed` the satisfied nodes of a resume; `frontier` the first offers; `top` the
head of the loop; `await` the `recv_next`; `cascade` and `apply` the tracker's call and
`apply_decisions`; `drain` is `drain_pending`; `leave` and `exit` the end; `teardown` runs one
teardown node after the other. `written` keeps the node-terminal records, `outcomes` the
attempt-outcome records (those of carried-forward nodes too), `terminal` the table `terminal_states`.
Abstracted: names, contexts, payloads, the queue-depth probe, and the lengths of times and delays (a
clock is unset, armed or passed), which only adds behaviours. Every teardown node has its runner and
covers the whole main graph; guarded nodes are not teardown nodes. Bodies do not watch the
cancellation signal: a body that does returns some result at some time, as every body here may. A
second signal has no effect here.

**OutputSlot.** The three counters and the flag of `Inner` are variables; who holds which lease is
kept beside them, so that the counters can be compared with the truth. `Take` and `Redeem` replace the
content before they look for other holders, as the code does: with another reference alive the call
panics there, the content gone and the books untouched, and `SlotBooks` and `InputStaysThere` say that
this does not happen. The value's type is left out.

**RunStore, RunArtifact.** A record keeps the fields the fold reads, and its offset is its position.
A transition's records are appended one by one; an append may fail with nothing, a part of the line or
the whole line short of its end written (`tail`), or be the last thing the process does. The reader
keeps an unended last line that parses (`Folds`); the next append to a partial one makes a line no
reader parses, and to a whole one likewise. The next run reads the fold of what is on disk, plans and
goes on. Figures that no writer supplies (slot residency, retained, pinned capacity, worker) are left out.

**RunDirectory.** One node's scratch; its calls do not overlap, as its attempts do not. A put is
create, sync, rename, sync of the directory, each able to fail; a kill stops it anywhere, a power loss
takes what was not synced in the live invocation. The copy of one file by a resume is one step; a copy
that fails ends the carry of this node alone, may leave its temporary file, and the invocation goes on
with what was copied. The syncing of parent directories is left out, and prune is another program's
act.

**PodWatch, PodBody, Remote.** The cluster is external: pods with phase, labels and deletion, and the
changes a watch would still deliver. Every call of the runner is a step that may fail, or succeed
with its answer lost; the orchestrator may die between any two and be started again by any build, which
discovers, adopts, refuses or relaunches. A build has the three surfaces that the code compares, and
each reader compares its own: the observer the structure (`Attributable`), the reader of a shard
structure and tool version (`Verified`), discovery these and the image (`Claim`). `Original` is the
build of the first start, `Build` those of the restarts. The end of a body and its shard are
one step, and a kill before or after it another. A pass over a listing is one step, stated attempt by
attempt: a name is unique, so a listing holds one pod of an attempt at most. Left out: a second pod
for one attempt under another object name, revocation by run identity, a body's skip; the run's
cancellation appears as giving up at any await, and a listing that fails at discovery only stops the
start.

**BlobStore, BlobReclaim.** A key is the digest of its bytes, so a key stands for its value. A call is
performed at one moment and answered at another; the bucket may refuse, be busy, lose the answer, or
say to any operation that it does not exist, which the code takes for an absent object (a 404 of any
kind: `NoBucket`). A mismatch is a mutation only where a hash was recorded (`Unhashed` are the others).
One output per run; artifacts are written by the pipeline's own code and retired by retention,
both external. A listing reads one entry per step.

**Metastore.** One row set per run with record numbers in it; `dag` rows and SQL text are left out. A
write transaction is computed before it has the lock; the lock is busy only while another process
holds it.

**Assembly.** Registrations in any order and with any handles; the problems are collected as in the
code; one `Pop` is one turn of the order loop. Groups, stable names, placement, backoff and timeout
policies and fingerprints are left out: no check reads them.

**CommandLine, Bootstrap.** Every flag is found by a scan of its own over all tokens, and the flow's
name by another; a text is a symbol (`"0"` below every bound, `"2"` above the fraction's). After the
settings come the probe, the opening of the stream, assembly, the refusals of `drive` (a placed node
without a cluster, a node larger than a pool), the loop with any outcome, the last flush and the exit
code. One behaviour is of one machine. Messages, logging, parameters, blob options, resume and the
artifact-only verbs are left out.

## 3. Runs

| Run | Instance | Shows |
|---|---|---|
| `readiness` | 4 nodes, ten pipelines (diamond, all rules, both edge kinds, names against the edges, a resumed chain, a teardown), every order of reports with repetition and any result | `NeverEarly`, `OriginIsACause`, `NothingStranded`, refinement of `RunContract` |
| `admission` | 5 nodes over 2 pools, one that needs all, one that no machine can run, one direct client; zombies and leases at any time | books: exact ledgers and honest zombies; no two-pool deadlock; served waiters when clients ask once |
| `run_stop` | 3 nodes (fork, contingency, chain, one under a teardown), a pool of 2, node 2 needs both, has two attempts and a timeout, node 1 is guarded, the inputs of nodes 1 and 3 may panic; stop mode; an interrupt at any moment | the loop's books, one truth per node, refinement of `RunContract`, inputs present, no start after a stop, and the drain ends even if no body returns |
| `run_ends` | 4 nodes, two guarded ones that may never return, one carried forward, one over-demand, two teardown nodes, one retried; continue mode | zombies kept until return, slots that agree with records, honest success, and the run ends |
| `slots` | 5 nodes: two leasing consumers of one value, an owner, a consumer without leases, a retained value | exact counters and ledger, no release under a reader, nothing kept too long |
| `resume_plan` | 4 nodes with data, ordering and teardown edges, every prior run, every set of lost references | the plan is the least complete one, inputs are provided, a refusal is demanded |
| `generations` | four runs of a durable producer and a consumer with one failed append and a kill anywhere; three invocations with two keys, two writes and one mishap | an honest artifact, a bounded critical path, the right inputs, a scratch that reads as last written, confined temp directories |
| `remote` | 2 attempts, 2 pods, 2 launches, one failure anywhere, restarts by the first build or by one that differs in structure, tool version or image | pods, log and reports agree; a success has a pod and a value behind it; endings are heard; other builds' pods are left alone |
| `blobs` | 2 keys, one recorded without a hash, 2 runs, a reclaim, a resume, 2 failures | verdicts are true, old references are kept |
| `metastore` | 2 live runs of 3 records, one sync, one failure, a file that is absent, old or new | no run ends well with rows missing; a sync that goes on converges |
| `front_end` | flows of 3 registrations; command lines of 3 tokens, 5 environments, 4 file systems, 2 builds, 5 machines, 3 pipelines | an accepted flow is runnable; a run starts, is refused and exits as asked |
| `hangs_on_gone` | `remote`'s instance | violated: a waiter hangs on a pod that is gone (observer.rs:716-719 says it cannot) |

The passing runs leave out what the code is known to get wrong, and nothing else: no pipeline with a
double edge (`Countable`), clients that ask once, `AllDecided` of runs whose drain deadline has not
passed, resumes in continue mode or of a single node, guarded nodes with one attempt where the run
must end, no `Fragile` node where it must end, no blocking teardown, no overlapping invocations, no
handle of another flow, `EndedIsHeard` of an attempt's first launch, `OldReferencesKept` of runs whose
stream was there when the reclaim began. For each of them there is an instance that shows what
happens otherwise; these are not among the runs:

| Instance | Property | What happens |
|---|---|---|
| `MCReadiness.cfg` with `Plans <- DoubleEdgePlans` | `NothingStranded` | consuming an upstream *and* being ordered after it counts it twice; the node is never decided |
| `MCAdmissionBypass.cfg` | `WaiterServed` | overlapping small nodes starve the oldest, large one |
| `MCAdmissionResidency.cfg` | `CountedWithinCapacity` | output residency pushes the counted memory over the total |
| `MCRunFindings.cfg` | `AllDecidedAlways` | a passed drain deadline leaves dependents and queued cancellations without a state |
| | `FailureByCause` | an interrupted run with only abandoned nodes exits as a run failure |
| | `CancelHeard` | an interrupt before the waker is installed is never heard |
| | `EveryAttemptRecorded` | reclassified and overtaken attempts are not closed in the stream |
| `MCRunResumedChain.cfg` | `StopNeedsFailure` | carrying a node and its upstream forward offers the node again, fails it and stops the run |
| `MCRunRetryHangs.cfg` | `RunEnds` | a retried attempt has no deadline; if it does not return the run does not end |
| `MCRunStop.cfg` with `Blocking = {3}` | `DrainEnds` | a teardown body that blocks is never timed out |
| `MCRunEnds.cfg` with `Fragile = {4}` | `RunEnds` | a panic while inputs are resolved is never reported |
| `MCResumePlan.cfg` | `NeverBoth` | a value is read back and recomputed |
| `MCRunStore.cfg` with `Overlap = TRUE` | `TempIsConfined` | the sweep takes the temp directory of a run that is going on |
| `MCRunStore.cfg` with `ScratchKey <- ClashingKeys` | `ScratchTells` | the empty key and a zero byte share a file |
| `MCBlobs.cfg` with `MaxFault = 0` | `ReferencesKept` | a run that starts after the walk loses a blob it re-put |
| `MCMetaFindings.cfg` | `OutputOnce`, `UpIsRunning`, `Gapless`, `AddedWhenAbsent` | hashless rows double; a run in flight reads as ended; a number is written twice; two openers race for a column |
| `MCFrontEnd.cfg` with `Foreign = {2}` | `AcceptedIsRunnable` | handles of another flow close a cycle or leave an edge out |
| `MCFrontEnd.cfg` with its invariants replaced | `RunsTheFlowNamed` | the value of `--dagr.executor` is taken for the flow's name |

(For a file with several invariants, check one at a time.)

**Bounds.** Three or four nodes are enough for two upstreams of one node to differ, for a cascade of
two levels, for a waiter behind a waiter, and for a node beside a zombie. Capacity 2 with costs 1, 2
and 3 gives a node that fits, one that fits alone and one that never fits. One interrupt
(`MaxRequests`) suffices because the trigger keeps the first origin and a draining loop drops the
rest. `MaxAttempts` is 1 or 2: the second attempt is the one without a deadline, a third adds
nothing new. `Results` in `generations` has a retried and a failed body; a chain of four runs is long
enough for a value carried forward twice. Two pods are an attempt's pod and its relaunch, or those of
two attempts; `MaxFault` names the failures explored at once, two where a retry needs two to run out.
`Length = 3` is a stream with a start, an output and an end. `MaxTokens = 3` is a flow's name, a flag
and its value, or a flag between others; `MaxDeclared` and `MaxAfter` allow every edge among three
nodes. Amounts of capacity are single digits; widths are left out there. Nothing else is bounded.

**Fairness.** The loop runs on a framework runtime with a worker of its own, and tokio's timers with
it, so `LoopStep` and `ClockPasses` are weakly fair (`LoopFair`). A runner past its body has no code of
a task left to wait for, and a deadline is a task of the framework runtime: `RunnersFair`. A body
without a deadline is assumed to return (`UnguardedReturn`; nothing in dagr forces it, and a run with
a body that never returns does not end unless it is drained). A guarded body need not. `DrainEnds`
uses `LoopFair` alone. In `ReadinessDriver`, every node handed out is reported in the end; in
`AdmissionQueue`, a client polls when something fits and closures return (strong fairness, because
the mutex is taken in between). In `Remote` only the observer's task and the waiting runner are fair:
the cluster owes nothing. `ObserverFairness` is weak fairness of `ObserverNext` with ENABLED written
out as the modes it can step in. In `Metastore` each process is weakly fair while it lives. Deadlock
checking is off because runs and processes stop when they are done.

## 4. Proofs

`ResourceProofs` proves of the admission controller, for any finite set of nodes, any pools,
capacities, costs and clients, that

- `LedgerTyped`: the state is well-typed, so the unsigned subtraction of `charge` never wraps;
- `LedgerExact`: `free[p]` plus the draw of the held permits is the total of every pool, the
  residency is what the leases pin, and each zombie record is of one held permit (`AdmissionBooks`);
- `WaitersAreIdle`: a waiter holds nothing and waits once;
- `NoTwoPoolDeadlock`: with no permit out, every waiter that can ever fit fits now.

All follow from one inductive invariant, `IInv`: typing, exact books, honest zombies and idle
waiters. Exactness alone is not inductive: `Drop` credits with saturation, and that the credit is not
cut off needs the draw of the *other* permits to be non-negative and the node's own draw to be among
the tokens (`DropIsExact`); that a poll keeps the books needs that a waiter is not already a holder
(`WaitersHoldNothing`), or admitting it would charge twice for one permit. Sums over a set of
holders are stated as cardinalities of a set of tokens, because induction over finite sets is out of
the prover's reach; `TokensAdd` and `TokensRemove` are the two facts about them. The assumptions are
`NodeAssumption`, `PoolAssumption` and `MemoryAssumption`.

It proves of the output slots, for any graph of consumers, any residency and any choice of owners
and leases, that

- `SlotBooksExact`: the three counters of a slot are the numbers of leases open, ended and returned,
  and the ledger is the sum of the bytes resident;
- `NeverReleasedUnderAReader`: no value goes while a lease on it, or a reference to it, is alive;
- `ReclaimedInTime`: a value that is not retained is gone once each of its consumers came and went.

The invariant (`SlotInv`) ties each counter to the cardinality of a set of leases. That the counts suffice for a
release needs that a lease, once entered, is either held or returned, so returns equal to consumers
means nobody is left; that an owner is the sole consumer (`SlotAssumption`, which assembly checks) is
what makes taking safe.

`ReadinessProofs` proves for any finite set of nodes, any pipelines and every order of reports that

- `TrackerTyped`: the tracker's state is well-typed;
- `GateNeverEarly`: a node is handed out only on the complete upstream picture;
- `VerdictOnce`: no node gets two verdicts, however often it or its upstreams are reported (a
  theorem only; no run checks it);
- `OriginIsTrue`: the identity in a propagated state is a cause of it;
- `ImplementsContract`: every step of the tracker is a step of `RunContract` or a stutter;
- `NobodyStranded`: if every pipeline is `Countable`, then with everything handed out reported and
  the call over, no node of the main graph is without a state.

The invariant (`IInv`) keeps a *book* for each node: the upstreams told to it are upstreams with a
state, no two entries name the same one, and countdown plus entries is the initial count. The entries
are counted as a set, so a countdown at zero means the set is everything (`CountedAll`), with double
edges as well: they make the count too large, never too small, so a rule never fires early on them.
That an entry is new needs `VisitsFresh`: the dependents still to be told do not know the popped
node yet. `WorkSound` says that every work item is one of the three ways `RunContract` lets a node
end; since states are never changed (`Keeps`), what was justified once stays so. `NobodyStranded`
adds `NobodyLost`: an upstream with a state is told or being told, and a node told of everything is
handed out or queued. Its assumption is `Countable`: no cycle, which registration by handles of
earlier nodes rules out; no upstream both consumed and ordered after, and no ordering after a teardown
node, which nothing in the code rules out (`DoubleEdgePlans` in section 3 and section 5 show what
happens).
`MCReadiness` checks that the explored pipelines satisfy it. The lemmas about the tracker alone come
first in the module; `RunProofs` rests on them as well. Assumptions on the constants:
`NodeAssumption` and `PlansAssumption`.

`RunStoreProofs` is about what runs leave for the next one. Of the planner it proves, for any graph
and any prior run, that

- `PlanIsTheLeastPlan`: the planner's result is a complete set, and inside every complete set;
- `EveryInputProvided`: every input of a node that runs again is recomputed, or was read back;
- `RefusalIsDemanded`: a refusal names a reference every complete plan has to read or replace.

The invariant has two halves. The must-run set never leaves any complete set (each step adds what
completeness demands), and what a pass has visited is closed under its rule as long as the set has not
grown since (`before`), so a round that changes nothing ends with a complete set. Nothing is assumed
of the graph: not even that it has no cycle.

Of a whole chain of runs (`RunStore`), for any pipelines, with kills at any moment, objects deleted in
between and any earlier run resumed, it proves

- `BodiesHaveTheirInputs`: a body that runs has the value of every input, made in this run or recorded
  by the run it resumes.

The invariant `ChainInv` carries the planner's result over to the run: until the launch, the store
holds under a reference the probe found whole the recorded value or, by then, nothing (`StillThere`;
the launch reads back and stops on a loss); after it, every input of a planned node is planned itself
or has its value back in its slot (`Supplied`); and a node of the plan that succeeded filled its slot
in this run (`BodiesOfPlan`).

Of what such a run leaves of itself, for any nodes and results, with an append that fails or is cut
short anywhere and a kill between any two records, it proves

- `StreamInvariant`: the inductive invariant below holds in every reachable state;
- `FoldTellsTheTruth`: the artifact folded from what is on disk is honest (`HonestArtifact`): a node
  it shows as succeeded did succeed in this run, and its reference and the outputs are values of this
  run; while no append is lost, no success is missing once the run has finished, and each output is of
  a listed attempt that succeeded.

The invariant, `StreamInv`, is about the records on disk *and* those of the transition being
written, since a kill leaves any prefix. Each record that claims a success or an output is of a body that
ran (`AllTruthful`); before an output stands the record of the attempt it is of (`Backed`), so a prefix
is backed as well; the end of the run is written alone and after everything is decided
(`FinishIsLast`); and as long as no append was lost, each decided node's last attempt is on disk or
about to be (`NothingLost`), which `Tell` says of the joined sequence. An append that is lost makes the
fold say less, never something else. On the side of the fold, the attempts of a node are its
attempt records in the order of their positions: `Nth` picks the k-th member of a set of positions by
counting those before it, `PlacesInOrder` says every member has such a place, and
`AttemptsAreOutcomes` and `ReportsTell` take what the invariant says of positions over to the artifact.

Of the index (`Metastore`), for any runs, syncs, lengths, tries and failures, it proves

- `NothingIsSwallowed`: a run whose sink ends without a failure has all its attempts and its end in the
  index, whoever else writes to the file, however often the lock is busy, and whatever dies.

What makes it true is spread over three parties, and so is the invariant (`MetaInv`): a sink without
a fault has every record the file has (`SinkInv`), so its last projection is complete; between the
step that computes a projection and the commit that writes it, nothing may be added to that sink
(`JobInv`, because the emit waits for the worker); and the rows of a run only grow (`RowsGrow`), so an
older projection of a sync that commits later takes nothing away: another process changes the run's
state to an end only.

`StorageProofs` is about the directories and the blobs. Of the directories (`RunDirectory`), for any number of invocations, it proves

- `EachKeepsItsTemp`, when invocations follow each other (`~Overlap`): an invocation keeps the temp
  directory it made, and a finished sweep leaves none it could have removed. The invariant counts on
  one process at a time and says that what a sweep has still to visit covers all that is left over.
  With overlap the property is false, which is a finding;
- `ReadsTellTheTruth`, when no two keys share a file name (`NoClash`: the empty key and the key of one
  zero byte are the only two that do, which is a finding): a read finds the value last written or
  carried, or the one being written, whole, after any kill or power loss. The invariant says where an
  operation stands between temporary file, sync, rename and the directory's sync, that what takes a
  name has been synced, and what a carry has copied so far. Overlap is allowed here.

Of the blob store (`BlobStore`, and `BlobReclaim` over it), for any objects, runs, tries and failures,
it proves

- `StoreTellsTheTruth`: a put, get or head that is over says of its object something that was so while
  it was out, or that it failed, over retries, lost answers and other clients; and a resume is refused
  for a blob only because that was missing or damaged while it looked;
- `ReclaimKeepsOldReferences`: no step deletes a good blob that a run which existed when the reclaim's
  walk began has recorded, as long as that run's directory is kept. For the other runs the property is
  false (`ReferencesKept`), which is a finding.

The invariant (`BlobInv`) has two halves. `CallOK` says that a call has witnessed what its object is
*now* and what the store found when it performed it (`was` only grows, a retry keeps it), so that what
is answered later was so; with `Roles`, who asks for what, this is also what `ResumeKnows` of the blob
it probes and then reads. `ReclaimInv` says that each run the walk has passed was folded by then
(otherwise the reclaim refuses), and so can record no more, and that all it recorded is reachable
(`SeenBy`); when the walk is over this is so of all runs it began with, and what is to be deleted was
listed outside the reachable set. The code's order, walk, then list, then delete, is used in each step.

`RunProofs` proves of the run loop with its threads, its queue, its clocks and its signals, for any
nodes, pipelines, costs, capacities, retry budgets, deadlines and failure modes, that

- `RunInvariant`: the inductive invariant below holds in every reachable state;
- `RunTypesHold`: the state is well-typed (the in-flight count never goes below zero);
- `BooksAreRight`: the in-flight count is the nodes whose answer is still to come, in the queue or
  from a closure, so the loop neither ends early nor waits for an answer nobody will send;
- `ZombiesAreHonest`: a permit is charged exactly while its closure runs (or has unwound and its cell
  is still in the deadline's message), and the zombies are the timed-out ones among those;
- `StopIsObeyed`: once the run is stopping no default-rule node starts, once it drains nobody does.

The invariant is `RunInv`, with these parts:

- `TrackerInv` is the tracker's part of the invariant of `ReadinessProofs`, stated over
  the tracker alone so that both proofs use it: the loop obeys the tracker's contract only because
  it reports each node once, and reports it once only because of the next part.
- `OneHand`: a node the tracker handed out is in exactly one of the places the loop keeps nodes in
  (the frontier still to be offered, the decisions to apply, the waiters, a report in the queue, a
  closure). Without it a report could be counted twice, and a node could be launched twice.
- `Closures`: live closures and overtaken ones are disjoint, every busy thread is one of the two, and
  a started node that is no longer live has its state. It separates the one answer that counts from
  the late answer of a closure the deadline overtook.
- `InFlight`: the count is the live closures plus the queued reports of nodes that are in neither set.
  A report of a live closure sits in the queue *and* keeps the closure live, so the obvious equation
  (closures plus reports) is wrong; the loop checks `live` before it takes one off.
- `Ledger`: permits are the tokens of the threads at work and of the cells that outlive their closure
  (`Charged`), which makes the saturating credit exact.
- `Stops`: nobody waits in a drain and no default-rule node in a stop. `NoStartAfterStop` is not
  inductive without it, since a node that waits could be admitted later.
- `Points` and `Budget`: what the loop's program counter says of its agenda, and what the place of a
  thread says of its attempt and its result.

The proof has one lemma per step of the loop or of a thread. Queue and line lemmas (`QueueGrows`,
`QueueShrinks`, `LineSplits`, `LineReports`) say what one send, one receive and one pass over the
waiters do to the sets the invariant is about; `DrawsTyped`, `AdmitsLedger`, `DropsLedger` and
`MarksLedger` say what the controller's operations do to the ledger. The assumptions are
`NodeAssumption`, `PlansAssumption`, `PoolAssumption`, `AttemptsAssumption` and `RunLoopAssumption`.

The second part of `RunProofs` is about what the run *says* of its nodes. For any nodes, costs,
capacities, budgets, deadlines and failure modes, and every set of pipelines whose carried-forward
nodes have no upstream (`SoundResume`),

- `TruthInvariant`: the inductive invariant below holds in every reachable state;
- `OneTruthHolds`: a node's record in the stream, its entry in the run's table, what its dependents
  were told and the records of its attempts agree, and there is one record each;
- `SlotsMatchRecords`: a filled slot never contradicts a record, however late its closure;
- `ConsumersAreFed`: when the body of a default-rule node runs, every value it consumes is there;
- `StopsForAReason`: a run is cancelled for a failure only if a node failed;
- `RunKeepsContract`: every step of the loop, of a thread, of a clock and of a signal is a step of
  `RunContract` or a stutter;

and, if every pipeline is `Countable` as well,

- `EveryoneIsDecided`: when the main graph is over every node of it has a state, but for those the
  drain deadline cut off before they started, and at the end every teardown node has one;
- `SuccessHidesNothing`: a run that exits as a success decided every node, and none of them failed.

Both hypotheses are needed: the code violates `StopNeedsFailure` without the first
(`MCRunResumedChain.cfg`), and without the second a node of a double edge never gets a state
(`DoubleEdgePlans`). The invariant, `Truth`, is `RunInv` with these parts:

- `Agree`: a state the tracker took over (`decided`) is one the loop *knows*: recorded, or in a
  decision it has yet to apply; and what the loop recorded, the tracker took over or has on its work
  list. A propagated decision is the verdict of its node, and its upstreams are recorded or come
  earlier in the list (`Inherits`). The tracker's table and the run's are two; between a report and
  the last decision they differ, and this says by how much. It is what makes the loop's step a step of
  the contract: the gate is about the tracker's table there and about the run's here.
- `Undecided`: a node in a hand (`OneHand`) has no state yet, so nothing is recorded twice. A late
  report of an overtaken closure is in the queue but in no hand.
- `Carried`, `CleanUpLast`, `Calm`: the same for the nodes that are in no hand (carried forward, of the
  teardown phase), and that the tracker owes nothing between two calls.
- `Recorded`, `Buffers`, `Outcomes`: the stream's record is the table's entry; the records a closure
  has buffered are those of its attempts so far, in order, and the last one is closed as the result
  says. A deadline that overtakes the closure writes one of its own instead of them.
- `Slots`, `Messages`: a value is in a slot only if its body claimed completion before the deadline
  did, and a report says succeeded exactly if there is one. The late-result barrier is needed here.
- `Reasons`: a drain has a cause; `Standing`: who timed out has lost its fate cell; `Prior`:
  only carried-forward nodes are satisfied by a prior run.

For the last two theorems there are three more: `NobodyLost` (the tracker's, of `ReadinessProofs`),
`NobodyDropped` (as long as the loop receives, whoever was handed out has a state or is in a hand) and
`Finished` (the loop is left when every node has a state or the drain deadline has passed). The
argument is at `EmptyMeansDone`: with nothing in flight no closure is live and every report left is an
overtaken one (`NothingInFlight`, from the pairing of `RunInv`), so no hand holds anybody, so all that
were handed out have a state, and in a still tracker that lost nobody those are all nodes
(`StillMeansDone`). All invariants were checked on the instances of the runs before they were proved.

`RemoteProofs` is about a node that runs in pods. For any number of attempts, of pods and of launches,
any calls that fail or whose answer is lost, any bodies that are killed, overtaken or never return,
and any deaths and restarts of the orchestrator, by any builds,

- `RemoteInvariant`: the inductive invariant below holds in every reachable state;
- `BooksCountPods`: no pod exists that the submission log does not announce, and one orchestrator is
  told the end of each pod at most once;
- `StreamTellsTheTruth`: a success in the stream has an attempt whose pod ended in success and whose
  value is in the container;
- `OthersAreLeftAlone`: no step disowns or deletes a live pod of another build.

The invariant, `RemoteInv`, has these parts:

- `Cluster`: an attempt has one pod in the cluster at most, and it is the newest ever made for it.
- `InLog`: the log has room for the pods that exist and, between the record and the create, for one
  more. Announcing and creating are two calls and either may be lost, so the bound alone is not
  inductive.
- `FeedInv`: the changes still to come are in the order of their pods, and none is about a pod older
  than the one the observer is finished with. So the single object identity `finished` is enough to
  recognise what it was told before.
- `Counts`: each end that was told has *spent* a pod: it is the finished one, or the observer will not
  be told of it again or will not heed it (`Quiet`). An attempt that vanished from a listing is
  finished by name, without a pod; that an attempt that was seen and has not ended has a pod left to
  spend is what pays for it. At a shut-down the books close.
- `Heard`: a success that is in the feed, in a buffer or in the mail was one in the cluster; phases
  do not go back from it.
- `Files`: a file that records an output has its value in the container, whatever killed the body.
- `Hand`: what the runner has in hand at each point, such as that a claim of success between the
  conclusion and the flush is backed by a pod and, with a reference, by a value.
- `Respect`: a claim that was not refused has no live pod of another build, from discovery on. This is
  a fact about the time since the discovery: a pod is made only by this orchestrator, which is one
  build, and a restart discovers again. It rests on discovery's comparison of all three surfaces: the
  observer's own would let a pod of another image through.

The observer's steps are taken apart by attempt: `TellsEach` says what one pass over a listing or a
change tells one attempt, and `TellsCounts` that its count grows only with a pod newly spent. The
runner's steps are grouped by what they leave alone (`OnwardsKeeps`, `OutsideKeeps`). The assumptions
are `WatchAssumption` (identifiers and attempts are numbers, given in order; a name is no identifier)
and `RemoteAssumption`; neither bounds the failures.

`FrontEndProofs` is about what comes before a run. For any number of registrations, names, bindings
and policies, and a builder whose handles are all its own (`Foreign = {}`), it proves

- `AcceptedPipelineRuns`: a flow that `assemble` accepts is one a run can execute
  (`AcceptedIsRunnable`): every node has a place, each after all it names and ties broken by name, and
  a value taken by ownership has one consumer, which is never retried.

The hypothesis is needed: with a handle of another flow the code accepts a flow whose order leaves
nodes out (section 3). The invariant, `AssemblyInv`, says of the builder that a name with one
registration was declared at one position (`Counted`) and that a node names only what was declared
before it (`Backward`); of the order loop that the indegree of a node is the number of upstreams not
yet placed (`Underway`) and that each place was taken by the least node that could be next (`Greedy`).
That the loop ends only when all are placed is the argument about the *first* declared node left over:
all its upstreams were declared before it, so they are placed, so its indegree is zero, so it is
ready. The cycle problem of `assemble` is therefore never raised without a foreign handle.

Of the command line it proves, for any tokens, environments, files, builds, machines and pipelines,

- `CommandRunsAsAsked`: `RunsAsAsked`: a run that starts has in each knob the strongest of what the flag,
  the environment and the profiles say, no node that goes over what the machine offers, and no empty
  pool that was not asked for; a refusal for usage or at bootstrap has a cause in what was asked, and
  the exit of a run says what happened in it.

The invariant, `CommandInv`, has the settings read so far honoured, in the order in which the code
reads them (`Settled`, by the rank of a knob), the place in the start agreeing with what was asked and
left behind (`Route`), the pools (`Sized`), and what a run that is refused or over was refused for
(`Held`). Assumed are the types of tokens, environments, machines and
pipelines, that the text of a setting is not the symbol for an unset one (`TextAssumption`), that a
verb is one of those the code tells apart, one it does not know, or none (`VerbAssumption`), and that
an unconstrained pool holds any node (`PipelineAssumption`).

The assumptions are the named `ASSUME`s of the modules; TLC evaluates them in the passing runs.
`CommonLemmas` holds what every proof needs: cardinalities of token sets, least positions, and what
appending to, joining and removing from a sequence do to its elements.

Only model-checked: everything under fairness (`WaiterServed`, `DrainEnds`, `RunEnds`,
`EndedIsHeard`, `FollowConverges`), since the prover has no rule for ENABLED here; and
`PathIsBounded`, because the critical path of a fold and the longest path of a graph are computed by
recursion over the records and the nodes, and what they compute for every input is an induction over
data. Every other property of the passing runs is a theorem.

## 5. Observed without a run or an instance

Beside the findings of `PROJECT.json`:

- A node ordered after a teardown node waits for a report the tracker never makes
  (readiness.rs:391, 419, 431).
- The decisions of one `notify_terminal` come in the order of the work list, not in the
  "deterministic name order" its comment promises (readiness.rs:512).
- `apply_decisions` offers a newly ready node before the older waiters, so it can be admitted past
  one that has been waiting (compare the comment of `drain_pending`, driver.rs:3026).
- When the grace period for a zombie passes, all waiters are failed, those included that fit and
  those whose zombie has returned meanwhile (driver.rs:2155).
- `zombie-at-exit` is written for every candidate, also for closures that have returned
  (driver.rs:2372; event_stream.rs:1062 speaks of a thread still running).
- A deadline that fires in a drain is recorded as cancelled, so its closure is no candidate.
- A body that panics leaves the fate cell running, so a deadline can claim a finished attempt
  (driver.rs:987).
- A sink fault in the middle of a run is passed over (`let _ = writer...`); only the last flush is
  reflected in the exit.
- A skipped body closes its attempt with a failed outcome (driver.rs:2574); only the node's state
  tells the two apart.
- The resume verb's artifact names its lineage `parent_run_id` and `lineage_root_run_id`
  (contract.rs:1485), the event stream's header and the fold `run_id` (event_stream.rs:1305,
  fold.rs:811), so a resume of a folded artifact does not find the root (contract.rs:1443).
- The sleep between two launches of a pod ignores the run's cancellation (k8s_runner.rs:511).
- A pod created, ended and removed before the observer's first listing is never reported.
- The put of a file under the local blob store and under scratch syncs the innermost directory only,
  after creating several.

## 6. Not modelled

- Rendering, the graph artifact and fingerprints (C20, C21, C24): pure formatting of a finished value.
- Macros, test kit, demos and benches (C28): code generation, test support and examples.
- Contexts, errors and metrics (C8, C9): data carried by one attempt. What a body does with the
  cancellation signal is any behaviour here; that later attempts do not get it is a finding.
- Execution surfaces (C13): each dispatched attempt is a thread of its own; the sizes of the pools and
  the shutdown of the runtimes are not modelled.
- The forced round trip of values, the refusals of `run_placed`, the artifact-only verbs, the words of
  every message.

What would come next: liveness of a run whose nodes are remote, by composing `Remote` with `RunLoop`.
