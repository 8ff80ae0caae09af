------------------------------- MODULE Remote -------------------------------
(***************************************************************************)
(* One placed node driven through the cluster: the runner of                *)
(* dagr_cli::k8s_runner over the shared observer, the write-ahead           *)
(* submission log, the pod's own body (dagr_cli::exec_node) with its        *)
(* attempt shard, and the adoption of a dead orchestrator's pods.           *)
(*                                                                         *)
(* Every call to the cluster or to the disk is a step of its own and may    *)
(* fail; the orchestrator may die between any two and be started again      *)
(* under the same run id, by the same build or by another one.              *)
(***************************************************************************)
EXTENDS PodWatch, PodBody

CONSTANTS MaxLaunch,  \* launch_retries + 1
          Bounded,    \* TRUE when the node's policy declares a timeout
          MaxFault    \* failures of a call, evictions and deaths explored

ASSUME RemoteAssumption ==
    /\ MaxLaunch \in Nat \ {0} /\ Bounded \in BOOLEAN /\ MaxFault \in Nat
    /\ IsFiniteSet(Attempt) /\ Attempt # {} /\ Attempt = 1..Cardinality(Attempt)

VARIABLES pc,       \* where the runner is
          attempt,  \* the attempt it is at
          launch,   \* the submission of that attempt it is at
          claims,   \* Adoptions: the attempts discovery reclaimed or refused
          after,    \* what follows this step, or how the attempt's pod ended
          fatal,    \* the last reading was a pre-start failure
          reference,\* the last shard believed recorded an output
          announced,\* durable: the write-ahead submission records, by attempt
          shard,    \* durable: the attempts' shard files, as their lines
          values,   \* durable: the attempts whose value the blob container holds
          buffer,   \* the attempts' records the driver has not written yet
          stream,   \* durable: the attempts' records, then the node's state
          faults

runner == <<attempt, launch, claims, after, fatal, reference, buffer>>
durable == <<announced, shard, values, stream>>
vars == <<cluster, core, routes, pc, runner, durable, faults>>

\* A call fails: one of the failures the bound allows
Fails == faults < MaxFault /\ faults' = faults + 1
Fine == UNCHANGED faults

Holder(a) == {u \in Held : pods[u].attempt = a}  \* at most one: a name is unique

-----------------------------------------------------------------------------
(* Discovery: what a started orchestrator makes of the pods it finds *)

\* Mutant: a live pod is claimed as the observer attributes it, by its structure
ClaimAttributable(a, unpatched) ==
    IF a \in unpatched THEN "none"
    ELSE IF \E u \in Holder(a) : Attributable(pods[u], build) THEN "adopted"
    ELSE IF \E u \in Holder(a) : Ours(pods[u]) THEN "refused"
    ELSE "none"

\* Adoption compares all three surfaces of the build; an unpatched pod is left to
\* the submission probe
Claim(a, unpatched) ==
    IF a \in unpatched THEN "none"
    ELSE IF \E u \in Holder(a) : Ours(pods[u]) /\ pods[u].build = build THEN "adopted"
    ELSE IF \E u \in Holder(a) : Ours(pods[u]) THEN "refused"
    ELSE "none"

Discover ==
    /\ pc = "discover" /\ pc' = "launch"
    /\ \E unpatched \in SUBSET {a \in Attempt : Claim(a, {}) = "adopted"} :
         /\ IF unpatched = {} THEN Fine ELSE Fails
         /\ claims' = [a \in Attempt |-> Claim(a, unpatched)]
    /\ UNCHANGED <<attempt, launch, after, fatal, reference, buffer, durable, cluster, core, routes>>

-----------------------------------------------------------------------------
(* One launch: claim, waiter, probe, write-ahead record, create, second record *)

Ends(state) == pc' = "flush" /\ after' = state /\ UNCHANGED launch

\* The next submission of the attempt, or LaunchExhausted
Relaunch ==
    IF launch < MaxLaunch
    THEN pc' = "launch" /\ launch' = launch + 1 /\ after' = "none"
    ELSE Ends("failed")

TakeClaim ==
    /\ pc = "launch" /\ Fine
    /\ claims' = [claims EXCEPT ![attempt] = "none"]
    /\ \/ /\ claims[attempt] = "refused" \/ mode = "failed"
          /\ Ends("failed") /\ UNCHANGED routes
       \/ /\ claims[attempt] # "refused" /\ mode # "failed"
          /\ Register(attempt) /\ UNCHANGED launch
          /\ IF claims[attempt] = "adopted"
             THEN pc' = "announce" /\ after' = "adopt"
             ELSE pc' = "probe" /\ after' = "none"
    /\ UNCHANGED <<attempt, fatal, reference, buffer, durable, cluster, core>>

\* The submission probe reads the attempt's object by its name
Probe ==
    /\ pc = "probe"
    /\ \/ /\ Fine /\ UNCHANGED <<launch, routes>>
          /\ IF \E u \in Holder(attempt) : pods[u].complete
             THEN pc' = "patch" /\ after' = "replace"
             ELSE pc' = "announce" /\ after' = IF Holder(attempt) = {} THEN "create" ELSE "adopt"
       \/ Fails /\ Relaunch /\ Unregister
    /\ UNCHANGED <<attempt, claims, fatal, reference, buffer, durable, cluster, core>>

Submits == pc' = (IF after = "adopt" THEN "note" ELSE "create") /\ after' = "none"

\* Mutant: the pod is submitted without its record
AnnounceLater ==
    /\ pc = "announce" /\ Fine /\ Submits
    /\ UNCHANGED <<attempt, launch, claims, fatal, reference, buffer, durable, cluster, core, routes>>

\* The write-ahead record; without it nothing is submitted
Announce ==
    /\ pc = "announce"
    /\ \/ /\ Fine /\ Submits
          /\ announced' = [announced EXCEPT ![attempt] = @ + 1]
          /\ UNCHANGED <<launch, routes>>
       \/ Fails /\ Ends("failed") /\ Unregister /\ UNCHANGED announced
    /\ UNCHANGED <<attempt, claims, fatal, reference, buffer, shard, values, stream, cluster, core>>

NewPod == [Unborn EXCEPT !.attempt = attempt, !.here = TRUE, !.build = build, !.owned = TRUE]
Spare == {u \in Uid : pods[u].attempt = None}  \* Uid bounds the pods made
Creates ==
    /\ Holder(attempt) = {}
    /\ \E u \in Spare : (\A v \in Spare : u <= v) /\ Changes(u, NewPod, "Added")

Create ==
    /\ pc = "create"
    /\ \/ Fine /\ Creates /\ pc' = "note" /\ UNCHANGED <<launch, after, routes>>
       \/ \* refused, or the name is still taken
          /\ IF Holder(attempt) = {} THEN Fails ELSE Fine
          /\ Relaunch /\ Unregister /\ UNCHANGED cluster
       \/ \* created, and the answer is lost
          Fails /\ Creates /\ Relaunch /\ Unregister
    /\ UNCHANGED <<attempt, claims, fatal, reference, buffer, durable, core>>

\* The second record, with the object's name; then the wait begins
Note ==
    /\ pc = "note"
    /\ \/ Fine /\ pc' = "await" /\ UNCHANGED <<launch, after, routes>>
       \/ Fails /\ Ends("failed") /\ Unregister
    /\ UNCHANGED <<attempt, claims, fatal, reference, buffer, durable, cluster, core>>

-----------------------------------------------------------------------------
(* The wait for the pod *)

Hears ==
    /\ pc = "await" /\ mail # <<>> /\ Fine
    /\ LET news == Head(mail)
       IN \/ news.vanished /\ Relaunch /\ Unregister /\ fatal' = FALSE
          \/ /\ ~news.vanished /\ news.phase \in Ended
             /\ pc' = "conclude" /\ after' = news.phase /\ fatal' = FALSE
             /\ Unregister /\ UNCHANGED launch
          \/ /\ ~IsFinal(news)
             /\ fatal' = (news.phase = "Stuck") /\ mail' = Tail(mail)
             /\ UNCHANGED <<pc, launch, after, live, pending, ear, finals>>
    /\ UNCHANGED <<attempt, claims, reference, buffer, durable, cluster, core>>

WaiterCloses ==
    /\ pc = "await" /\ Closed /\ Fine
    /\ Ends("failed") /\ Unregister /\ fatal' = FALSE
    /\ UNCHANGED <<attempt, claims, reference, buffer, durable, cluster, core>>

\* The run is cancelled, the budget has run out, or the pod never starts
GivesUp ==
    /\ pc = "await" /\ pc' = "patch" /\ Fine
    /\ \/ after' = "cancelled"
       \/ Bounded /\ after' = "timed-out"
       \/ fatal /\ after' = "relaunch"
    /\ fatal' = FALSE
    /\ UNCHANGED <<attempt, launch, claims, reference, buffer, durable, cluster, core, routes>>

-----------------------------------------------------------------------------
(* Revocation: clear the owner, then delete, by name; both are best effort *)

Patched(field, value) ==
    IF Holder(attempt) = {} THEN UNCHANGED cluster
    ELSE \E u \in Holder(attempt) : Changes(u, [pods[u] EXCEPT ![field] = value], "Modified")

PatchOwner ==
    /\ pc = "patch" /\ pc' = "delete"
    /\ \/ Fine /\ Patched("owned", FALSE)
       \/ Fails /\ UNCHANGED cluster
    /\ UNCHANGED <<runner, durable, core, routes>>

Delete ==
    /\ pc = "delete"
    /\ \/ Fine /\ Patched("dying", TRUE)
       \/ Fails /\ UNCHANGED cluster
    /\ CASE after = "replace" -> /\ pc' = "announce" /\ after' = "create"
                                 /\ UNCHANGED <<launch, buffer, routes>>
         [] after = "relaunch" -> Relaunch /\ Unregister /\ UNCHANGED buffer
         [] after = "cancelled" -> Ends("cancelled") /\ Unregister /\ UNCHANGED buffer
         [] after = "timed-out" -> /\ pc' = "retry" /\ Unregister /\ UNCHANGED <<launch, after>>
                                   /\ buffer' = Append(buffer, <<attempt, "timed-out">>)
    /\ UNCHANGED <<attempt, claims, fatal, reference, durable, core>>

-----------------------------------------------------------------------------
(* A finished pod: believe its shard as far as its phase allows *)

\* Mutant: the shard is believed whatever became of the pod
ShardAlone(found, phase) == IF found.state = "unreadable" THEN "failed" ELSE found.state

\* A missing, torn or foreign shard is a failure, and so is a success the pod's
\* phase denies
Verdict(found, phase) ==
    IF found.state = "unreadable" \/ (phase = "Failed" /\ found.state = "succeeded")
    THEN "failed" ELSE found.state

\* What the runner replays: the shard's own records, or a failure of its own
Reports(found, phase) ==
    IF Verdict(found, phase) = found.state THEN Replayed(found) ELSE <<"failed">>

Conclude ==
    /\ pc = "conclude" /\ pc' = "tombstone" /\ Fine
    /\ LET found == ReadShard(shard[attempt], build)
           told == Reports(found, after)
       IN /\ after' = Verdict(found, after)
          /\ reference' = (found.output /\ after' = "succeeded")
          /\ buffer' = buffer \o [i \in DOMAIN told |-> <<attempt, told[i]>>]
    /\ UNCHANGED <<attempt, launch, claims, fatal, durable, cluster, core, routes>>

Tombstone ==
    /\ pc = "tombstone" /\ pc' = "retry"
    /\ \/ Fine /\ Patched("complete", TRUE)
       \/ Fails /\ UNCHANGED cluster
    /\ UNCHANGED <<runner, durable, core, routes>>

\* A success must land its value in the node's slot: its shard recorded none, or
\* the value cannot be read or decoded, and the node has failed
Lands(state) ==
    IF state # "succeeded" \/ reference
    THEN (Fine /\ after' = state) \/ (state = "succeeded" /\ Fails /\ after' = "failed")
    ELSE Fine /\ after' = "failed"

\* The node's own budget: only an attempt that ran may use it up
Retry ==
    /\ pc = "retry"
    /\ IF after \in {"failed", "timed-out"} /\ attempt + 1 \in Attempt
       THEN pc' = "launch" /\ attempt' = attempt + 1 /\ launch' = 1 /\ after' = "none" /\ Fine
       ELSE pc' = "flush" /\ Lands(after) /\ UNCHANGED <<attempt, launch>>
    /\ UNCHANGED <<claims, fatal, reference, buffer, durable, cluster, core, routes>>

\* No runner is at work: none has started yet, or it is gone
Fresh ==
    /\ attempt' = 1 /\ launch' = 1 /\ after' = "none" /\ buffer' = <<>>
    /\ claims' = [a \in Attempt |-> "none"] /\ fatal' = FALSE /\ reference' = FALSE

\* The driver writes what the attempts reported and the node's state; with its
\* only node ended the run is over, and the observer is shut down
Flush ==
    /\ pc = "flush" /\ pc' = "done" /\ Fine
    /\ stream' = stream \o Append(buffer, <<None, after>>)
    /\ Fresh /\ Forgets("stopped")
    /\ UNCHANGED <<announced, shard, values, build, pods, finals>>

\* The orchestrator dies and is started again, by any build: the same, another, or
\* an earlier one again
Restart ==
    /\ pc \notin {"discover", "done"} /\ Fails
    /\ pc' = "discover" /\ Fresh
    /\ build' \in Build
    /\ Forgets("list") /\ finals' = [a \in Attempt |-> 0]
    /\ UNCHANGED <<pods, durable>>

-----------------------------------------------------------------------------
(* The pods *)

Outside == UNCHANGED <<pc, runner, announced, stream, core, routes>>

Schedule(u) ==
    /\ u \in Held /\ pods[u].phase \in {"Pending", "Stuck"} /\ ~pods[u].dying /\ Fine
    /\ \E phase \in {"Stuck", "Running"} \ {pods[u].phase} :
         Changes(u, [pods[u] EXCEPT !.phase = phase], "Modified")
    /\ UNCHANGED <<shard, values>> /\ Outside

\* The body ends; a pod that is dying was told to terminate.  A shard replaces
\* the attempt's file whole or not at all.
Leaves(u, end) ==
    /\ shard' = IF end.file = Missing THEN shard
                ELSE [shard EXCEPT ![pods[u].attempt] = end.file]
    /\ values' = IF end.stored THEN values \cup {pods[u].attempt} ELSE values
    /\ Changes(u, [pods[u] EXCEPT !.phase = PhaseOf(end.exit)], "Modified")

Leave(u) ==
    /\ u \in Held /\ pods[u].phase = "Running"
    /\ \/ Fine /\ \E end \in Ordinary(pods[u].build, pods[u].dying) : Leaves(u, end)
       \/ Fails /\ \E end \in Faulty(pods[u].build, pods[u].dying) : Leaves(u, end)
    /\ Outside

\* A deleted pod goes, and so may any pod when its machine does
Go(u) ==
    /\ u \in Held /\ IF pods[u].dying THEN Fine ELSE Fails
    /\ Changes(u, [pods[u] EXCEPT !.here = FALSE], "Deleted")
    /\ UNCHANGED <<shard, values>> /\ Outside

-----------------------------------------------------------------------------

RunnerNext ==
    \/ Discover \/ TakeClaim \/ Probe \/ Announce \/ Create \/ Note
    \/ Hears \/ WaiterCloses \/ PatchOwner \/ Delete
    \/ Conclude \/ Tombstone \/ Retry \/ Flush

PodNext == \E u \in Uid : Schedule(u) \/ Leave(u) \/ Go(u)

\* An outage of the watch, however many calls it fails, is one fault
Observing ==
    /\ ObserverNext
    /\ IF misses = 0 /\ misses' = 1 THEN Fails ELSE Fine
    /\ UNCHANGED <<pc, runner, durable>>

Next == RunnerNext \/ GivesUp \/ Restart \/ Observing \/ PodNext

Init ==
    /\ build = Original /\ pods = [u \in Uid |-> Unborn] /\ ObserverInit
    /\ pc = "discover" /\ attempt = 1 /\ launch = 1
    /\ claims = [a \in Attempt |-> "none"] /\ after = "none" /\ fatal = FALSE /\ reference = FALSE
    /\ announced = [a \in Attempt |-> 0] /\ shard = [a \in Attempt |-> Missing] /\ values = {}
    /\ buffer = <<>> /\ stream = <<>> /\ faults = 0

Spec == Init /\ [][Next]_vars

\* A runner that waits is polled.  A body may run for ever, a deleted pod may
\* linger, nobody need cancel, and no call need succeed.
Fairness == ObserverFairness /\ WF_<<pc, mail>>(Hears \/ WaiterCloses)
FairSpec == Spec /\ Fairness

-----------------------------------------------------------------------------
(* Properties *)

PodsOf(a) == {u \in Uid : pods[u].attempt = a}

\* No pod exists that the write-ahead submission log does not announce, whatever
\* call failed and however often the orchestrator died (launch_once's order of
\* record and create, k8s_runner.rs).
Announced == \A a \in Attempt : Cardinality(PodsOf(a)) <= announced[a]

\* One orchestrator is told of the end of each pod of an attempt at most once:
\* a late event, a listing that no longer holds the pod and the deletion after
\* the end add nothing (the retirement of observer.rs).
FinalOnce == \A a \in Attempt : finals[a] <= Cardinality(PodsOf(a))

\* The cluster, the log and the reports count the same pods: none is unannounced
\* and none is reported twice.
PodBooks == Announced /\ FinalOnce

\* A node the run's stream calls succeeded has succeeded in the cluster and has a
\* value: some attempt of it has a pod that ended in phase Succeeded, and a value
\* in the container, over restarts, adoption, lost pods and a watchdog that
\* overtakes its body (conclude and land_output, k8s_runner.rs and remote.rs).
SuccessIsBacked ==
    \A i \in DOMAIN stream :
        stream[i] = <<None, "succeeded">> =>
            \E a \in values : \E u \in PodsOf(a) : pods[u].phase = "Succeeded"

\* A live pod another build launched, be it one of the same structure that the
\* observer attributes to this run, is neither disowned nor deleted by this
\* orchestrator (the refusal of adoption, k8s/adoption.rs).
OtherBuildsUntouched ==
    [][\A u \in Held : Ours(pods[u]) /\ pods[u].build # build /\ pods'[u].here =>
         pods'[u].owned = pods[u].owned /\ pods'[u].dying = pods[u].dying]_vars

\* A runner at an attempt's first launch that waits while its pod has ended goes
\* on, or the pod is removed: the observer's task, its reconnects, its stall
\* bound and the buffer for late waiters lose no ending (pod_observer.rs).
EndedIsHeard ==
    (/\ pc = "await" /\ launch = 1
     /\ \E u \in Holder(attempt) : Attributable(pods[u], build) /\ pods[u].phase \in Ended)
        ~> (pc # "await" \/ Holder(attempt) = {})

\* What observer.rs:716-719 says of a vanished pod, "Reported once, so a waiter
\* cannot hang on a pod that no longer exists": violated, see hangs_on_gone.
GoneIsHeard == (pc = "await" /\ Holder(attempt) = {}) ~> (pc # "await")
=============================================================================
