------------------------------ MODULE PodWatch ------------------------------
(***************************************************************************)
(* The shared pod observer: the state machine of dagr_k8s::observer and the *)
(* routing task of dagr_cli::pod_observer, over a namespace of pods.        *)
(*                                                                         *)
(* The cluster is external: it is modelled from the port the crate declares *)
(* (api.rs).  It keeps the pods and, for the observer's resource version,   *)
(* the changes a watch resumed there would still deliver (`feed').  Changes *)
(* of pods the observer attributes to no attempt (without an owner, of      *)
(* another structure, or already consumed) reach no waiter and are left out.*)
(***************************************************************************)
EXTENDS Naturals, FiniteSets, SequencesExt

CONSTANTS Uid,        \* the identifiers the cluster gives to pods, in order
          Attempt,    \* the attempts of the one placed node
          PodName,    \* the object name the executor derives from an attempt
          None,       \* no name, no object
          Build,      \* builds of the program: [graph, tool, image], the fingerprint of
                      \* its structure, its version and the digest of its image
          Original,   \* the build the run was started with
          MaxMiss     \* limits.max_consecutive_failures

ASSUME WatchAssumption ==
    /\ Uid \subseteq Nat \ {0} /\ Attempt \subseteq Nat \ {0}
    /\ MaxMiss \in Nat \ {0}
    /\ \A a, b \in Attempt : PodName[a] = PodName[b] => a = b
    /\ \A a \in Attempt : PodName[a] \notin Uid \cup {None}
    /\ None \notin Uid \cup Attempt
    /\ Original \in Build

Ended == {"Succeeded", "Failed"}
Phase == {"Pending", "Stuck", "Running"} \cup Ended

VARIABLES build,    \* the build of the orchestrator, which the observer selects by
          pods,     \* the pods the cluster holds or held, by identifier
          feed,     \* the changes after last_version, oldest first
          mode,     \* ObserverAction: list, resume, read, failed; stopped
          misses,   \* consecutive_failures
          seen,     \* the attempts a pod was once read for
          reading,  \* the phase last delivered, by attempt
          finished, \* the object an attempt's final observation was about
          live,     \* Routes::live, the attempts with a registered waiter
          pending,  \* Routes::pending
          ear,      \* the attempt whose waiter is still held by its runner
          mail,     \* what that waiter has not read yet
          finals    \* the final observations routed so far, by attempt

cluster == <<build, pods, feed>>
core == <<mode, misses, seen, reading, finished>>
routes == <<live, pending, ear, mail, finals>>

-----------------------------------------------------------------------------
(* The cluster *)

Unborn == [attempt |-> None, phase |-> "Pending", here |-> FALSE,
           build |-> Original, owned |-> FALSE, complete |-> FALSE, dying |-> FALSE]

Held == {u \in Uid : pods[u].here}

\* A live pod of this run, and one the observer of build b takes for its program's:
\* it compares the structure alone
Ours(p) == p.owned /\ ~p.complete
Attributable(p, b) == Ours(p) /\ p.build.graph = b.graph

\* Pod u becomes p; a watch that is open or to be resumed will tell of it.  A
\* change that leaves the phase alone is a reading observe() delivers no news of
\* that matters to a waiter, and is left out.
Changes(u, p, kind) ==
    LET telling == kind = "Deleted" \/ kind = "Added" \/ p.phase # pods[u].phase
    IN /\ pods' = [pods EXCEPT ![u] = IF p.here THEN p
                                      ELSE [Unborn EXCEPT !.attempt = p.attempt,
                                                          !.phase = p.phase]]
       /\ feed' = IF telling /\ Attributable(p, build) /\ mode \in {"resume", "read"}
                  THEN Append(feed, [uid |-> u, kind |-> kind, attempt |-> p.attempt,
                                     phase |-> p.phase])
                  ELSE feed
       /\ UNCHANGED build

-----------------------------------------------------------------------------
(* ObserverCore: what a reading of an object tells, and what it leaves behind *)

\* Object u of attempt a is listed, changed, deleted or missing from a listing.
Reading(u, a, phase, vanished) ==
    [uid |-> u, attempt |-> a, phase |-> phase, vanished |-> vanished]

IsFinal(r) == r.vanished \/ r.phase \in Ended

\* A final reading retires its object; a phase that was read before is no news.
IsNews(r) ==
    /\ finished[r.attempt] # r.uid
    /\ finished[r.attempt] = None /\ ~IsFinal(r) => reading[r.attempt] # r.phase

\* Attempts seen before that have not ended and that no pod of `there' carries
Vanished(there) ==
    {a \in seen : finished[a] = None} \ {pods[u].attempt : u \in there}

\* What a listing reads: the pods it holds, and by name those that are missing
Reconcile ==
    LET there == {u \in Held : Attributable(pods[u], build)}
    IN {Reading(u, pods[u].attempt, pods[u].phase, FALSE) : u \in there}
       \cup {Reading(PodName[a], a, "Pending", TRUE) : a \in Vanished(there)}

-----------------------------------------------------------------------------
(* Routes *)

Message(r) == [phase |-> r.phase, vanished |-> r.vanished]

\* One pass of the task's loop over readings, of an attempt one at most: keep the
\* book, and hand the news to the attempt's waiter or to its buffer.
Tells(readings) ==
    LET heard == {a \in Attempt : \E r \in readings : r.attempt = a /\ IsNews(r)}
        news == [a \in heard |-> CHOOSE r \in readings : r.attempt = a /\ IsNews(r)]
        final == {a \in heard : IsFinal(news[a])}
    IN /\ seen' = seen \cup {r.attempt : r \in readings}
       /\ finished' = [a \in Attempt |-> IF a \in final THEN news[a].uid
                                         ELSE IF a \in heard THEN None ELSE finished[a]]
       /\ reading' = [a \in Attempt |-> IF a \in heard /\ news[a].uid \in Uid
                                        THEN news[a].phase ELSE reading[a]]
       /\ finals' = [a \in Attempt |-> IF a \in final THEN finals[a] + 1 ELSE finals[a]]
       /\ live' = live \ final
       /\ mail' = IF ear \in heard \cap live THEN Append(mail, Message(news[ear])) ELSE mail
       /\ pending' = [a \in Attempt |-> IF a \in heard \ live
                                        THEN Append(pending[a], Message(news[a]))
                                        ELSE pending[a]]
       /\ UNCHANGED ear

\* A runner registers a waiter: what was buffered for the attempt comes first
Register(a) ==
    /\ ear' = a /\ mail' = pending[a]
    /\ pending' = [pending EXCEPT ![a] = <<>>]
    /\ live' = IF \E i \in DOMAIN pending[a] : IsFinal(pending[a][i])
               THEN live ELSE live \cup {a}
    /\ UNCHANGED finals

\* The waiter is dropped; its sender stays in the table
Unregister == ear' = None /\ mail' = <<>> /\ UNCHANGED <<live, pending, finals>>

\* waiter.next() has nothing to hand over and never will
Closed == mail = <<>> /\ ear \notin live

-----------------------------------------------------------------------------
(* The observing task *)

List ==
    /\ mode = "list"
    /\ mode' = "resume" /\ misses' = 0 /\ feed' = <<>>
    /\ Tells(Reconcile)
    /\ UNCHANGED <<build, pods>>

\* ObserverCore::fail: recover as the class of the failure asks, or give up
Miss(recovery) ==
    /\ misses' = misses + 1
    /\ IF misses + 1 < MaxMiss
       THEN mode' = recovery /\ UNCHANGED live
       ELSE mode' = "failed" /\ live' = {}
    /\ UNCHANGED <<seen, reading, finished, cluster, pending, ear, mail, finals>>

ListFails == mode = "list" /\ Miss("list")

WatchOpens ==
    /\ mode = "resume" /\ mode' = "read"
    /\ UNCHANGED <<misses, seen, reading, finished, cluster, routes>>

\* Opening or reading the watch fails: resume it, or list when it has expired
WatchBreaks ==
    /\ mode \in {"resume", "read"}
    /\ Miss("resume") \/ Miss("list")

Deliver ==
    /\ mode = "read" /\ feed # <<>>
    /\ LET change == Head(feed)
       IN Tells({Reading(change.uid, change.attempt, change.phase, change.kind = "Deleted")})
    /\ feed' = Tail(feed) /\ misses' = 0
    /\ UNCHANGED <<mode, build, pods>>

Bookmark ==
    /\ mode = "read" /\ feed = <<>> /\ misses # 0
    /\ misses' = 0
    /\ UNCHANGED <<mode, seen, reading, finished, cluster, routes>>

\* Mutant: a silent watch is opened again from where it stood
ReopensWhenSilent == mode = "read" /\ mode' = "resume"
    /\ UNCHANGED <<misses, seen, reading, finished, cluster, routes>>

\* Nothing inside the stall bound: believe a listing instead
Silence ==
    /\ mode = "read" /\ mode' = "list"
    /\ UNCHANGED <<misses, seen, reading, finished, cluster, routes>>

\* The observer is shut down, or goes with its process: nothing it knew remains
Forgets(m) ==
    /\ mode' = m /\ misses' = 0 /\ feed' = <<>>
    /\ seen' = {} /\ finished' = [a \in Attempt |-> None]
    /\ reading' = [a \in Attempt |-> "unread"]
    /\ live' = {} /\ pending' = [a \in Attempt |-> <<>>]
    /\ ear' = None /\ mail' = <<>>

ObserverNext ==
    \/ List \/ ListFails \/ WatchOpens \/ WatchBreaks
    \/ Deliver \/ Bookmark \/ Silence

ObserverInit ==
    /\ mode = "list" /\ misses = 0 /\ feed = <<>>
    /\ seen = {} /\ finished = [a \in Attempt |-> None]
    /\ reading = [a \in Attempt |-> "unread"]
    /\ live = {} /\ pending = [a \in Attempt |-> <<>>]
    /\ ear = None /\ mail = <<>> /\ finals = [a \in Attempt |-> 0]

\* The observing task is polled and its calls are answered, one way or the other:
\* an open watch delivers what it has, breaks, or is silent past the stall bound
\* (WF of ObserverNext, written out: in every other mode it is enabled)
ObserverFairness ==
    []<>(mode \in {"failed", "stopped"}) \/ []<><<ObserverNext>>_<<core, routes>>
=============================================================================
