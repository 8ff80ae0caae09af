----------------------------- MODULE BlobReclaim -----------------------------
(***************************************************************************)
(* Blobs and the runs that use them: bodies that put values, the driver    *)
(* that records references, a resume that probes and reads them            *)
(* (cli/blob_bridge.rs), and prune's reclaim by reachability               *)
(* (cli/blob_gc.rs), all beside each other over one store.                 *)
(***************************************************************************)
EXTENDS BlobStore

CONSTANTS Run,       \* runs, by the order of their directories
          Pruner, Resumer,
          Unhashed   \* keys whose references were recorded without a content hash

ASSUME RunsAreClients ==
    /\ Client = Run \cup {Pruner, Resumer}
    /\ Pruner \notin Run /\ Resumer \notin Run \cup {Pruner}

VARIABLES phase,     \* of a run's directory
          recorded,  \* the references in its event stream
          artifact,  \* the references in its folded artifact
          pruning,   \* where the reclaim is
          todo,      \* the directories it has still to visit, then keys to delete
          reachable, \* the references it has collected
          before,    \* auxiliary: the runs that had a stream when its walk began
          resume     \* where the resume is

runs == <<phase, recorded, artifact>>
reclaim == <<pruning, todo, reachable, before>>
vars == <<store, runs, reclaim, resume>>

-----------------------------------------------------------------------------
(* Runs: one output each *)

Unused == UNCHANGED <<reclaim, resume>>

StartRun(r) ==
    /\ phase[r] = "none" /\ phase' = [phase EXCEPT ![r] = "live"] /\ Fine
    /\ \E k \in Key : Ask(r, "put", k)
    /\ UNCHANGED <<recorded, artifact>> /\ Unused

\* The attempt succeeded: its reference goes into the stream
Record(r) ==
    /\ phase[r] = "live" /\ Says(r, "put", "ok") /\ Fine
    /\ recorded' = [recorded EXCEPT ![r] = call[r].key] /\ Over(r)
    /\ UNCHANGED <<phase, artifact>> /\ Unused

PutFailed(r) ==
    /\ phase[r] = "live" /\ Over(r) /\ Fine
    /\ Says(r, "put", "transient") \/ Says(r, "put", "absent")
    /\ UNCHANGED runs /\ Unused

Die(r) ==
    /\ phase[r] = "live" /\ phase' = [phase EXCEPT ![r] = "dead"] /\ Fails
    /\ Over(r) /\ UNCHANGED <<recorded, artifact>> /\ Unused

\* A run ends with its artifact; the stream of a dead one is folded by hand
FoldRun(r) ==
    /\ phase[r] = "dead" \/ (phase[r] = "live" /\ call[r] = NoCall)
    /\ phase' = [phase EXCEPT ![r] = "folded"] /\ Fine
    /\ artifact' = [artifact EXCEPT ![r] = recorded[r]]
    /\ UNCHANGED <<recorded, backend, object, call>> /\ Unused

\* Retention removes a directory
Retire(r) ==
    /\ phase[r] = "folded" /\ phase' = [phase EXCEPT ![r] = "retired"] /\ Fine
    /\ UNCHANGED <<recorded, artifact, backend, object, call>> /\ Unused

-----------------------------------------------------------------------------
(* plan_reclaim and apply_reclaim *)

Reclaiming == UNCHANGED <<runs, resume>>
NoCalls == UNCHANGED <<backend, object, call>>

\* The directories are read once; a run that starts later is not among them
Walk ==
    /\ pruning = "idle" /\ pruning' = "walk" /\ Fine
    /\ todo' = {r \in Run : phase[r] \in {"live", "dead", "folded"}}
    /\ before' = todo' /\ reachable' = {}
    /\ NoCalls /\ Reclaiming

RefuseReclaim == pruning' = "idle" /\ todo' = {} /\ reachable' = {} /\ before' = {}

\* Mutant: a run without an artifact has no references
SkipsUnfolded(r) ==
    /\ pruning = "walk" /\ r \in todo /\ Fine
    /\ reachable' = reachable \cup artifact[r]
    /\ todo' = todo \ {r} /\ UNCHANGED <<pruning, before>>
    /\ NoCalls /\ Reclaiming

\* An unreadable artifact or directory, or a run not folded yet, is a refusal
Visit(r) ==
    /\ pruning = "walk" /\ r \in todo
    /\ \/ /\ phase[r] = "folded" /\ Fine
          /\ reachable' = reachable \cup artifact[r]
          /\ todo' = todo \ {r} /\ UNCHANGED <<pruning, before>>
       \/ phase[r] = "folded" /\ Fails /\ RefuseReclaim
       \/ phase[r] # "folded" /\ Fine /\ RefuseReclaim
    /\ NoCalls /\ Reclaiming

ListHeld ==
    /\ pruning = "walk" /\ todo = {} /\ pruning' = "list" /\ Fine
    /\ Asks(Pruner, "list", {})
    /\ UNCHANGED <<todo, reachable, before>> /\ Reclaiming

\* With the listing the plan is complete: a dry run ends here
Plan ==
    /\ pruning = "list" /\ Fine
    /\ \/ /\ Says(Pruner, "list", "ok") /\ pruning' = "delete"
          /\ todo' = call[Pruner].found \ reachable
          /\ UNCHANGED <<reachable, before>>
       \/ /\ Says(Pruner, "list", "ok") \/ Says(Pruner, "list", "transient")
          /\ RefuseReclaim
    /\ Over(Pruner) /\ Reclaiming

DeleteNext ==
    /\ pruning = "delete" /\ call[Pruner] = NoCall /\ todo # {} /\ Fine
    /\ \E k \in todo : (\A j \in todo : k <= j) /\ Ask(Pruner, "delete", k)
    /\ UNCHANGED reclaim /\ Reclaiming

\* The first failure ends the reclaim
Deleted ==
    /\ pruning = "delete" /\ Over(Pruner) /\ Fine
    /\ \/ /\ Says(Pruner, "delete", "ok") /\ todo' = todo \ call[Pruner].key
          /\ UNCHANGED <<pruning, reachable, before>>
       \/ Says(Pruner, "delete", "transient") /\ RefuseReclaim
    /\ Reclaiming

Reclaimed ==
    /\ pruning = "delete" /\ todo = {} /\ call[Pruner] = NoCall /\ Fine
    /\ RefuseReclaim /\ NoCalls /\ Reclaiming

-----------------------------------------------------------------------------
(* A resume over a folded run's references *)

Resuming == UNCHANGED <<runs, reclaim>>

ProbeReference(r) ==
    /\ resume = "idle" /\ phase[r] = "folded" /\ Fine
    /\ \E k \in artifact[r] : Ask(Resumer, "head", k)
    /\ resume' = "probe" /\ Resuming

\* A build without the store's client cannot tell when it plans, and fails the
\* attempt when it rehydrates
Unopenable(r) ==
    /\ resume = "idle" /\ phase[r] = "folded" /\ artifact[r] # {} /\ Fails
    /\ resume' = "failed" /\ UNCHANGED <<backend, object, call>> /\ Resuming

\* reference_existence_in, classify_stat and the plan's gate: an object that is
\* gone, or is not what the recorded hash says, refuses the plan; one that could
\* not be looked at, or has no recorded hash to differ from, does not
Verdict(k, result) ==
    CASE result = "absent"                      -> "dangling"
      [] result = "corrupt" /\ k \notin Unhashed -> "mutated"
      [] OTHER                                  -> "go"

Judge ==
    /\ resume = "probe" /\ call[Resumer].stage = "over" /\ Fine
    /\ \E k \in call[Resumer].key :
         /\ resume' = Verdict(k, call[Resumer].got)
         /\ IF resume' = "go" THEN Ask(Resumer, "get", k)
            ELSE UNCHANGED <<backend, object, call>>
    /\ Resuming

\* rehydrate_from: the value, or the failure classified as the port classified it
Rehydrate ==
    /\ resume = "go" /\ call[Resumer].stage = "over" /\ Fine
    /\ resume' = IF call[Resumer].got = "ok" THEN "value" ELSE "failed"
    /\ UNCHANGED <<backend, object, call>> /\ Resuming

ResumeEnds ==
    /\ resume \in {"dangling", "mutated", "value", "failed"} /\ Fine
    /\ resume' = "idle" /\ Over(Resumer) /\ Resuming

-----------------------------------------------------------------------------

Next ==
    \/ \E r \in Run : \/ StartRun(r) \/ Record(r) \/ PutFailed(r) \/ Die(r)
                      \/ FoldRun(r) \/ Retire(r) \/ Visit(r) \/ ProbeReference(r)
                      \/ Unopenable(r)
    \/ Walk \/ ListHeld \/ Plan \/ DeleteNext \/ Deleted \/ Reclaimed
    \/ Judge \/ Rehydrate \/ ResumeEnds
    \/ StoreNext /\ UNCHANGED <<runs, reclaim, resume>>

Init ==
    /\ StoreInit
    /\ phase = [r \in Run |-> "none"]
    /\ recorded = [r \in Run |-> {}] /\ artifact = [r \in Run |-> {}]
    /\ pruning = "idle" /\ todo = {} /\ reachable = {} /\ before = {}
    /\ resume = "idle"

Spec == Init /\ [][Next]_vars

-----------------------------------------------------------------------------
(* Properties *)

IsTaken(k) == object[k] = "good" /\ object'[k] = "none"

\* The reclaim takes no good blob that a run whose stream existed when the walk
\* began has recorded, while that run's directory is kept: whether it was still
\* running, had died unfolded, or shares the blob with a run that is retired
\* (plan_reclaim's refusals and set difference, blob_gc.rs).
OldReferencesKept ==
    [][\A k \in Key : IsTaken(k) =>
         \A r \in before : phase[r] # "retired" => k \notin recorded[r]]_vars

\* "Every uncertain case therefore resolves toward keeping" (blob_gc.rs:30) for
\* every run: violated by a run that starts after the walk and puts a blob that
\* was held already (MCBlobs.cfg with this property).
ReferencesKept ==
    [][\A k \in Key : IsTaken(k) =>
         \A r \in Run : phase[r] # "retired" => k \notin recorded[r]]_vars

\* What a finished call says was so while it was out, over retries, lost answers
\* and other clients: stored, read and right, missing (the object, or as the
\* store says its bucket), or damaged (the split of BlobError and
\* classify_status); and a resume is refused for a blob only when it was missing,
\* or damaged against a recorded hash, and handed only the value recorded.
Told == [ok |-> {"good"}, absent |-> {"none", "nowhere"}, corrupt |-> {"bad"}]
VerdictsAreTrue ==
    /\ \A c \in Client :
         call[c].op \in {"put", "get", "head"} /\ call[c].stage = "over" =>
            call[c].got = "transient" \/ Told[call[c].got] \cap call[c].was # {}
    /\ resume = "dangling" => {"none", "nowhere"} \cap call[Resumer].was # {}
    /\ resume = "mutated" => "bad" \in call[Resumer].was /\ ~(call[Resumer].key \subseteq Unhashed)
    /\ resume = "value" => "good" \in call[Resumer].was
=============================================================================
