----------------------------- MODULE ResumePlan ------------------------------
(***************************************************************************)
(* Resume planning (crates/core/src/resume.rs): which nodes of a pipeline  *)
(* run again after a prior run, and which durable values are read back for *)
(* them.  The closure and demand loops are modelled one visited name per   *)
(* step, in the name order of the BTreeMaps they walk.                     *)
(***************************************************************************)
EXTENDS Nodes

CONSTANTS DataInputs,      \* Graph.data_inputs, as sets
          Upstreams,       \* Graph.all_upstreams: data and ordering upstreams
          Durable,         \* nodes whose output is durable
          TeardownCovered, \* nodes a teardown covers
          States           \* terminal states a prior run may record

ASSUME ResumeAssumption ==
    /\ DataInputs \in [Node -> SUBSET Node]
    /\ Upstreams \in [Node -> SUBSET Node]
    /\ \A n \in Node : DataInputs[n] \subseteq Upstreams[n]
    /\ Durable \subseteq Node /\ TeardownCovered \subseteq Node

VARIABLES prior,      \* PriorRun.nodes: the state and whether a reference is recorded
          gone,       \* nodes whose referent probes absent or changed; of the
                      \* others the probe says present, or that it cannot tell
          phase,      \* of the planner: "gate", "close", "demand", "planned", "refused"
          must_run,   \* resolve_demand's must_run
          rehydrate,  \* the keys of resolve_demand's rehydrate
          before,     \* must_run at the start of the round
          rest        \* names the current pass has still to visit

planner == <<phase, must_run, rehydrate, before, rest>>

PriorNode == [state : States, ref : BOOLEAN]

First(S) == CHOOSE n \in S : \A k \in S : n <= k

Succeeded(n) == prior[n].state = "succeeded"

\* compute_seed.
Seed == {n \in Node : ~Succeeded(n)} \cup TeardownCovered

PlannerInit ==
    /\ phase = "gate"
    /\ must_run = {} /\ rehydrate = {} /\ before = {} /\ rest = {}

\* plan_resume's gate: three versions must match, whatever the policy hash does.
Gate(sameAlgorithm, sameTool, sameStructure) ==
    /\ phase = "gate"
    /\ IF sameAlgorithm /\ sameTool /\ sameStructure
       THEN /\ phase' = "close"
            /\ must_run' = Seed /\ before' = Seed /\ rest' = Node
            /\ UNCHANGED rehydrate
       ELSE /\ phase' = "refused"
            /\ UNCHANGED <<must_run, rehydrate, before, rest>>
    /\ UNCHANGED <<prior, gone>>

\* Step 2 for one name: a node some upstream of which runs again, runs again.
PulledDown(n) == Upstreams[n] \cap must_run # {}

Close ==
    /\ phase = "close" /\ rest # {}
    /\ LET n == First(rest) IN
         /\ rest' = rest \ {n}
         /\ must_run' = IF PulledDown(n) THEN must_run \cup {n} ELSE must_run
    /\ UNCHANGED <<prior, gone, phase, rehydrate, before>>

\* The demanders are the must-run set as the closure pass left it.
StartDemand ==
    /\ phase = "close" /\ rest = {}
    /\ phase' = "demand" /\ rest' = must_run
    /\ UNCHANGED <<prior, gone, must_run, rehydrate, before>>

\* A value that can be read back: a durable node that succeeded, with a reference.
Readable(p) == p \in Durable /\ Succeeded(p) /\ prior[p].ref

\* Mutant: inputs that run again anyway are looked up too.
DemandedAnyway(n) == DataInputs[n]

Demanded(n) == DataInputs[n] \ must_run

\* Mutant: the demand for values that cannot be read back is dropped.
NothingIsRecomputed(n) == {}

\* The demanded producers that have to run again.
Recomputed(n) == {p \in Demanded(n) : ~Readable(p)}

\* Step 3 for one consumer: read back or recompute each input.
Demand ==
    /\ phase = "demand" /\ rest # {}
    /\ LET n == First(rest)
           kept == Demanded(n) \ Recomputed(n)
       IN IF kept \cap gone # {}
          THEN /\ phase' = "refused"
               /\ UNCHANGED <<must_run, rehydrate, rest>>
          ELSE /\ must_run' = must_run \cup Recomputed(n)
               /\ rehydrate' = (rehydrate \ Recomputed(n)) \cup kept
               /\ rest' = rest \ {n}
               /\ UNCHANGED phase
    /\ UNCHANGED <<prior, gone, before>>

\* Mutant: one round only.
RoundIsLast == TRUE

Fixpoint == must_run = before

EndRound ==
    /\ phase = "demand" /\ rest = {}
    /\ IF Fixpoint
       THEN phase' = "planned" /\ UNCHANGED <<before, rest>>
       ELSE phase' = "close" /\ before' = must_run /\ rest' = Node
    /\ UNCHANGED <<prior, gone, must_run, rehydrate>>

Planning == Close \/ StartDemand \/ Demand \/ EndRound

\* mark_satisfied_from_prior.
Satisfied == {n \in Node \ must_run : Succeeded(n)}

Init ==
    /\ prior \in [Node -> PriorNode]
    /\ gone \in SUBSET Node
    /\ PlannerInit

Next == Planning \/ \E a, t, s \in BOOLEAN : Gate(a, t, s)

vars == <<prior, gone, planner>>

Spec == Init /\ [][Next]_vars

TypeOK ==
    /\ prior \in [Node -> PriorNode]
    /\ gone \subseteq Node
    /\ phase \in {"gate", "close", "demand", "planned", "refused"}
    /\ must_run \subseteq Node /\ rehydrate \subseteq Node
    /\ before \subseteq Node /\ rest \subseteq Node

-----------------------------------------------------------------------------
\* The specification: what a plan has to contain.  Everything that did not
\* succeed or was torn down, whatever is downstream of a node of the plan, and
\* every input of such a node whose value no reference can bring back.
InStore(p) == p \in Durable /\ prior[p] = [state |-> "succeeded", ref |-> TRUE]

Complete(S) ==
    /\ \A n \in Node : prior[n].state # "succeeded" \/ n \in TeardownCovered => n \in S
    /\ \A n \in Node : Upstreams[n] \cap S # {} => n \in S
    /\ \A n \in S : \A p \in DataInputs[n] : p \in S \/ InStore(p)

\* The finished plan is the least complete set, whatever the order of the
\* passes: nothing is forgotten, and nothing runs again without a reason.
PlanIsLeast ==
    phase = "planned" =>
        /\ Complete(must_run)
        /\ \A S \in SUBSET Node : Complete(S) => must_run \subseteq S

\* Every input of a node that runs again is recomputed too, or is read back
\* from a reference that did not turn out to be gone or changed, and is then
\* recorded as satisfied by the prior run.
InputsProvided ==
    phase = "planned" =>
        \A n \in must_run : \A p \in DataInputs[n] :
            \/ p \in must_run
            \/ InStore(p) /\ p \in (rehydrate \cap Satisfied) \ gone

\* A refusal names a reference that is gone, that every plan has to read or to
\* replace for some node, and whose node is not known to run again.
RefusedForDemand ==
    phase = "refused" /\ rest # {} =>
        \E p \in gone \ must_run :
            /\ InStore(p)
            /\ \A S \in SUBSET Node :
                   Complete(S) => \E n \in S : p \in DataInputs[n]

\* "A node here is never in must_run": a value is read back or recomputed,
\* not both (the documentation of ResumePlan::rehydrate).
NeverBoth == phase = "planned" => rehydrate \cap must_run = {}
=============================================================================
