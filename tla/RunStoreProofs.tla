--------------------------- MODULE RunStoreProofs ----------------------------
(***************************************************************************)
(* What runs leave for the next one and for the index.  For every pipeline *)
(* and every prior run, the finished plan of a resume is the least         *)
(* complete set, every input of it is provided, and a refusal is about a   *)
(* reference the plan had to read; over a whole chain of runs, a body that *)
(* runs has the right value of every input; and a run whose sink ends well *)
(* is in the index with all of its stream.                                 *)
(***************************************************************************)
EXTENDS RunStore, Metastore, CommonLemmas

-----------------------------------------------------------------------------
(* The planner *)

\* The closure pass leaves nothing behind among the names in D.
Closed(D) == \A n \in D : PulledDown(n) => n \in must_run

\* Every input of the consumers in D is recomputed or read back.
Provided(D) == \A n \in D : \A p \in DataInputs[n] :
                   p \in must_run \/ (InStore(p) /\ p \in rehydrate \ gone)

Working == phase \in {"close", "demand", "planned"}

\* The strengthening: what the loops have achieved when a round has, so far,
\* added nothing; and that nothing outside a complete set is ever added.
Progress ==
    /\ phase = "gate" => rest = {}
    /\ Working => Seed \subseteq must_run /\ before \subseteq must_run
    /\ \A S \in SUBSET Node : Complete(S) => must_run \subseteq S
    /\ phase = "close" /\ Fixpoint => Closed(Node \ rest)
    /\ phase = "demand" => rest \subseteq must_run
    /\ phase = "demand" /\ Fixpoint => Closed(Node) /\ Provided(must_run \ rest)
    /\ phase = "planned" => Closed(Node) /\ Provided(must_run)

\* What the planner needs of the prior run: two fields for every node, of which
\* the second is a truth value.
Sane ==
    /\ \A n \in Node : /\ prior[n] = [state |-> prior[n].state, ref |-> prior[n].ref]
                       /\ prior[n].ref \in BOOLEAN
    /\ gone \subseteq Node
    /\ phase \in {"gate", "close", "demand", "planned", "refused"}
    /\ must_run \subseteq Node /\ rehydrate \subseteq Node
    /\ before \subseteq Node /\ rest \subseteq Node

PlannerInv == Sane /\ Progress /\ RefusedForDemand

USE ResumeAssumption, NodeAssumption

\* The next name to visit is one that is still to visit.
LEMMA FirstIsMember ==
    ASSUME Sane, rest # {}
    PROVE  First(rest) \in rest
<1>1. rest \in SUBSET Nat /\ IsFiniteSet(rest)
  BY FS_Subset DEF Sane
<1>2. \E m \in rest : \A k \in rest : m <= k
  BY <1>1, LeastOfFinite
<1>3. QED
  BY <1>2 DEF First

\* What can be read back is what the specification finds in the store.
LEMMA ReadableIsInStore ==
    ASSUME Sane, NEW p \in Node
    PROVE  Readable(p) <=> InStore(p)
<1> DEFINE s == prior[p].state
           r == prior[p].ref
<1>1. prior[p] = [state |-> s, ref |-> r] /\ r \in BOOLEAN
  BY DEF Sane
<1> HIDE DEF s, r
<1>2. prior[p] = [state |-> "succeeded", ref |-> TRUE] <=> s = "succeeded" /\ r = TRUE
  <2>1. ASSUME s = "succeeded", r = TRUE PROVE prior[p] = [state |-> "succeeded", ref |-> TRUE]
    BY <1>1, <2>1, Zenon
  <2>2. ASSUME prior[p] = [state |-> "succeeded", ref |-> TRUE] PROVE s = "succeeded" /\ r = TRUE
    <3>1. /\ [state |-> "succeeded", ref |-> TRUE].state = "succeeded"
          /\ [state |-> "succeeded", ref |-> TRUE].ref = TRUE
      BY Zenon
    <3>2. QED
      BY <2>2, <3>1, Zenon DEF s, r
  <2>3. QED
    BY <2>1, <2>2
<1>3. prior[p].state = s /\ prior[p].ref = r
  BY <1>1
<1>4. InStore(p) <=> p \in Durable /\ s = "succeeded" /\ r = TRUE
  BY <1>2 DEF InStore
<1>5. Readable(p) <=> p \in Durable /\ s = "succeeded" /\ prior[p].ref
  BY <1>3 DEF Readable, Succeeded
<1>6. prior[p].ref <=> r = TRUE
  BY <1>1, Zenon DEF r
<1>7. QED
  BY <1>4, <1>5, <1>6

\* A complete set holds what the visited name pulls down.
LEMMA PulledIsComplete ==
    ASSUME Sane, NEW n \in Node, PulledDown(n),
           NEW S \in SUBSET Node, Complete(S), must_run \subseteq S
    PROVE  n \in S
<1>1. Upstreams[n] \cap S # {}
  BY DEF PulledDown
<1>2. QED
  BY <1>1 DEF Complete

\* The planner starts in the invariant.
LEMMA PlannerStarts == Init => PlannerInv
<1> SUFFICES ASSUME Init PROVE PlannerInv
  OBVIOUS
<1> USE DEF Init, PlannerInit
<1>1. Sane
  BY DEF Sane, PriorNode
<1>2. Progress
  BY DEF Progress, Working
<1>3. RefusedForDemand
  BY DEF RefusedForDemand
<1>4. QED
  BY <1>1, <1>2, <1>3 DEF PlannerInv

\* The gate opens on the seed, which every complete set holds.
LEMMA GateKeeps ==
    ASSUME PlannerInv, NEW a \in BOOLEAN, NEW t \in BOOLEAN, NEW s \in BOOLEAN, Gate(a, t, s)
    PROVE  PlannerInv'
<1> USE DEF PlannerInv, Gate
<1>0. Seed \subseteq Node
  BY DEF Seed, Sane
<1>1. Sane'
  BY <1>0 DEF Sane
<1>2. CASE phase' = "refused"
  <2>1. Progress'
    <3>1. must_run' = must_run /\ ~Working'
      BY <1>2 DEF Working
    <3>2. \A S \in SUBSET Node : Complete(S)' => must_run' \subseteq S
      BY <3>1 DEF Progress, Complete, InStore
    <3>3. QED
      BY <1>2, <3>1, <3>2 DEF Progress
  <2>2. RefusedForDemand'
    <3>1. rest = {} /\ rest' = rest
      BY <1>2 DEF Progress
    <3>2. QED
      BY <3>1 DEF RefusedForDemand
  <2>3. QED
    BY <1>1, <2>1, <2>2
<1>3. CASE phase' = "close"
  <2>1. \A S \in SUBSET Node : Complete(S)' => must_run' \subseteq S
    BY <1>3 DEF Complete, Seed, Succeeded
  <2>2. Seed' = Seed /\ must_run' = Seed /\ before' = Seed /\ rest' = Node
    BY <1>3 DEF Seed, Succeeded
  <2>3. Progress'
    BY <1>3, <2>1, <2>2 DEF Progress, Working, Closed
  <2>4. QED
    BY <1>1, <1>3, <2>3 DEF RefusedForDemand
<1>4. QED
  BY <1>2, <1>3

\* A name of the closure pass.
LEMMA CloseKeeps == ASSUME PlannerInv, Close PROVE PlannerInv'
<1> USE DEF PlannerInv, Close
<1> DEFINE n == First(rest)
<1>0. n \in rest /\ n \in Node
  BY FirstIsMember DEF Sane
<1> HIDE DEF n
<1>1. rest' = rest \ {n} /\ must_run' = IF PulledDown(n) THEN must_run \cup {n} ELSE must_run
  BY DEF n
<1>2. Sane'
  BY <1>0, <1>1 DEF Sane
<1>3. \A S \in SUBSET Node : Complete(S)' => must_run' \subseteq S
  <2> SUFFICES ASSUME NEW S \in SUBSET Node, Complete(S)' PROVE must_run' \subseteq S
    OBVIOUS
  <2>1. Complete(S)
    BY DEF Complete, InStore
  <2>2. must_run \subseteq S
    BY <2>1 DEF Progress
  <2>3. CASE PulledDown(n)
    BY <1>0, <1>1, <2>1, <2>2, <2>3, PulledIsComplete
  <2>4. QED
    BY <1>1, <2>2, <2>3
<1>4. Working' => Seed' \subseteq must_run' /\ before' \subseteq must_run'
  BY <1>1 DEF Progress, Working, Seed, Succeeded
<1>5. phase' = "close" /\ Fixpoint' => Closed(Node \ rest)'
  <2> SUFFICES ASSUME Fixpoint' PROVE Closed(Node \ rest)'
    OBVIOUS
  <2>1. must_run' = must_run /\ Fixpoint
    BY <1>1 DEF Progress, Working, Fixpoint
  <2>2. Closed(Node \ rest)
    BY <2>1 DEF Progress
  <2>3. PulledDown(n) => n \in must_run
    BY <1>1, <2>1
  <2>4. QED
    BY <1>1, <2>1, <2>2, <2>3 DEF Closed, PulledDown
<1>6. Progress'
  BY <1>3, <1>4, <1>5 DEF Progress, Working
<1>7. QED
  BY <1>2, <1>6 DEF RefusedForDemand

\* The demand pass starts from the must-run set of the closure pass.
LEMMA StartDemandKeeps == ASSUME PlannerInv, StartDemand PROVE PlannerInv'
<1> USE DEF PlannerInv, StartDemand
<1>1. Sane'
  BY DEF Sane
<1>2. \A S \in SUBSET Node : Complete(S)' => must_run' \subseteq S
  BY DEF Progress, Complete, InStore
<1>3. Working' => Seed' \subseteq must_run' /\ before' \subseteq must_run'
  BY DEF Progress, Working, Seed, Succeeded
<1>4. Fixpoint' => Closed(Node)' /\ Provided(must_run \ rest)'
  BY DEF Progress, Fixpoint, Closed, Provided, PulledDown
<1>5. Progress'
  BY <1>2, <1>3, <1>4 DEF Progress, Working
<1>6. QED
  BY <1>1, <1>5 DEF RefusedForDemand

\* A consumer of the demand pass.
LEMMA DemandKeeps == ASSUME PlannerInv, Demand PROVE PlannerInv'
<1> USE DEF PlannerInv, Demand
<1> DEFINE n == First(rest)
           back == Demanded(n) \ Recomputed(n)
<1>0. n \in rest /\ n \in Node /\ n \in must_run
  BY FirstIsMember DEF Sane, Progress
<1> HIDE DEF n
<1>1. /\ Recomputed(n) = {p \in DataInputs[n] \ must_run : ~InStore(p)}
      /\ back = {p \in DataInputs[n] \ must_run : InStore(p)}
      /\ DataInputs[n] \subseteq Node
  <2>1. DataInputs[n] \subseteq Node
    BY <1>0
  <2>2. QED
    BY <2>1, ReadableIsInStore DEF Recomputed, Demanded
<1> HIDE DEF back
<1>2. \A S \in SUBSET Node : Complete(S) => n \in S
  BY <1>0 DEF Progress
<1>3. CASE back \cap gone # {}
  <2>1. phase' = "refused" /\ must_run' = must_run /\ rehydrate' = rehydrate /\ rest' = rest
    BY <1>3 DEF back, n
  <2>2. Sane'
    BY <2>1 DEF Sane
  <2>3. Progress'
    BY <2>1 DEF Progress, Working, Complete, InStore
  <2>4. RefusedForDemand'
    <3>1. PICK p \in back : p \in gone
      BY <1>3
    <3>2. p \in gone \ must_run /\ InStore(p) /\ p \in DataInputs[n]
      BY <1>1, <3>1
    <3>3. \A S \in SUBSET Node : Complete(S) => \E m \in S : p \in DataInputs[m]
      BY <1>2, <3>2
    <3>4. InStore(p)' /\ \A S \in SUBSET Node : Complete(S)' <=> Complete(S)
      BY <3>2 DEF InStore, Complete
    <3>5. p \in (gone \ must_run)'
      BY <2>1, <3>2
    <3>6. QED
      BY <3>3, <3>4, <3>5 DEF RefusedForDemand
  <2>5. QED
    BY <2>2, <2>3, <2>4
<1>4. CASE back \cap gone = {}
  <2>1. /\ must_run' = must_run \cup Recomputed(n)
        /\ rehydrate' = (rehydrate \ Recomputed(n)) \cup back
        /\ rest' = rest \ {n} /\ phase' = "demand"
    BY <1>4 DEF back, n
  <2>2. Recomputed(n) \subseteq Node /\ back \subseteq Node
    BY <1>1
  <2>3. Sane'
    BY <2>1, <2>2 DEF Sane
  <2>4. \A S \in SUBSET Node : Complete(S)' => must_run' \subseteq S
    <3> SUFFICES ASSUME NEW S \in SUBSET Node, Complete(S)' PROVE must_run' \subseteq S
      OBVIOUS
    <3>1. Complete(S)
      BY DEF Complete, InStore
    <3>2. must_run \subseteq S
      BY <3>1 DEF Progress
    <3>3. Recomputed(n) \subseteq S
      BY <1>1, <1>2, <3>1 DEF Complete
    <3>4. QED
      BY <2>1, <3>2, <3>3
  <2>5. Seed' \subseteq must_run' /\ before' \subseteq must_run'
    BY <2>1 DEF Progress, Working, Seed, Succeeded
  <2>6. rest' \subseteq must_run'
    BY <2>1 DEF Progress
  <2>7. Fixpoint' => Closed(Node)' /\ Provided(must_run \ rest)'
    <3> SUFFICES ASSUME Fixpoint' PROVE Closed(Node)' /\ Provided(must_run \ rest)'
      OBVIOUS
    <3>1. must_run' = must_run /\ Recomputed(n) = {} /\ Fixpoint
      BY <1>1, <2>1 DEF Progress, Working, Fixpoint
    <3>2. Closed(Node) /\ Provided(must_run \ rest)
      BY <3>1 DEF Progress
    <3>3. Closed(Node)'
      BY <3>1, <3>2 DEF Closed, PulledDown
    <3>4. rehydrate' = rehydrate \cup back
      BY <2>1, <3>1
    <3>5. \A p \in DataInputs[n] : p \in must_run' \/ (InStore(p)' /\ p \in (rehydrate \ gone)')
      <4> SUFFICES ASSUME NEW p \in DataInputs[n], p \notin must_run
                   PROVE InStore(p)' /\ p \in (rehydrate \ gone)'
        BY <3>1
      <4>1. p \in back /\ InStore(p)
        BY <1>1, <3>1
      <4>2. QED
        BY <1>4, <3>4, <4>1 DEF InStore
    <3>6. \A m \in must_run \ rest : \A p \in DataInputs[m] :
              p \in must_run' \/ (InStore(p)' /\ p \in (rehydrate \ gone)')
      BY <3>1, <3>2, <3>4 DEF Provided, InStore
    <3>7. QED
      BY <2>1, <3>1, <3>3, <3>5, <3>6 DEF Provided
  <2>8. Progress'
    BY <2>1, <2>4, <2>5, <2>6, <2>7 DEF Progress, Working
  <2>9. QED
    BY <2>1, <2>3, <2>8 DEF RefusedForDemand
<1>5. QED
  BY <1>3, <1>4

\* The end of a round: the plan is finished, or another round starts.
LEMMA EndRoundKeeps == ASSUME PlannerInv, EndRound PROVE PlannerInv'
<1> USE DEF PlannerInv, EndRound
<1>1. Sane'
  BY DEF Sane
<1>2. \A S \in SUBSET Node : Complete(S)' => must_run' \subseteq S
  BY DEF Progress, Complete, InStore
<1>3. Seed' \subseteq must_run' /\ before' \subseteq must_run'
  BY DEF Progress, Working, Seed, Succeeded
<1>4. phase' = "planned" => Closed(Node)' /\ Provided(must_run)'
  <2> SUFFICES ASSUME Fixpoint PROVE Closed(Node)' /\ Provided(must_run)'
    BY DEF Fixpoint
  <2>1. Closed(Node) /\ Provided(must_run \ rest) /\ rest = {}
    BY DEF Progress
  <2>2. QED
    BY <2>1 DEF Closed, Provided, PulledDown, InStore
<1>5. phase' = "close" => Closed(Node \ rest)'
  <2> SUFFICES ASSUME ~Fixpoint PROVE Closed(Node \ rest)'
    BY DEF Fixpoint
  <2>1. rest' = Node
    OBVIOUS
  <2>2. QED
    BY <2>1 DEF Closed
<1>6. phase' \in {"close", "planned"}
  OBVIOUS
<1>7. Progress'
  BY <1>2, <1>3, <1>4, <1>5, <1>6 DEF Progress, Working
<1>8. QED
  BY <1>1, <1>6, <1>7 DEF RefusedForDemand

\* Every step of the planner keeps the invariant.
LEMMA PlannerSteps == PlannerInv /\ [Next]_vars => PlannerInv'
<1> SUFFICES ASSUME PlannerInv, [Next]_vars PROVE PlannerInv'
  OBVIOUS
<1>1. CASE \E a, t, s \in BOOLEAN : Gate(a, t, s)
  BY <1>1, GateKeeps
<1>2. CASE Close
  BY <1>2, CloseKeeps
<1>3. CASE StartDemand
  BY <1>3, StartDemandKeeps
<1>4. CASE Demand
  BY <1>4, DemandKeeps
<1>5. CASE EndRound
  BY <1>5, EndRoundKeeps
<1>6. CASE UNCHANGED vars
  <2> USE <1>6 DEF vars, planner
  <2>1. Sane'
    BY DEF PlannerInv, Sane
  <2>2. /\ Seed' = Seed /\ Working' = Working /\ Fixpoint' = Fixpoint
        /\ \A S \in SUBSET Node : Complete(S)' <=> Complete(S)
    BY DEF Seed, Succeeded, Working, Fixpoint, Complete, InStore
  <2>3. /\ Closed(Node)' <=> Closed(Node)
        /\ Closed(Node \ rest)' <=> Closed(Node \ rest)
        /\ Provided(must_run)' <=> Provided(must_run)
        /\ Provided(must_run \ rest)' <=> Provided(must_run \ rest)
    BY DEF Closed, PulledDown, Provided, InStore
  <2>4. Progress'
    BY <2>2, <2>3 DEF PlannerInv, Progress
  <2>5. RefusedForDemand'
    BY <2>2 DEF PlannerInv, RefusedForDemand, InStore
  <2>6. QED
    BY <2>1, <2>4, <2>5 DEF PlannerInv
<1>7. QED
  BY <1>1, <1>2, <1>3, <1>4, <1>5, <1>6 DEF Next, Planning

\* The planner's strengthened invariant holds for every pipeline and prior run.
THEOREM PlannerInvariant == Spec => []PlannerInv
  BY PlannerStarts, PlannerSteps, PTL DEF Spec

\* The planner's variables keep their types.
THEOREM PlannerTypeOK == Spec => []TypeOK
<1>1. Init => TypeOK
  BY DEF Init, PlannerInit, TypeOK
<1>2. TypeOK /\ PlannerInv' /\ [Next]_vars => TypeOK'
  BY DEF TypeOK, PlannerInv, Sane, Next, Planning, Gate, Close, StartDemand, Demand,
         EndRound, vars, planner
<1>3. QED
  BY <1>1, <1>2, PlannerInvariant, PTL DEF Spec

\* resolve_demand: whatever the names and the order of its passes, the plan it
\* ends with is the least set that the three rules of resume require.
THEOREM PlanIsTheLeastPlan == Spec => []PlanIsLeast
<1>1. PlannerInv => PlanIsLeast
  <2> SUFFICES ASSUME PlannerInv, phase = "planned"
               PROVE  Complete(must_run) /\ \A S \in SUBSET Node : Complete(S) => must_run \subseteq S
    BY DEF PlanIsLeast
  <2>1. Seed \subseteq must_run /\ Closed(Node) /\ Provided(must_run)
    BY DEF PlannerInv, Progress, Working
  <2>2. Complete(must_run)
    BY <2>1 DEF Complete, Seed, Succeeded, Closed, Provided, PulledDown
  <2>3. QED
    BY <2>2 DEF PlannerInv, Progress
<1>2. QED
  BY <1>1, PlannerInvariant, PTL

\* resolve_demand: no node is planned to run again without its inputs.
THEOREM EveryInputProvided == Spec => []InputsProvided
<1>1. PlannerInv => InputsProvided
  <2> SUFFICES ASSUME PlannerInv, phase = "planned", NEW n \in must_run, NEW p \in DataInputs[n],
                      p \notin must_run
               PROVE  InStore(p) /\ p \in (rehydrate \cap Satisfied) \ gone
    BY DEF InputsProvided
  <2>1. InStore(p) /\ p \in rehydrate \ gone
    BY DEF PlannerInv, Progress, Provided
  <2>2. p \in Node
    BY DEF PlannerInv, Sane
  <2>3. Succeeded(p)
    BY <2>1 DEF InStore, Succeeded
  <2>4. QED
    BY <2>1, <2>2, <2>3 DEF Satisfied
<1>2. QED
  BY <1>1, PlannerInvariant, PTL

\* resolve_demand: a dangling or mutated reference is refused only on demand.
THEOREM RefusalIsDemanded == Spec => []RefusedForDemand
  BY PlannerInvariant, PTL DEF PlannerInv
-----------------------------------------------------------------------------
(* The chain of runs *)

USE DEF Alive

\* The store's tables are functions of the nodes.
ChainTypes ==
    /\ gen \in Nat \ {0}
    /\ slot \in [Node -> Nat] /\ store \in [Node -> Nat]
    /\ DOMAIN body = Node /\ DOMAIN states = Node
    /\ must_run \subseteq Node

\* A plan is the first run's, which is everything, or one the planner is making.
Prepared == life = "planned" => (phase = "planned" /\ must_run = Node) \/ PlannerInv

\* Of a reference with a hash that the probe found whole, the store holds the
\* recorded value or, by now, nothing.
StillThere ==
    life = "planned" =>
        \A p \in Hashed \ gone : prior[p].ref => store[p] \in {0, recorded[p]}

\* A node that does not run again has given its value to those that do.
ReadBack(p) == slot[p] # 0 /\ (p \in Hashed => slot[p] = recorded[p])
Supplied ==
    Alive => \A n \in must_run : \A p \in DataInputs[n] : p \in must_run \/ ReadBack(p)

\* Only nodes of the plan run, and one that succeeded has filled its slot.
BodiesOfPlan ==
    \A n \in Node :
        /\ body[n] # "no" => Alive /\ n \in must_run
        /\ Alive /\ n \in must_run =>
              /\ states[n] # "satisfied-from-prior"
              /\ states[n] = "succeeded" \/ body[n] \in {"succeeded", "retried"} => slot[n] = gen

ChainInv ==
    ChainTypes /\ Prepared /\ StillThere /\ Supplied /\ BodiesOfPlan /\ RightInputs
\* Two states that agree on what the invariant speaks of agree on it.
LEMMA ChainStays ==
    ASSUME ChainInv,
           UNCHANGED <<prior, gone, planner, gen, store, slot, states, body, recorded>>,
           UNCHANGED life \/ (life = "up" /\ life' = "closing")
    PROVE  ChainInv'
<1>1. PlannerInv => PlannerInv'
  BY PlannerSteps DEF vars
<1>2. ChainTypes' /\ Prepared' /\ StillThere'
  BY <1>1 DEF ChainInv, ChainTypes, Prepared, StillThere, planner
<1>3. Supplied' /\ BodiesOfPlan' /\ RightInputs'
  BY DEF ChainInv, Supplied, ReadBack, BodiesOfPlan, RightInputs, planner
<1>4. QED
  BY <1>2, <1>3 DEF ChainInv

\* The first run has everything to do and nothing to read back.
LEMMA ChainStarts == StoreInit => ChainInv
<1> SUFFICES ASSUME StoreInit PROVE ChainInv
  OBVIOUS
<1>1. ChainTypes /\ Prepared
  BY DEF StoreInit, ChainTypes, Prepared
<1>2. StillThere
  BY StoreAssumption DEF StoreInit, StillThere
<1>3. Supplied /\ BodiesOfPlan /\ RightInputs
  BY DEF StoreInit, Supplied, BodiesOfPlan, RightInputs
<1>4. QED
  BY <1>1, <1>2, <1>3 DEF ChainInv

\* What a finished plan reads back is in the store, and recorded as it is.
LEMMA PlanReadsBack ==
    ASSUME ChainInv, life = "planned", phase = "planned",
           \A n \in rehydrate : store[n] # 0,
           NEW n \in must_run, NEW p \in DataInputs[n], p \notin must_run
    PROVE  /\ p \in Node /\ p \in rehydrate /\ store[p] # 0
           /\ p \in Hashed => store[p] = recorded[p]
<1>1. must_run \subseteq Node /\ (must_run = Node \/ PlannerInv)
  BY DEF ChainInv, Prepared, PlannerInv, Sane
<1>2. n \in Node /\ p \in Node
  BY <1>1
<1>3. PlannerInv
  BY <1>1, <1>2
<1>4. InStore(p) /\ p \in rehydrate \ gone
  BY <1>3 DEF PlannerInv, Progress, Provided
<1>5. prior[p].ref
  BY <1>4 DEF InStore
<1>6. p \in Hashed => store[p] \in {0, recorded[p]}
  BY <1>4, <1>5 DEF ChainInv, StillThere
<1>7. QED
  BY <1>2, <1>4, <1>6

\* The launch: what is read back is in the slots, and nothing runs yet.
LEMMA LaunchKeeps == ASSUME ChainInv, Launch PROVE ChainInv'
<1>0. /\ UNCHANGED <<prior, gone, phase, must_run, rehydrate, before, rest, body, gen, store, recorded>>
      /\ life = "planned" /\ phase = "planned" /\ \A n \in rehydrate : store[n] # 0
  BY DEF Launch, planner, history
<1>1. /\ slot' = [n \in Node |-> IF n \in rehydrate THEN store[n] ELSE 0]
      /\ states' = [n \in Node |-> IF n \in Satisfied THEN "satisfied-from-prior" ELSE "open"]
      /\ life' = "up"
  BY DEF Launch
<1>2. ChainTypes'
  BY <1>0, <1>1 DEF ChainInv, ChainTypes
<1>3. Prepared' /\ StillThere'
  BY <1>1 DEF Prepared, StillThere
<1>4. Supplied'
  <2> SUFFICES ASSUME NEW n \in must_run, NEW p \in DataInputs[n], p \notin must_run
               PROVE  ReadBack(p)'
    BY <1>0 DEF Supplied
  <2>1. /\ p \in Node /\ p \in rehydrate /\ store[p] # 0
        /\ p \in Hashed => store[p] = recorded[p]
    BY <1>0, PlanReadsBack
  <2>2. slot'[p] = store[p]
    BY <1>1, <2>1
  <2>3. QED
    BY <1>0, <2>1, <2>2 DEF ReadBack
<1>5. \A n \in Node : body'[n] = "no"
  BY <1>0 DEF ChainInv, BodiesOfPlan
<1>6. \A n \in Node : n \in must_run => states'[n] = "open"
  BY <1>1 DEF Satisfied
<1>7. BodiesOfPlan' /\ RightInputs'
  BY <1>0, <1>5, <1>6 DEF BodiesOfPlan, RightInputs
<1>8. QED
  BY <1>2, <1>3, <1>4, <1>7 DEF ChainInv

\* A start: every input is in its slot.
LEMMA StartKeeps == ASSUME ChainInv, NEW n \in Node, Start(n) PROVE ChainInv'
<1> USE DEF Start
<1>0. /\ UNCHANGED <<prior, gone, phase, must_run, rehydrate, before, rest, life, states,
                     slot, gen, store, recorded>>
      /\ body' = [body EXCEPT ![n] = "running"] /\ life = "up" /\ n \in must_run
  BY DEF planner, history
<1>1. ChainTypes' /\ Prepared' /\ StillThere' /\ Supplied'
  <2>1. ChainTypes'
    BY ONLY ChainInv, <1>0 DEF ChainInv, ChainTypes
  <2>2. Prepared' /\ StillThere' /\ Supplied'
    BY <1>0 DEF ChainInv, Prepared, StillThere, Supplied, ReadBack
  <2>3. QED
    BY <2>1, <2>2
<1>2. \A m \in Node : body'[m] = IF m = n THEN "running" ELSE body[m]
  BY <1>0 DEF ChainInv, ChainTypes
<1>3. BodiesOfPlan'
  BY <1>0, <1>2 DEF ChainInv, BodiesOfPlan
<1>4. RightInputs'
  <2> SUFFICES ASSUME NEW m \in Node, body'[m] = "running", NEW p \in DataInputs[m]
               PROVE  IF p \in must_run THEN slot[p] = gen ELSE ReadBack(p)
    BY <1>0 DEF RightInputs, ReadBack
  <2>1. CASE m # n
    BY <1>2, <2>1 DEF ChainInv, RightInputs, ReadBack
  <2>2. CASE m = n
    <3>1. p \in Node /\ SuccessLike(p)
      BY <2>2
    <3>2. p \in must_run => slot[p] = gen
      BY <1>0, <3>1 DEF SuccessLike, ChainInv, BodiesOfPlan
    <3>3. p \notin must_run => ReadBack(p)
      BY <1>0, <2>2 DEF ChainInv, Supplied
    <3>4. QED
      BY <3>2, <3>3
  <2>3. QED
    BY <2>1, <2>2
<1>5. QED
  BY <1>1, <1>3, <1>4 DEF ChainInv

\* A body returns: a value of this run is in its slot, or nothing has changed.
LEMMA ReturnKeeps == ASSUME ChainInv, NEW n \in Node, Return(n) PROVE ChainInv'
<1>0. /\ UNCHANGED <<prior, gone, phase, must_run, rehydrate, before, rest, life, states,
                     gen, recorded>>
      /\ body[n] = "running"
  BY DEF Return, planner
<1>1. PICK result \in Results :
         /\ body' = [body EXCEPT ![n] = result]
         /\ slot' = IF StateOf(result) = "succeeded" THEN [slot EXCEPT ![n] = gen] ELSE slot
         /\ store' = IF StateOf(result) = "succeeded" /\ n \in Durable
                     THEN [store EXCEPT ![n] = gen] ELSE store
  BY DEF Return
<1>2. Alive /\ n \in must_run
  BY <1>0 DEF ChainInv, BodiesOfPlan
<1>3. result \in {"succeeded", "retried", "failed", "skipped"}
  BY StoreAssumption
<1>4. ChainTypes'
  BY <1>0, <1>1, <1>3 DEF ChainInv, ChainTypes
<1>5. Prepared' /\ StillThere'
  BY <1>0, <1>2 DEF Prepared, StillThere
<1>6. \A m \in Node : /\ m # n => slot'[m] = slot[m] /\ body'[m] = body[m]
                      /\ body'[n] = result
                      /\ slot'[n] = slot[n] \/ slot'[n] = gen
  BY <1>1 DEF ChainInv, ChainTypes
<1>7. result \in {"succeeded", "retried"} => slot'[n] = gen
  BY <1>1 DEF StateOf, ChainInv, ChainTypes
<1>8. \A p \in Node \ must_run : ReadBack(p) => ReadBack(p)'
  BY <1>0, <1>2, <1>6 DEF ReadBack
<1>9. Supplied'
  <2> SUFFICES ASSUME NEW m \in must_run, NEW p \in DataInputs[m], p \notin must_run
               PROVE  ReadBack(p)'
    BY <1>0 DEF Supplied
  <2>1. p \in Node
    BY DEF ChainInv, ChainTypes
  <2>2. QED
    BY <1>2, <1>8, <2>1 DEF ChainInv, Supplied
<1>10. BodiesOfPlan'
  BY <1>0, <1>2, <1>3, <1>6, <1>7 DEF ChainInv, BodiesOfPlan
<1>11. RightInputs'
  <2> SUFFICES ASSUME NEW m \in Node, body'[m] = "running", NEW p \in DataInputs[m]
               PROVE  IF p \in must_run THEN slot'[p] = gen ELSE ReadBack(p)'
    BY <1>0 DEF RightInputs, ReadBack
  <2>1. body[m] = "running" /\ p \in Node
    BY <1>0, <1>3, <1>6
  <2>2. IF p \in must_run THEN slot[p] = gen ELSE ReadBack(p)
    BY <2>1 DEF ChainInv, RightInputs, ReadBack
  <2>3. QED
    BY <1>6, <1>8, <2>1, <2>2
<1>12. QED
  BY <1>4, <1>5, <1>9, <1>10, <1>11 DEF ChainInv

\* What became of a body, or of a node that cannot fire, is taken up.
LEMMA DecideKeeps ==
    ASSUME ChainInv, NEW n \in Node, Report(n) \/ Propagate(n)
    PROVE  ChainInv'
<1>0. /\ UNCHANGED <<prior, gone, phase, must_run, rehydrate, before, rest, life, body, slot,
                     gen, store, recorded>>
      /\ life = "up"
  BY DEF Report, Propagate, planner, history
<1>1. PICK s :
         /\ states' = [states EXCEPT ![n] = s] /\ s # "satisfied-from-prior"
         /\ s = "succeeded" => body[n] \in {"succeeded", "retried"}
  <2>1. CASE Report(n)
    BY <2>1, StoreAssumption DEF Report, StateOf
  <2>2. CASE Propagate(n)
    BY <2>2 DEF Propagate
  <2>3. QED
    BY <2>1, <2>2
<1>2. \A m \in Node : states'[m] = IF m = n THEN s ELSE states[m]
  BY <1>1 DEF ChainInv, ChainTypes
<1>3. ChainTypes' /\ Prepared' /\ StillThere' /\ Supplied' /\ RightInputs'
  BY <1>0, <1>1 DEF ChainInv, ChainTypes, Prepared, StillThere, Supplied, ReadBack, RightInputs
<1>4. BodiesOfPlan'
  BY <1>0, <1>1, <1>2 DEF ChainInv, BodiesOfPlan
<1>5. QED
  BY <1>3, <1>4 DEF ChainInv

\* The process ends: nothing runs and nothing is planned.
LEMMA StopKeeps == ASSUME ChainInv, Stop PROVE ChainInv'
<1> USE DEF Stop, Blank
<1>1. ChainTypes'
  BY DEF ChainInv, ChainTypes
<1>2. Prepared' /\ StillThere' /\ Supplied'
  BY DEF Prepared, StillThere, Supplied
<1>3. BodiesOfPlan' /\ RightInputs'
  BY DEF BodiesOfPlan, RightInputs
<1>4. QED
  BY <1>1, <1>2, <1>3 DEF ChainInv

\* An object is deleted between runs: its reference leads nowhere.
LEMMA VanishKeeps == ASSUME ChainInv, NEW n \in Node, Vanish(n) PROVE ChainInv'
<1>0. /\ UNCHANGED <<prior, gone, planner, phase, must_run, rehydrate, before, rest, life, states, body, slot,
                     gen, recorded>>
      /\ store' = [store EXCEPT ![n] = 0]
  BY DEF Vanish, planner, running
<1>1. PlannerInv => PlannerInv'
  BY <1>0, PlannerSteps DEF vars
<1>2. ChainTypes' /\ Prepared'
  BY <1>0, <1>1 DEF ChainInv, ChainTypes, Prepared
<1>3. StillThere'
  <2>1. Hashed \subseteq Node
    BY StoreAssumption
  <2>2. \A p \in Node : store'[p] = IF p = n THEN 0 ELSE store[p]
    BY <1>0 DEF ChainInv, ChainTypes
  <2>3. QED
    BY <1>0, <2>1, <2>2 DEF ChainInv, StillThere
<1>4. Supplied' /\ BodiesOfPlan' /\ RightInputs'
  BY <1>0 DEF ChainInv, Supplied, ReadBack, BodiesOfPlan, RightInputs
<1>5. QED
  BY <1>2, <1>3, <1>4 DEF ChainInv

\* A resume begins with a planner at its gate, and with what the probe found.
LEMMA ResumeKeeps == ASSUME ChainInv, Resume PROVE ChainInv'
<1>0. /\ UNCHANGED <<states, body, slot, store>> /\ gen' = gen + 1 /\ life' = "planned"
      /\ phase' = "gate" /\ must_run' = {} /\ rehydrate' = {} /\ before' = {} /\ rest' = {}
  BY DEF Resume
<1>1. ~Alive
  BY DEF Resume
<1>2. PICK g \in 1..gen : /\ prior' = PriorOf(artifact[g]) /\ gone' = Dangling(artifact[g])
                          /\ recorded' = [n \in Node |-> artifact[g].node[n].value]
  BY DEF Resume
<1>3. ChainTypes'
  BY <1>0 DEF ChainInv, ChainTypes
<1>4. PlannerInv'
  <2>1. Sane'
    <3>1. \A n \in Node : prior'[n] = [state |-> artifact[g].node[n].state,
                                       ref |-> artifact[g].node[n].value # 0]
      BY <1>2 DEF PriorOf
    <3>2. ASSUME NEW n \in Node
          PROVE  /\ prior'[n] = [state |-> prior'[n].state, ref |-> prior'[n].ref]
                 /\ prior'[n].ref \in BOOLEAN
      <4> DEFINE s == artifact[g].node[n].state
                 r == artifact[g].node[n].value # 0
      <4>1. prior'[n] = [state |-> s, ref |-> r]
        BY <3>1
      <4>2. prior'[n].state = s /\ prior'[n].ref = r
        BY <4>1
      <4>3. QED
        BY <4>1, <4>2, Zenon
    <3>3. gone' \subseteq Node
      BY <1>2 DEF Dangling
    <3>4. QED
      BY <1>0, <3>2, <3>3 DEF Sane
  <2>2. Progress'
    BY <1>0 DEF Progress, Working
  <2>3. RefusedForDemand'
    BY <1>0 DEF RefusedForDemand
  <2>4. QED
    BY <2>1, <2>2, <2>3 DEF PlannerInv
<1>5. StillThere'
  <2> SUFFICES ASSUME NEW p \in Hashed, p \notin gone', prior'[p].ref
               PROVE  store'[p] = recorded'[p]
    BY DEF StillThere
  <2>1. p \in Node
    BY StoreAssumption
  <2>2. prior'[p].ref = (artifact[g].node[p].value # 0) /\ recorded'[p] = artifact[g].node[p].value
    BY <1>2, <2>1 DEF PriorOf
  <2>3. QED
    BY <1>0, <1>2, <2>1, <2>2 DEF Dangling
<1>6. Supplied' /\ BodiesOfPlan' /\ RightInputs'
  BY <1>0, <1>1 DEF ChainInv, Supplied, BodiesOfPlan, RightInputs
<1>7. QED
  BY <1>0, <1>3, <1>4, <1>5, <1>6 DEF ChainInv, Prepared

\* A step of the planner.
LEMMA PlanKeeps == ASSUME ChainInv, Plan PROVE ChainInv'
<1>0. /\ UNCHANGED <<prior, gone, life, states, body, slot, gen, store, recorded>>
      /\ life = "planned" /\ phase # "planned" /\ Next
  BY DEF Plan, running, history, Planning, Next, Close, StartDemand, Demand, EndRound, Gate
<1>1. PlannerInv'
  BY <1>0, PlannerSteps DEF ChainInv, Prepared
<1>2. ChainTypes' /\ Prepared' /\ StillThere'
  BY <1>0, <1>1 DEF ChainInv, ChainTypes, Prepared, StillThere, PlannerInv, Sane
<1>3. Supplied' /\ BodiesOfPlan' /\ RightInputs'
  BY <1>0 DEF ChainInv, Supplied, BodiesOfPlan, RightInputs
<1>4. QED
  BY <1>2, <1>3 DEF ChainInv

\* Every step of the chain keeps its invariant.
LEMMA ChainSteps == ChainInv /\ [StoreNext]_all => ChainInv'
<1> SUFFICES ASSUME ChainInv, [StoreNext]_all PROVE ChainInv'
  OBVIOUS
<1>1. CASE AppendRecord \/ SinkFault \/ Conclude \/ FoldStream \/ UNCHANGED all
  <2>1. /\ UNCHANGED <<prior, gone, planner, gen, store, slot, states, body, recorded>>
        /\ UNCHANGED life \/ (life = "up" /\ life' = "closing")
    BY <1>1 DEF AppendRecord, SinkFault, Conclude, FoldStream, all, running, history
  <2>2. QED
    BY <2>1, ChainStays
<1>2. CASE Launch
  BY <1>2, LaunchKeeps
<1>3. CASE Stop
  BY <1>3, StopKeeps
<1>4. CASE Resume
  BY <1>4, ResumeKeeps
<1>5. CASE Plan
  BY <1>5, PlanKeeps
<1>6. CASE \E n \in Node : Start(n) \/ Return(n) \/ Report(n) \/ Propagate(n) \/ Vanish(n)
  BY <1>6, StartKeeps, ReturnKeeps, DecideKeeps, VanishKeeps
<1>7. QED
  BY <1>1, <1>2, <1>3, <1>4, <1>5, <1>6 DEF StoreNext

\* The chain's strengthened invariant.
THEOREM ChainInvariant == StoreSpec => []ChainInv
  BY ChainStarts, ChainSteps, PTL DEF StoreSpec

\* Resume, launch and run loop: over any chain of runs, killed at any moment,
\* with objects deleted in between and any earlier run resumed, a body that runs
\* has the value of every input: this run's, or the one the resumed run recorded.
THEOREM BodiesHaveTheirInputs == StoreSpec => []RightInputs
  BY ChainInvariant, PTL DEF ChainInv
-----------------------------------------------------------------------------
(* What a run leaves of itself *)

Kinds == {"node-ready", "node-admitted", "attempt-started", "attempt-outcome",
          "output-produced", "node-terminal", "run-started", "run-finished", "garbled"}
Statuses == {"", "succeeded", "failed", "skipped", "satisfied-from-prior",
             "upstream-failed", "upstream-skipped"}
Records == [kind : Kinds, node : Nat, attempt : Nat, status : Statuses, value : Nat]

\* A record that speaks of a success or of an output speaks of this run's.
Truthful(r) ==
    /\ r.kind \in {"attempt-outcome", "node-terminal"} /\ r.status = "succeeded" =>
          r.node \in ran /\ r.value \in {0, gen}
    /\ r.kind = "output-produced" => r.node \in ran /\ r.value = gen

\* The last attempt of n that the records tell of succeeded.
Tell(s, n) ==
    \E i \in At(s, "attempt-outcome", n) :
        s[i].status = "succeeded" /\ \A j \in At(s, "attempt-outcome", n) : j <= i

\* Before a record of an output comes that of the successful attempt it is of.
Backs(r, o) == /\ r.kind = "attempt-outcome" /\ r.status = "succeeded"
               /\ r.node = o.node /\ r.attempt = o.attempt /\ r.value = o.value
Backed(s) ==
    \A i \in DOMAIN s : s[i].kind = "output-produced" =>
        \E j \in DOMAIN s : j < i /\ Backs(s[j], s[i])

Decided == \A n \in Node : states[n] # "open"

StreamTypes ==
    /\ stream \in Seq(Records) /\ batch \in Seq(Records)
    /\ gen \in Nat \ {0} /\ faults \in Nat /\ ran \subseteq Node
    /\ slot \in [Node -> Nat] /\ store \in [Node -> Nat]
    /\ DOMAIN body = Node /\ DOMAIN states = Node

\* Outside a running process nothing is being written, and no body runs.
Quiet ==
    /\ ~Alive => batch = <<>> /\ \A n \in Node : body[n] = "no"
    /\ life = "planned" => stream = <<>> /\ ran = {}

\* What a body did is what the run knows of it.
BodiesAgree ==
    \A n \in Node :
        /\ body[n] \in {"succeeded", "retried"} => n \in ran
        /\ Alive /\ n \in ran => body[n] \in {"succeeded", "retried"}
        /\ body[n] = "running" => states[n] = "open"

\* The run's outcome is the last record of the run, of a run with nothing open.
FinishIsLast ==
    /\ \A i \in DOMAIN batch : batch[i].kind = "run-finished" => Len(batch) = 1 /\ life = "closing"
    /\ ~Interrupted(stream) => batch = <<>> /\ life # "up"
    /\ life = "closing" => Decided

\* While no append is lost, the records of a decided node are on disk or about to be.
NothingLost ==
    faults = 0 =>
        /\ tail = "ended"
        /\ Backed(stream \o batch)
        /\ Alive => \A n \in ran : states[n] # "open" => Tell(stream \o batch, n)
        /\ ~Interrupted(stream) => \A n \in ran : Tell(stream, n)

AllTruthful == /\ \A i \in DOMAIN stream : Truthful(stream[i])
               /\ \A i \in DOMAIN batch : Truthful(batch[i])

StreamInv ==
    StreamTypes /\ Quiet /\ BodiesAgree /\ AllTruthful /\ FinishIsLast /\ NothingLost

-----------------------------------------------------------------------------
(* The order of positions *)

\* Of a finite set of numbers every member has a place in the order, the
\* members before it counted, and the last place is that of the greatest.
LEMMA PlacesInOrder ==
    ASSUME NEW S \in SUBSET Nat, IsFiniteSet(S), S # {}
    PROVE  /\ Cardinality(S) \in Nat \ {0}
           /\ \A k \in 1..Cardinality(S) : Nth(S, k) \in S
           /\ \A i \in S : \E k \in 1..Cardinality(S) : Nth(S, k) = i
           /\ \A i \in S : i <= Nth(S, Cardinality(S))
<1> DEFINE upto(i) == {j \in S : j <= i}
           N == Cardinality(S)
           rank  == [i \in S |-> Cardinality(upto(i))]
<1>1. N \in Nat \ {0}
  BY FS_CardinalityType, FS_EmptySet
<1>2. \A i \in S : /\ upto(i) \in SUBSET S /\ IsFiniteSet(upto(i))
                   /\ Cardinality(upto(i)) \in 1..N
  <2> SUFFICES ASSUME NEW i \in S
               PROVE  /\ upto(i) \in SUBSET S /\ IsFiniteSet(upto(i))
                      /\ Cardinality(upto(i)) \in 1..N
    OBVIOUS
  <2>1. upto(i) \in SUBSET S /\ i \in upto(i)
    OBVIOUS
  <2>2. IsFiniteSet(upto(i)) /\ Cardinality(upto(i)) <= N
    BY <2>1, FS_Subset
  <2>3. Cardinality(upto(i)) \in Nat /\ Cardinality(upto(i)) # 0
    BY <2>1, <2>2, FS_CardinalityType, FS_EmptySet
  <2>4. QED
    BY <1>1, <2>1, <2>2, <2>3
<1>3. \A i, j \in S : i < j => Cardinality(upto(i)) < Cardinality(upto(j))
  <2> SUFFICES ASSUME NEW i \in S, NEW j \in S, i < j
               PROVE  Cardinality(upto(i)) < Cardinality(upto(j))
    OBVIOUS
  <2>1. \A k \in S : k \in Nat /\ (k <= i => k <= j)
    OBVIOUS
  <2>2. \A k \in upto(i) : k \in upto(j)
    BY <2>1
  <2>3. i \in Nat /\ j \in Nat /\ j <= j /\ ~(j <= i)
    BY <2>1
  <2>4. upto(i) \in SUBSET upto(j) /\ j \in upto(j) /\ j \notin upto(i)
    BY <2>2, <2>3
  <2>5. upto(j) # upto(i)
    BY <2>4
  <2>6. /\ Cardinality(upto(i)) <= Cardinality(upto(j))
        /\ Cardinality(upto(j)) # Cardinality(upto(i))
    BY <1>2, <2>4, <2>5, FS_Subset
  <2>7. Cardinality(upto(i)) \in Nat /\ Cardinality(upto(j)) \in Nat
    BY <1>2, FS_CardinalityType
  <2>8. QED
    BY <2>6, <2>7
<1>4. \A i, j \in S : Cardinality(upto(i)) = Cardinality(upto(j)) => i = j
  <2> SUFFICES ASSUME NEW i \in S, NEW j \in S, i # j
               PROVE  Cardinality(upto(i)) # Cardinality(upto(j))
    OBVIOUS
  <2>1. Cardinality(upto(i)) \in Nat /\ Cardinality(upto(j)) \in Nat
    BY <1>2
  <2>2. i \in Nat /\ j \in Nat /\ (i < j \/ j < i)
    OBVIOUS
  <2>3. QED
    BY <1>3, <2>1, <2>2
<1>5. rank \in Injection(S, 1..N)
  <2>1. rank \in [S -> 1..N]
    BY <1>2
  <2>2. \A i, j \in S : rank[i] = rank[j] => i = j
    BY <1>4
  <2>3. QED
    BY <2>1, <2>2 DEF Injection, IsInjective
<1>6. IsFiniteSet(1..N) /\ Cardinality(1..N) = N
  BY <1>1, FS_Interval
<1>7. rank \in Surjection(S, 1..N)
  BY <1>5, <1>6, FS_Injection
<1>8. \A k \in 1..N : \E i \in S : Cardinality(upto(i)) = k
  BY <1>7 DEF Surjection
<1>9. \A i \in S : Nth(S, Cardinality(upto(i))) = i
  <2> SUFFICES ASSUME NEW i \in S PROVE Nth(S, Cardinality(upto(i))) = i
    OBVIOUS
  <2>1. \A j \in S : Cardinality(upto(j)) = Cardinality(upto(i)) <=> j = i
    BY <1>4
  <2> DEFINE k == Cardinality(upto(i))
  <2>2. Nth(S, k) = CHOOSE j \in S : Cardinality(upto(j)) = k
    BY DEF Nth
  <2>3. (CHOOSE j \in S : Cardinality(upto(j)) = k) \in S
        /\ Cardinality(upto(CHOOSE j \in S : Cardinality(upto(j)) = k)) = k
    <3> HIDE DEF upto
    <3>1. \E j \in S : Cardinality(upto(j)) = k
      OBVIOUS
    <3>2. QED
      BY <3>1
  <2>4. QED
    BY <2>1, <2>2, <2>3
<1>10. \A k \in 1..N : Nth(S, k) \in S
  BY <1>8, <1>9
<1>11. \A i \in S : \E k \in 1..N : Nth(S, k) = i
  BY <1>2, <1>9
<1>12. \A i \in S : i <= Nth(S, N)
  <2> DEFINE last == Nth(S, N)
  <2>0. N \in 1..N
    BY <1>1
  <2>1. last \in S /\ last \in Nat
    BY <1>10, <2>0
  <2>2. PICK l \in S : Cardinality(upto(l)) = N
    BY <1>1, <1>8
  <2>3. l = last
    BY <1>9, <2>2
  <2>4. upto(l) = S
    BY <1>2, <2>2, FS_Subset
  <2>5. QED
    BY <2>3, <2>4
<1>13. QED
  BY <1>1, <1>10, <1>11, <1>12

\* The attempts of n are those of its outcome records and the last of them is
\* that of the last one, or without any the last is of a terminal record.
Listed(s, n, outcomes, attempts) ==
    /\ outcomes # {} =>
         /\ \E i \in outcomes :
              /\ \A j \in outcomes : j <= i
              /\ Last(attempts).status = s[i].status
              /\ Last(attempts).value = s[i].value
         /\ \A i \in outcomes : \E k \in DOMAIN attempts :
              /\ attempts[k].attempt = s[i].attempt
              /\ attempts[k].status = s[i].status
              /\ attempts[k].value = s[i].value
    /\ outcomes = {} =>
         \/ Last(attempts).status = "upstream-failed"
         \/ \E i \in DOMAIN s : /\ s[i].kind = "node-terminal" /\ s[i].node = n
                                /\ Last(attempts).status = s[i].status
                                /\ Last(attempts).value = s[i].value

\* Of records, the attempts of a node are its outcome records in their order;
\* the last of them is its record.
LEMMA AttemptsAreOutcomes ==
    ASSUME NEW s \in Seq(Records), NEW n
    PROVE  Listed(s, n, At(s, "attempt-outcome", n), AttemptsOf(s, n))
<1> DEFINE outcomes == At(s, "attempt-outcome", n)
           terminals == At(s, "node-terminal", n)
           attempts == AttemptsOf(s, n)
           N == Cardinality(outcomes)
           made(k) == Attempt(s[Nth(outcomes, k)].attempt, s[Nth(outcomes, k)].status,
                              s[Nth(outcomes, k)].value, Phases(s, Nth(outcomes, k)))
<1>1. DOMAIN s = 1..Len(s) /\ Len(s) \in Nat
  BY LenProperties
<1>2. /\ outcomes \in SUBSET Nat /\ IsFiniteSet(outcomes)
      /\ terminals \in SUBSET Nat /\ IsFiniteSet(terminals)
      /\ \A i \in terminals : i \in DOMAIN s /\ s[i].kind = "node-terminal" /\ s[i].node = n
  <2>1. outcomes \in SUBSET (1..Len(s)) /\ terminals \in SUBSET (1..Len(s))
    BY <1>1 DEF At
  <2>2. IsFiniteSet(1..Len(s))
    BY <1>1, FS_Interval
  <2>3. IsFiniteSet(outcomes) /\ IsFiniteSet(terminals)
    BY <2>1, <2>2, FS_Subset
  <2>4. QED
    BY <2>1, <2>3 DEF At
<1>3. ASSUME outcomes # {} PROVE Listed(s, n, outcomes, attempts)
  <2>1. attempts = [k \in 1..N |-> made(k)]
    BY <1>3 DEF AttemptsOf
  <2>2. /\ N \in Nat \ {0}
        /\ \A k \in 1..N : Nth(outcomes, k) \in outcomes
        /\ \A i \in outcomes : \E k \in 1..N : Nth(outcomes, k) = i
        /\ \A i \in outcomes : i <= Nth(outcomes, N)
    BY <1>2, <1>3, PlacesInOrder
  <2>3. DOMAIN attempts = 1..N /\ \A k \in 1..N :
           /\ attempts[k].attempt = s[Nth(outcomes, k)].attempt
           /\ attempts[k].status = s[Nth(outcomes, k)].status
           /\ attempts[k].value = s[Nth(outcomes, k)].value
    BY <2>1 DEF Attempt
  <2>4. Last(attempts) = attempts[N]
    <3> HIDE DEF made, N
    <3>1. Len(attempts) = N
      BY <2>1, <2>2
    <3>2. QED
      BY <3>1 DEF Last
  <2>5. N \in 1..N
    BY <2>2
  <2> HIDE DEF attempts, outcomes, N
  <2>6. \E i \in outcomes : /\ \A j \in outcomes : j <= i
                            /\ Last(attempts).status = s[i].status
                            /\ Last(attempts).value = s[i].value
    BY <2>2, <2>3, <2>4, <2>5
  <2>7. \A i \in outcomes : \E k \in DOMAIN attempts :
                        /\ attempts[k].attempt = s[i].attempt
                        /\ attempts[k].status = s[i].status
                        /\ attempts[k].value = s[i].value
    <3> SUFFICES ASSUME NEW i \in outcomes
                 PROVE  \E k \in DOMAIN attempts : /\ attempts[k].attempt = s[i].attempt
                                                  /\ attempts[k].status = s[i].status
                                                  /\ attempts[k].value = s[i].value
      OBVIOUS
    <3>1. PICK k \in 1..N : Nth(outcomes, k) = i
      BY <2>2
    <3>2. /\ k \in DOMAIN attempts /\ attempts[k].attempt = s[i].attempt
          /\ attempts[k].status = s[i].status /\ attempts[k].value = s[i].value
      BY <2>3, <3>1
    <3>3. QED
      BY <3>2
  <2>8. QED
    BY <1>3, <2>6, <2>7 DEF Listed
<1>4. ASSUME outcomes = {} PROVE Listed(s, n, outcomes, attempts)
  <2>1. attempts = <<IF terminals # {} THEN NeverRan(s[Max(terminals)])
                     ELSE Attempt(1, "upstream-failed", 0, NoPhases)>>
    BY <1>4 DEF AttemptsOf
  <2>2. Last(attempts) = IF terminals # {} THEN NeverRan(s[Max(terminals)])
                         ELSE Attempt(1, "upstream-failed", 0, NoPhases)
    BY <2>1 DEF Last
  <2>3. CASE terminals = {}
    <3>1. Last(attempts).status = "upstream-failed"
      BY <2>2, <2>3 DEF Attempt
    <3> HIDE DEF attempts, outcomes
    <3>2. QED
      BY <1>4, <3>1 DEF Listed
  <2>4. CASE terminals # {}
    <3>1. Max(terminals) \in terminals
      <4>1. \A i \in terminals : i <= Nth(terminals, Cardinality(terminals))
        BY <1>2, <2>4, PlacesInOrder
      <4>2. Nth(terminals, Cardinality(terminals)) \in terminals
        <5>1. /\ Cardinality(terminals) \in Nat \ {0}
              /\ \A k \in 1..Cardinality(terminals) : Nth(terminals, k) \in terminals
          BY <1>2, <2>4, PlacesInOrder
        <5>2. QED
          BY <5>1
      <4>3. \E x \in terminals : \A y \in terminals : x >= y
        BY <1>2, <4>1, <4>2
      <4>4. QED
        BY <4>3 DEF Max
    <3>2. /\ Last(attempts).status = s[Max(terminals)].status
          /\ Last(attempts).value = s[Max(terminals)].value
      BY <2>2, <2>4 DEF NeverRan, Attempt
    <3> HIDE DEF attempts, outcomes, terminals
    <3>3. QED
      BY <1>2, <1>4, <3>1, <3>2 DEF Listed
  <2>5. QED
    BY <2>3, <2>4
<1> HIDE DEF attempts, outcomes
<1>5. Listed(s, n, outcomes, attempts)
  BY <1>3, <1>4
<1>6. QED
  BY <1>5 DEF attempts, outcomes

-----------------------------------------------------------------------------
(* Records put behind others *)

\* The places of two joined streams, one behind the other.
LEMMA RecordsJoin ==
    ASSUME NEW s \in Seq(Records), NEW t \in Seq(Records)
    PROVE  /\ s \o t \in Seq(Records)
           /\ Len(s) \in Nat /\ DOMAIN s = 1..Len(s) /\ DOMAIN t = 1..Len(t)
           /\ \A i \in DOMAIN s : i \in DOMAIN (s \o t) /\ (s \o t)[i] = s[i] /\ i <= Len(s)
           /\ \A j \in DOMAIN t : /\ Len(s) + j \in DOMAIN (s \o t)
                                  /\ (s \o t)[Len(s) + j] = t[j] /\ Len(s) < Len(s) + j
           /\ \A i \in DOMAIN (s \o t) : /\ i \in Nat
                                         /\ \/ i \in DOMAIN s
                                            \/ \E j \in DOMAIN t : i = Len(s) + j
<1>1. /\ s \o t \in Seq(Records) /\ Len(s \o t) = Len(s) + Len(t)
      /\ \A i \in 1..(Len(s) + Len(t)) :
            (s \o t)[i] = IF i <= Len(s) THEN s[i] ELSE t[i - Len(s)]
  BY ConcatProperties
<1>2. /\ Len(s) \in Nat /\ DOMAIN s = 1..Len(s) /\ Len(t) \in Nat /\ DOMAIN t = 1..Len(t)
      /\ DOMAIN (s \o t) = 1..(Len(s) + Len(t))
  BY <1>1, LenProperties
<1>3. \A i \in DOMAIN s : i \in DOMAIN (s \o t) /\ (s \o t)[i] = s[i] /\ i <= Len(s)
  BY <1>1, <1>2
<1>4. \A j \in DOMAIN t : /\ Len(s) + j \in DOMAIN (s \o t)
                          /\ (s \o t)[Len(s) + j] = t[j] /\ Len(s) < Len(s) + j
  <2> SUFFICES ASSUME NEW j \in DOMAIN t
               PROVE  /\ Len(s) + j \in 1..(Len(s) + Len(t))
                      /\ (s \o t)[Len(s) + j] = t[j] /\ Len(s) < Len(s) + j
    BY <1>2
  <2>1. /\ Len(s) + j \in 1..(Len(s) + Len(t)) /\ ~(Len(s) + j <= Len(s))
        /\ Len(s) + j - Len(s) = j
    BY <1>2
  <2>2. QED
    BY <1>1, <1>2, <2>1
<1>5. \A i \in DOMAIN (s \o t) : /\ i \in Nat
                                 /\ \/ i \in DOMAIN s
                                    \/ \E j \in DOMAIN t : i = Len(s) + j
  <2>1. ASSUME NEW i \in 1..(Len(s) + Len(t))
        PROVE  i \in Nat /\ (i \in 1..Len(s) \/ \E j \in 1..Len(t) : i = Len(s) + j)
    <3>1. Len(s) \in Nat /\ Len(t) \in Nat
      BY <1>2
    <3>2. i \in Nat /\ 1 <= i /\ i <= Len(s) + Len(t)
      BY <3>1
    <3>3. CASE i <= Len(s)
      BY <3>1, <3>2, <3>3
    <3>4. CASE Len(s) < i
      <4>1. i - Len(s) \in 1..Len(t) /\ i = Len(s) + (i - Len(s))
        BY <3>1, <3>2, <3>4
      <4>2. QED
        BY <3>2, <4>1
    <3>5. QED
      BY <3>1, <3>2, <3>3, <3>4
  <2>2. QED
    BY <1>2, <2>1
<1>6. QED
  BY <1>1, <1>2, <1>3, <1>4, <1>5

\* A record of two joined streams is a record of one of them.
LEMMA JoinedElements ==
    ASSUME NEW s \in Seq(Records), NEW t \in Seq(Records)
    PROVE  \A i \in DOMAIN (s \o t) : \/ \E j \in DOMAIN s : (s \o t)[i] = s[j]
                                    \/ \E j \in DOMAIN t : (s \o t)[i] = t[j]
  BY RecordsJoin

\* Records of other nodes or of other kinds leave what is told of a node.
LEMMA StillTold ==
    ASSUME NEW s \in Seq(Records), NEW t \in Seq(Records), NEW n, Tell(s, n),
           \A j \in DOMAIN t : t[j].kind = "attempt-outcome" => t[j].node # n
    PROVE  Tell(s \o t, n)
<1>1. PICK i \in At(s, "attempt-outcome", n) :
         s[i].status = "succeeded" /\ \A j \in At(s, "attempt-outcome", n) : j <= i
  BY DEF Tell
<1>2. i \in DOMAIN s /\ s[i].kind = "attempt-outcome" /\ s[i].node = n
  BY DEF At
<1>3. i \in At(s \o t, "attempt-outcome", n) /\ (s \o t)[i].status = "succeeded"
  BY <1>1, <1>2, RecordsJoin DEF At
<1>4. ASSUME NEW j \in At(s \o t, "attempt-outcome", n) PROVE j <= i
  <2>1. j \in DOMAIN (s \o t) /\ (s \o t)[j].kind = "attempt-outcome" /\ (s \o t)[j].node = n
    BY DEF At
  <2>2. CASE j \in DOMAIN s
    <3>1. (s \o t)[j] = s[j]
      BY <2>2, RecordsJoin
    <3>2. j \in At(s, "attempt-outcome", n)
      BY <2>1, <2>2, <3>1 DEF At
    <3>3. QED
      BY <1>1, <3>2
  <2>3. CASE \E k \in DOMAIN t : j = Len(s) + k
    BY <2>1, <2>3, RecordsJoin
  <2>4. QED
    BY <2>1, <2>2, <2>3, RecordsJoin
<1>5. QED
  BY <1>3, <1>4 DEF Tell

\* What the later records tell of a node is what is told of it.
LEMMA NowTold ==
    ASSUME NEW s \in Seq(Records), NEW t \in Seq(Records), NEW n, Tell(t, n)
    PROVE  Tell(s \o t, n)
<1>1. PICK i \in At(t, "attempt-outcome", n) :
         t[i].status = "succeeded" /\ \A j \in At(t, "attempt-outcome", n) : j <= i
  BY DEF Tell
<1>2. i \in DOMAIN t /\ t[i].kind = "attempt-outcome" /\ t[i].node = n
  BY DEF At
<1>3. Len(s) + i \in At(s \o t, "attempt-outcome", n) /\ (s \o t)[Len(s) + i].status = "succeeded"
  BY <1>1, <1>2, RecordsJoin DEF At
<1>4. ASSUME NEW j \in At(s \o t, "attempt-outcome", n) PROVE j <= Len(s) + i
  <2>1. j \in DOMAIN (s \o t) /\ (s \o t)[j].kind = "attempt-outcome" /\ (s \o t)[j].node = n
    BY DEF At
  <2>2. i \in Nat /\ Len(s) \in Nat /\ j \in Nat
    BY <1>2, <2>1, RecordsJoin
  <2>3. CASE j \in DOMAIN s
    <3>1. j <= Len(s)
      BY <2>3, RecordsJoin
    <3>2. QED
      BY <2>2, <3>1
  <2>4. CASE \E k \in DOMAIN t : j = Len(s) + k
    <3>1. PICK k \in DOMAIN t : j = Len(s) + k
      BY <2>4
    <3>2. (s \o t)[j] = t[k] /\ k \in Nat
      BY <3>1, RecordsJoin
    <3>3. k \in At(t, "attempt-outcome", n)
      BY <2>1, <3>1, <3>2 DEF At
    <3>4. QED
      BY <1>1, <2>2, <3>1, <3>2, <3>3
  <2>5. QED
    BY <2>1, <2>3, <2>4, RecordsJoin
<1>5. QED
  BY <1>3, <1>4 DEF Tell

\* Outputs stay backed when records come that back their own.
LEMMA StillBacked ==
    ASSUME NEW s \in Seq(Records), NEW t \in Seq(Records), Backed(s), Backed(t)
    PROVE  Backed(s \o t)
<1> SUFFICES ASSUME NEW i \in DOMAIN (s \o t), (s \o t)[i].kind = "output-produced"
             PROVE  \E j \in DOMAIN (s \o t) : j < i /\ Backs((s \o t)[j], (s \o t)[i])
  BY DEF Backed
<1>1. CASE i \in DOMAIN s
  <2>1. (s \o t)[i] = s[i]
    BY <1>1, RecordsJoin
  <2>2. PICK j \in DOMAIN s : j < i /\ Backs(s[j], s[i])
    BY <1>1, <2>1 DEF Backed
  <2>3. j \in DOMAIN (s \o t) /\ (s \o t)[j] = s[j]
    BY RecordsJoin
  <2>4. QED
    BY <2>1, <2>2, <2>3
<1>2. CASE \E k \in DOMAIN t : i = Len(s) + k
  <2>1. PICK k \in DOMAIN t : i = Len(s) + k
    BY <1>2
  <2>2. (s \o t)[i] = t[k]
    BY <2>1, RecordsJoin
  <2>3. PICK j \in DOMAIN t : j < k /\ Backs(t[j], t[k])
    BY <2>2 DEF Backed
  <2>4. Len(s) + j \in DOMAIN (s \o t) /\ (s \o t)[Len(s) + j] = t[j]
    BY RecordsJoin
  <2>5. Len(s) + j < i
    <3>1. Len(s) \in Nat /\ j \in Nat /\ k \in Nat
      BY RecordsJoin
    <3>2. QED
      BY <2>1, <2>3, <3>1
  <2>6. QED
    BY <2>2, <2>3, <2>4, <2>5
<1>3. QED
  BY <1>1, <1>2, RecordsJoin

\* What backs an output is before it, so it is there when the rest is cut off.
LEMMA StartIsBacked ==
    ASSUME NEW s \in Seq(Records), NEW t \in Seq(Records), Backed(s \o t)
    PROVE  Backed(s)
<1> SUFFICES ASSUME NEW i \in DOMAIN s, s[i].kind = "output-produced"
             PROVE  \E j \in DOMAIN s : j < i /\ Backs(s[j], s[i])
  BY DEF Backed
<1>1. i \in DOMAIN (s \o t) /\ (s \o t)[i] = s[i] /\ i <= Len(s)
  BY RecordsJoin
<1>2. PICK j \in DOMAIN (s \o t) : j < i /\ Backs((s \o t)[j], (s \o t)[i])
  BY <1>1 DEF Backed
<1>3. j \in DOMAIN s
  <2>1. ASSUME NEW k \in DOMAIN t, j = Len(s) + k PROVE FALSE
    <3>1. Len(s) < j /\ Len(s) \in Nat /\ j \in Nat /\ i \in Nat
      BY <2>1, RecordsJoin
    <3>2. QED
      BY <1>1, <1>2, <3>1
  <2>2. QED
    BY <2>1, RecordsJoin
<1>4. QED
  BY <1>1, <1>2, <1>3, RecordsJoin

\* Records of n alone, not the run's outcome, that tell of a success of this
\* run only if ok.
Own(t, n, ok) ==
    /\ t \in Seq(Records)
    /\ \A i \in DOMAIN t :
          /\ t[i].node = n /\ t[i].kind # "run-finished"
          /\ t[i].kind \in {"attempt-outcome", "node-terminal"} /\ t[i].status = "succeeded" =>
                ok /\ t[i].value \in {0, gen}
          /\ t[i].kind = "output-produced" => ok /\ t[i].value = gen

\* The records of one node joined are records of that node.
LEMMA OwnJoin ==
    ASSUME NEW n, NEW ok, NEW s, NEW t, Own(s, n, ok), Own(t, n, ok)
    PROVE  Own(s \o t, n, ok)
<1>1. s \in Seq(Records) /\ t \in Seq(Records) /\ s \o t \in Seq(Records)
  BY RecordsJoin DEF Own
<1>2. \A i \in DOMAIN (s \o t) : \/ \E j \in DOMAIN s : (s \o t)[i] = s[j]
                                \/ \E j \in DOMAIN t : (s \o t)[i] = t[j]
  BY <1>1, JoinedElements
<1>3. QED
  BY <1>1, <1>2 DEF Own

\* The records of a returned body are of its node alone, and tell of a success
\* only if it was one: then last of all, and its output behind it.
LEMMA ReportsTell ==
    ASSUME NEW n \in Node, NEW result \in Results, gen \in Nat
    PROVE  LET t == RecordsOf(n, result) IN
           /\ Own(t, n, StateOf(result) = "succeeded")
           /\ Backed(t)
           /\ StateOf(result) = "succeeded" => Tell(t, n)
<1>1. n \in Nat /\ Reference(n) \in {0, gen} /\ Reference(n) \in Nat
  BY NodeAssumption DEF Reference
<1>2. n \in Durable => Reference(n) = gen
  BY DEF Reference
<1>3. result \in {"succeeded", "retried", "failed", "skipped"}
  BY StoreAssumption
<1> DEFINE ok == StateOf(result) = "succeeded"
           v == Reference(n)
           opens(k) == <<Admitted(n), Begun(n, k)>>
           failed == <<Outcome(n, 1, "failed", 0)>>
           told(k) == <<Outcome(n, k, "succeeded", v)>>
           output(k) == IF n \in Durable THEN <<Produced(n, k, gen)>> ELSE <<>>
           ended(s) == <<Terminal(n, s)>>
<1>4. ASSUME NEW r \in Records, r.node = n, r.kind # "run-finished",
             r.kind \in {"attempt-outcome", "node-terminal"} /\ r.status = "succeeded" =>
                ok /\ r.value \in {0, gen},
             r.kind = "output-produced" => ok /\ r.value = gen
      PROVE  Own(<<r>>, n, ok)
  BY <1>4 DEF Own
<1>5. \A k \in {1, 2} : /\ Own(opens(k), n, ok) /\ opens(k) \in Seq(Records) /\ DOMAIN opens(k) = 1..2
                       /\ \A i \in 1..2 : opens(k)[i].kind \notin {"attempt-outcome", "output-produced"}
  <2> SUFFICES ASSUME NEW k \in {1, 2}
               PROVE  /\ Own(opens(k), n, ok) /\ opens(k) \in Seq(Records) /\ DOMAIN opens(k) = 1..2
                      /\ \A i \in 1..2 : opens(k)[i].kind \notin {"attempt-outcome", "output-produced"}
    OBVIOUS
  <2>1. Admitted(n) \in Records /\ Begun(n, k) \in Records
    BY <1>1 DEF Admitted, Begun, Note, Records, Kinds, Statuses
  <2>2. /\ Admitted(n).kind = "node-admitted" /\ Begun(n, k).kind = "attempt-started"
        /\ Admitted(n).node = n /\ Begun(n, k).node = n
    BY DEF Admitted, Begun, Note
  <2>3. QED
    BY <2>1, <2>2 DEF Own
<1>6. /\ Own(failed, n, ok) /\ failed \in Seq(Records) /\ Backed(failed)
      /\ \A s \in Statuses : s # "succeeded" \/ ok =>
            Own(ended(s), n, ok) /\ ended(s) \in Seq(Records) /\ Backed(ended(s))
      /\ \A s \in Statuses : DOMAIN ended(s) = 1..1 /\ ended(s)[1].kind = "node-terminal"
  <2>1. Outcome(n, 1, "failed", 0) \in Records
    BY <1>1 DEF Outcome, Note, Records, Kinds, Statuses
  <2>2. \A s \in Statuses : Terminal(n, s) \in Records
    BY <1>1 DEF Terminal, Note, Records, Kinds
  <2>3. Own(failed, n, ok) /\ failed \in Seq(Records)
    <3>1. /\ Outcome(n, 1, "failed", 0).node = n /\ Outcome(n, 1, "failed", 0).status = "failed"
          /\ Outcome(n, 1, "failed", 0).kind = "attempt-outcome"
      BY DEF Outcome, Note
    <3>2. QED
      BY <1>4, <2>1, <3>1
  <2>4. ASSUME NEW s \in Statuses, s # "succeeded" \/ ok
        PROVE  Own(ended(s), n, ok) /\ ended(s) \in Seq(Records)
    <3>1. /\ Terminal(n, s).node = n /\ Terminal(n, s).status = s /\ Terminal(n, s).value = 0
          /\ Terminal(n, s).kind = "node-terminal"
      BY DEF Terminal, Note
    <3>2. QED
      BY <1>4, <2>2, <2>4, <3>1
  <2>5. Backed(failed) /\ \A s \in Statuses : Backed(ended(s))
    BY DEF Backed, Outcome, Terminal, Note
  <2>6. \A s \in Statuses : DOMAIN ended(s) = 1..1 /\ ended(s)[1].kind = "node-terminal"
    BY DEF Terminal, Note
  <2>7. QED
    BY <2>3, <2>4, <2>5, <2>6
<1>7. \A k \in {1, 2} : opens(k) \in Seq(Records) /\ Backed(opens(k))
  BY <1>5 DEF Backed
\* a failed first attempt
<1>8. LET t == opens(1) \o failed IN t \in Seq(Records) /\ Own(t, n, ok) /\ Backed(t)
  BY <1>5, <1>6, <1>7, OwnJoin, StillBacked, RecordsJoin
\* a successful attempt, its output behind it
<1>9. ASSUME NEW k \in {1, 2}, ok
      PROVE  LET t == opens(k) \o told(k) \o output(k) \o ended("succeeded") IN
             t \in Seq(Records) /\ Own(t, n, ok) /\ Backed(t) /\ Tell(t, n)
  <2> DEFINE o == Outcome(n, k, "succeeded", v)
             p == Produced(n, k, gen)
             t1 == opens(k) \o told(k)
             t2 == t1 \o output(k)
             t3 == t2 \o ended("succeeded")
  <2>1. /\ o \in Records /\ o.node = n /\ o.kind = "attempt-outcome" /\ o.status = "succeeded"
        /\ o.value = v /\ o.attempt = k
    BY <1>1 DEF Outcome, Note, Records, Kinds, Statuses
  <2>2. /\ p \in Records /\ p.node = n /\ p.kind = "output-produced" /\ p.value = gen /\ p.attempt = k
    BY <1>1 DEF Produced, Note, Records, Kinds, Statuses
  <2>3. Own(<<o>>, n, ok) /\ <<o>> \in Seq(Records) /\ Own(<<p>>, n, ok) /\ <<p>> \in Seq(Records)
    <3>1. Own(<<o>>, n, ok)
      BY <1>1, <1>4, <1>9, <2>1
    <3>2. Own(<<p>>, n, ok)
      BY <1>4, <1>9, <2>2
    <3>3. QED
      BY <2>1, <2>2, <3>1, <3>2
  <2>4. t1 \in Seq(Records) /\ Own(t1, n, ok) /\ Backed(t1)
    <3>1. Backed(<<o>>)
      BY <2>1 DEF Backed
    <3>2. QED
      BY <1>5, <1>7, <2>3, <3>1, OwnJoin, StillBacked, RecordsJoin
  <2>5. Tell(t1, n)
    <3>1. At(<<o>>, "attempt-outcome", n) = {1}
      BY <2>1 DEF At
    <3>2. Tell(<<o>>, n)
      BY <2>1, <3>1 DEF Tell
    <3>3. QED
      BY <1>5, <2>3, <3>2, NowTold
  <2>6. /\ t2 \in Seq(Records) /\ Own(t2, n, ok) /\ Backed(t2) /\ Tell(t2, n)
    <3>1. CASE n \notin Durable
      <4>1. output(k) = <<>> /\ t2 = t1
        BY <2>4, <3>1, ConcatEmptySeq
      <4>2. QED
        BY <2>4, <2>5, <4>1
    <3>2. CASE n \in Durable
      <4>1. t2 = t1 \o <<p>>
        BY <3>2
      <4>2. t2 \in Seq(Records) /\ Own(t2, n, ok)
        BY <2>3, <2>4, <4>1, OwnJoin, RecordsJoin
      <4>3. Tell(t2, n)
        <5>1. \A j \in DOMAIN <<p>> : <<p>>[j].kind # "attempt-outcome"
          BY <2>2
        <5>2. t1 \in Seq(Records) /\ <<p>> \in Seq(Records) /\ Tell(t1, n)
          BY <2>3, <2>4, <2>5
        <5> HIDE DEF p, t1, t2
        <5>3. Tell(t1 \o <<p>>, n)
          BY <5>1, <5>2, StillTold
        <5>4. QED
          BY <4>1, <5>3
      <4>4. Backed(t2)
        <5>1. 1 \in DOMAIN <<o>> /\ 1 \in DOMAIN <<p>> /\ DOMAIN <<p>> = {1}
          OBVIOUS
        <5>2. PICK j \in DOMAIN t1 : t1[j] = o
          <6>1. opens(k) \in Seq(Records) /\ <<o>> \in Seq(Records) /\ t1 = opens(k) \o <<o>>
            BY <1>5, <2>3
          <6>2. <<o>>[1] = o
            OBVIOUS
          <6> HIDE DEF o, t1, opens
          <6>3. Len(opens(k)) + 1 \in DOMAIN t1 /\ t1[Len(opens(k)) + 1] = <<o>>[1]
            BY <5>1, <6>1, RecordsJoin
          <6>4. QED
            BY <6>2, <6>3
        <5>3. Backs(o, p)
          BY <1>2, <2>1, <2>2, <3>2 DEF Backs
        <5> SUFFICES ASSUME NEW i \in DOMAIN t2, t2[i].kind = "output-produced"
                     PROVE  \E l \in DOMAIN t2 : l < i /\ Backs(t2[l], t2[i])
          BY DEF Backed
        <5>4. CASE i \in DOMAIN t1
          <6>1. t2[i] = t1[i]
            BY <2>3, <2>4, <4>1, <5>4, RecordsJoin
          <6>2. PICK l \in DOMAIN t1 : l < i /\ Backs(t1[l], t1[i])
            BY <2>4, <5>4, <6>1 DEF Backed
          <6>3. l \in DOMAIN t2 /\ t2[l] = t1[l]
            BY <2>3, <2>4, <4>1, RecordsJoin
          <6>4. QED
            BY <6>1, <6>2, <6>3
        <5>5. CASE i = Len(t1) + 1
          <6>1. t2[i] = p
            BY <2>3, <2>4, <4>1, <5>1, <5>5, RecordsJoin
          <6>2. j \in DOMAIN t2 /\ t2[j] = o /\ j <= Len(t1) /\ j \in Nat /\ Len(t1) \in Nat
            BY <2>3, <2>4, <4>1, <5>2, RecordsJoin
          <6>3. j < i
            BY <5>5, <6>2
          <6>4. QED
            BY <5>3, <6>1, <6>2, <6>3
        <5>6. i \in DOMAIN t1 \/ i = Len(t1) + 1
          BY <2>3, <2>4, <4>1, <5>1, RecordsJoin
        <5>7. QED
          BY <5>4, <5>5, <5>6
      <4>5. QED
        BY <4>2, <4>3, <4>4
    <3>3. QED
      BY <3>1, <3>2
  <2>7. /\ Own(ended("succeeded"), n, ok) /\ ended("succeeded") \in Seq(Records)
        /\ Backed(ended("succeeded"))
        /\ DOMAIN ended("succeeded") = 1..1 /\ ended("succeeded")[1].kind = "node-terminal"
    <3>1. "succeeded" \in Statuses
      BY DEF Statuses
    <3>2. QED
      BY <1>6, <1>9, <3>1
  <2> HIDE DEF t2, ended, output, told, opens
  <2>8. t3 \in Seq(Records) /\ Own(t3, n, ok) /\ Backed(t3)
    BY <2>6, <2>7, OwnJoin, StillBacked, RecordsJoin
  <2>9. Tell(t3, n)
    <3>1. \A j \in DOMAIN ended("succeeded") : ended("succeeded")[j].kind # "attempt-outcome"
      BY <2>7
    <3>2. QED
      BY <2>6, <2>7, <3>1, StillTold
  <2>10. QED
    BY <2>8, <2>9 DEF t2
<1>10. CASE result = "succeeded"
  <2>1. ok
    BY <1>10 DEF StateOf
  <2>2. RecordsOf(n, result) = opens(1) \o told(1) \o output(1) \o ended("succeeded")
    BY <1>10 DEF RecordsOf
  <2>3. QED
    BY <1>9, <2>1, <2>2
<1>11. CASE result = "retried"
  <2>1. ok
    BY <1>11 DEF StateOf
  <2> DEFINE a == opens(1) \o failed
             b == opens(2) \o told(2) \o output(2) \o ended("succeeded")
  <2>2. RecordsOf(n, result) = a \o b
    BY <1>11 DEF RecordsOf
  <2>3. /\ a \in Seq(Records) /\ Own(a, n, ok) /\ Backed(a)
        /\ b \in Seq(Records) /\ Own(b, n, ok) /\ Backed(b) /\ Tell(b, n)
    BY <1>8, <1>9, <2>1
  <2> HIDE DEF a, b, ok
  <2>4. Own(a \o b, n, ok) /\ Backed(a \o b) /\ Tell(a \o b, n)
    BY <2>3, OwnJoin, StillBacked, NowTold
  <2>5. QED
    BY <2>2, <2>4 DEF ok
<1>12. CASE result \in {"failed", "skipped"}
  <2>1. ~ok /\ result \in Statuses /\ result # "succeeded"
    BY <1>12 DEF StateOf, Statuses
  <2> DEFINE a == opens(1) \o failed
             b == ended(result)
  <2>2. RecordsOf(n, result) = a \o b
    BY <1>12 DEF RecordsOf
  <2>3. /\ a \in Seq(Records) /\ Own(a, n, ok) /\ Backed(a)
        /\ b \in Seq(Records) /\ Own(b, n, ok) /\ Backed(b)
    BY <1>6, <1>8, <2>1
  <2> HIDE DEF a, b
  <2>4. Own(a \o b, n, ok) /\ Backed(a \o b)
    BY <2>3, OwnJoin, StillBacked
  <2>5. QED
    BY <2>1, <2>2, <2>4
<1>13. QED
  BY <1>3, <1>10, <1>11, <1>12

-----------------------------------------------------------------------------
(* Every step of the run store keeps it *)

\* The first record to be written moves behind those on disk; none is added or lost.
LEMMA OneMoves ==
    ASSUME NEW s \in Seq(Records), NEW b \in Seq(Records), b # <<>>
    PROVE  /\ Head(b) \in Records /\ Tail(b) \in Seq(Records) /\ Head(b) = b[1] /\ 1 \in DOMAIN b
           /\ Append(s, Head(b)) \in Seq(Records)
           /\ Append(s, Head(b)) \o Tail(b) = s \o b
           /\ \A i \in DOMAIN Tail(b) : i + 1 \in DOMAIN b /\ Tail(b)[i] = b[i + 1]
           /\ Len(b) = 1 => Tail(b) = <<>>
<1>1. /\ Head(b) = b[1] /\ 1 \in DOMAIN b /\ Head(b) \in Records /\ Tail(b) \in Seq(Records)
      /\ \A i \in DOMAIN Tail(b) : i + 1 \in DOMAIN b /\ Tail(b)[i] = b[i + 1]
      /\ DOMAIN Tail(b) = 1..(Len(b) - 1)
  BY TailElements
<1>2. <<Head(b)>> \o Tail(b) = b
  BY HeadTailProperties
<1>3. Append(s, Head(b)) = s \o <<Head(b)>> /\ <<Head(b)>> \in Seq(Records)
  BY <1>1, AppendIsConcat
<1>4. Append(s, Head(b)) \o Tail(b) = s \o b
  BY <1>1, <1>2, <1>3, ConcatAssociative
<1>5. Len(b) = 1 => Tail(b) = <<>>
  BY <1>1, LenProperties, EmptySeq
<1>6. QED
  BY <1>1, <1>3, <1>4, <1>5, AppendProperties

\* A step that touches nothing of the stream, the bodies or the decisions.
LEMMA StreamStays ==
    ASSUME StreamInv, store' \in [Node -> Nat],
           UNCHANGED <<gen, stream, tail, faults, life, batch, states, body, slot, ran>>
    PROVE  StreamInv'
<1>1. StreamTypes' /\ Quiet' /\ BodiesAgree'
  BY DEF StreamInv, StreamTypes, Quiet, BodiesAgree
<1>2. AllTruthful' /\ FinishIsLast' /\ NothingLost'
  BY DEF StreamInv, AllTruthful, Truthful, FinishIsLast, Decided, NothingLost
<1>3. QED
  BY <1>1, <1>2 DEF StreamInv

\* The first run has written nothing.
LEMMA StreamStarts == StoreInit => StreamInv
<1> SUFFICES ASSUME StoreInit PROVE StreamInv
  OBVIOUS
<1>1. StreamTypes
  BY DEF StoreInit, StreamTypes
<1>2. Quiet /\ BodiesAgree
  BY DEF StoreInit, Quiet, BodiesAgree
<1>3. AllTruthful /\ FinishIsLast
  BY DEF StoreInit, AllTruthful, FinishIsLast, Interrupted
<1>4. NothingLost
  <2>1. stream \o batch = <<>> /\ Interrupted(stream) /\ tail = "ended" /\ ran = {}
    BY ConcatEmptySeq DEF StoreInit, Interrupted
  <2>2. QED
    BY <2>1 DEF NothingLost, Backed
<1>5. QED
  BY <1>1, <1>2, <1>3, <1>4 DEF StreamInv

\* A decision of a running process writes records behind those on disk.
LEMMA DecisionWrites ==
    ASSUME StreamInv, batch = <<>>, UNCHANGED <<gen, stream, tail, faults, ran>>,
           batch' \in Seq(Records), Backed(batch'),
           \A i \in DOMAIN batch' : Truthful(batch'[i])
    PROVE  /\ stream' \in Seq(Records) /\ AllTruthful'
           /\ faults = 0 => /\ tail' = "ended" /\ Backed(stream' \o batch')
                            /\ \A n : Tell(stream \o batch, n) => Tell(stream, n)
<1>1. stream \in Seq(Records) /\ stream \o batch = stream
  BY ConcatEmptySeq DEF StreamInv, StreamTypes
<1>2. AllTruthful'
  BY DEF StreamInv, AllTruthful, Truthful
<1>3. faults = 0 => tail' = "ended" /\ Backed(stream' \o batch')
  <2>1. faults = 0 => tail = "ended" /\ Backed(stream)
    BY <1>1 DEF StreamInv, NothingLost
  <2>2. QED
    BY <1>1, <2>1, StillBacked
<1>4. QED
  BY <1>1, <1>2, <1>3

\* The run starts with the records of the nodes it has from before.
LEMMA LaunchRecords ==
    ASSUME StreamInv, Launch
    PROVE  /\ batch' \in Seq(Records)
           /\ \A i \in DOMAIN batch' : /\ batch'[i].kind \notin {"output-produced", "run-finished"}
                                       /\ batch'[i].status # "succeeded"
<1> DEFINE N == Cardinality(Satisfied)
           known(n) == IF n \in rehydrate THEN slot'[n] ELSE 0
           record(i) == LET n == Nth(Satisfied, i \div 3 + 1) IN
               CASE i % 3 = 0 -> Ready(n)
                 [] i % 3 = 1 -> Outcome(n, 1, "satisfied-from-prior", known(n))
                 [] i % 3 = 2 -> Terminal(n, "satisfied-from-prior")
           entries == [i \in 1..(3 * N) |-> record(i - 1)]
           Plain(r) == /\ r \in Records /\ r.kind \notin {"output-produced", "run-finished"}
                       /\ r.status # "succeeded"
<1>1. batch' = <<Started>> \o entries
  BY DEF Launch
<1>2. Satisfied \in SUBSET Node /\ IsFiniteSet(Satisfied) /\ N \in Nat
  <2>1. Satisfied \in SUBSET Node
    BY DEF Satisfied
  <2>2. QED
    BY <2>1, NodeAssumption, FS_Subset, FS_CardinalityType
<1>3. \A n \in Node : known(n) \in Nat
  BY DEF Launch, StreamInv, StreamTypes
<1>4. \A n \in Node : /\ Plain(Ready(n))
                      /\ Plain(Outcome(n, 1, "satisfied-from-prior", known(n)))
                      /\ Plain(Terminal(n, "satisfied-from-prior"))
  <2> SUFFICES ASSUME NEW n \in Node
               PROVE  /\ Plain(Ready(n))
                      /\ Plain(Outcome(n, 1, "satisfied-from-prior", known(n)))
                      /\ Plain(Terminal(n, "satisfied-from-prior"))
    OBVIOUS
  <2>1. n \in Nat /\ known(n) \in Nat
    BY <1>3, NodeAssumption
  <2> HIDE DEF known
  <2>2. QED
    BY <2>1 DEF Ready, Outcome, Terminal, Note, Records, Kinds, Statuses
<1>5. \A i \in 1..(3 * N) : Plain(record(i - 1))
  <2> SUFFICES ASSUME NEW i \in 1..(3 * N) PROVE Plain(record(i - 1))
    OBVIOUS
  <2> DEFINE j == i - 1
             n == Nth(Satisfied, j \div 3 + 1)
  <2>1. j \in Nat /\ j \div 3 + 1 \in 1..N /\ j % 3 \in {0, 1, 2}
    BY <1>2
  <2>2. n \in Node
    <3>1. Satisfied # {} /\ Satisfied \in SUBSET Nat
      BY <1>2, <2>1, NodeAssumption, FS_EmptySet
    <3>2. \A k \in 1..N : Nth(Satisfied, k) \in Satisfied
      BY <1>2, <3>1, PlacesInOrder
    <3>3. QED
      BY <1>2, <2>1, <3>2
  <2>3. \/ record(j) = Ready(n)
        \/ record(j) = Outcome(n, 1, "satisfied-from-prior", known(n))
        \/ record(j) = Terminal(n, "satisfied-from-prior")
    BY <2>1
  <2> HIDE DEF n, j, known, record, Plain
  <2>4. Plain(record(j))
    BY <1>4, <2>2, <2>3
  <2>5. QED
    BY <2>4 DEF j
<1>6. Plain(Started)
  BY DEF Started, Note, Records, Kinds, Statuses
<1>7. entries \in Seq(Records) /\ DOMAIN entries = 1..(3 * N)
      /\ \A i \in DOMAIN entries : Plain(entries[i])
  <2>1. 3 * N \in Nat
    BY <1>2
  <2>2. \A i \in 1..(3 * N) : record(i - 1) \in Records
    BY <1>5
  <2> HIDE DEF record, N
  <2>3. entries \in Seq(Records)
    BY <2>1, <2>2, IsASeq
  <2>4. QED
    BY <1>5, <2>3
<1> DEFINE first == <<Started>>
<1>8. /\ first \in Seq(Records) /\ DOMAIN first = 1..1 /\ Plain(first[1])
      /\ batch' = first \o entries
  BY <1>1, <1>6
<1> HIDE DEF entries, Plain, first
<1>9. \A i \in DOMAIN batch' : Plain(batch'[i])
  <2> DEFINE joined == first \o entries
  <2>1. \A i \in DOMAIN joined : \/ \E j \in DOMAIN first : joined[i] = first[j]
                               \/ \E j \in DOMAIN entries : joined[i] = entries[j]
    BY <1>7, <1>8, JoinedElements
  <2> HIDE DEF joined
  <2>2. \A i \in DOMAIN joined : Plain(joined[i])
    BY <1>7, <1>8, <2>1
  <2>3. QED
    BY <1>8, <2>2 DEF joined
<1>10. batch' \in Seq(Records)
  BY <1>7, <1>8, RecordsJoin
<1>11. QED
  BY <1>9, <1>10 DEF Plain

\* The launch: only nodes carried forward are spoken of.
LEMMA LaunchTells == ASSUME StreamInv, Launch PROVE StreamInv'
<1>1. /\ batch' \in Seq(Records)
      /\ \A i \in DOMAIN batch' : /\ batch'[i].kind \notin {"output-produced", "run-finished"}
                                  /\ batch'[i].status # "succeeded"
  BY LaunchRecords
<1>2. /\ life = "planned" /\ life' = "up" /\ stream = <<>> /\ ran = {} /\ batch = <<>>
      /\ \A n \in Node : body[n] = "no"
      /\ UNCHANGED <<gen, stream, tail, faults, store, ran, body>>
  BY DEF Launch, history, StreamInv, Quiet
<1>3. StreamTypes'
  BY <1>1, <1>2 DEF Launch, StreamInv, StreamTypes
<1>4. Quiet' /\ BodiesAgree'
  BY <1>2 DEF Quiet, BodiesAgree
<1>5. Backed(batch') /\ \A i \in DOMAIN batch' : Truthful(batch'[i])
  BY <1>1 DEF Backed, Truthful
<1>6. AllTruthful' /\ (faults = 0 => tail' = "ended" /\ Backed(stream' \o batch'))
  BY <1>1, <1>2, <1>5, DecisionWrites
<1>7. Interrupted(stream')
  BY <1>2 DEF Interrupted
<1>8. FinishIsLast' /\ NothingLost'
  BY <1>1, <1>2, <1>6, <1>7 DEF FinishIsLast, NothingLost
<1>9. QED
  BY <1>3, <1>4, <1>6, <1>8 DEF StreamInv

\* The ended lines are a part of what is read.
LEMMA LinesAreRead ==
    ASSUME NEW s \in Seq(Records)
    PROVE  /\ Front(s) \in Seq(Records)
           /\ \A i \in DOMAIN Front(s) : i \in DOMAIN s /\ Front(s)[i] = s[i]
<1>1. Len(s) \in Nat /\ DOMAIN s = 1..Len(s) /\ \A i \in 1..Len(s) : s[i] \in Records
  BY LenProperties, ElementOfSeq
<1>2. \A i \in 1..(Len(s) - 1) : s[i] \in Records
  BY <1>1
<1> DEFINE m == Len(s) - 1
           f == SubSeq(s, 1, m)
<1>3. m \in Int
  BY <1>1
<1> HIDE DEF m
<1>4. /\ f \in Seq(Records) /\ Len(f) = IF 1 <= m THEN m - 1 + 1 ELSE 0
      /\ \A i \in 1..(m - 1 + 1) : f[i] = s[1 + i - 1]
  BY <1>2, <1>3, SubSeqProperties DEF m
<1> HIDE DEF f
<1>5. DOMAIN f = 1..Len(f)
  BY <1>4, LenProperties
<1>6. \A i \in DOMAIN f : i \in DOMAIN s /\ f[i] = s[i]
  <2> SUFFICES ASSUME NEW i \in DOMAIN f PROVE i \in DOMAIN s /\ f[i] = s[i]
    OBVIOUS
  <2>1. 1 <= m /\ i \in 1..m /\ i \in 1..(m - 1 + 1) /\ 1 + i - 1 = i
    BY <1>3, <1>4, <1>5
  <2>2. f[i] = s[1 + i - 1] /\ i \in DOMAIN s
    BY <1>1, <1>4, <2>1 DEF m
  <2>3. QED
    BY <2>1, <2>2
<1>7. Front(s) = f
  BY DEF Front, f, m
<1>8. QED
  BY <1>4, <1>6, <1>7

\* A record reaches the disk: whole, or on a line damaged before it.
LEMMA AppendTells == ASSUME StreamInv, AppendRecord PROVE StreamInv'
<1> DEFINE r == IF tail = "ended" THEN Head(batch) ELSE Garbled
<1>1. /\ stream' = Append(Lines, r) /\ tail' = "ended" /\ batch' = Tail(batch) /\ batch # <<>>
      /\ Alive
      /\ UNCHANGED <<life, states, body, slot, gen, faults, store, ran>>
  BY DEF AppendRecord
<1>2. /\ stream \in Seq(Records) /\ batch \in Seq(Records) /\ Lines \in Seq(Records)
      /\ \A i \in DOMAIN Lines : i \in DOMAIN stream /\ Lines[i] = stream[i]
      /\ tail = "ended" => Lines = stream
  BY LinesAreRead DEF StreamInv, StreamTypes, Lines
<1>3. /\ Head(batch) \in Records /\ Tail(batch) \in Seq(Records) /\ Head(batch) = batch[1]
      /\ 1 \in DOMAIN batch
      /\ Append(stream, Head(batch)) \o Tail(batch) = stream \o batch
      /\ \A i \in DOMAIN Tail(batch) : i + 1 \in DOMAIN batch /\ Tail(batch)[i] = batch[i + 1]
      /\ Len(batch) = 1 => Tail(batch) = <<>>
  BY <1>1, <1>2, OneMoves
<1>4. Garbled \in Records /\ Garbled.kind = "garbled"
  BY DEF Garbled, Note, Records, Kinds, Statuses
<1>5. r \in Records /\ Truthful(r)
  BY <1>3, <1>4 DEF StreamInv, AllTruthful, Truthful
<1> HIDE DEF r
<1>6. /\ stream' \in Seq(Records)
      /\ \A i \in DOMAIN stream' : (i \in DOMAIN stream /\ stream'[i] = stream[i]) \/ stream'[i] = r
  BY <1>1, <1>2, <1>5, OneMoreDecision, AppendProperties
<1>7. StreamTypes' /\ Quiet' /\ BodiesAgree'
  BY <1>1, <1>3, <1>6 DEF StreamInv, StreamTypes, Quiet, BodiesAgree
<1>8. AllTruthful'
  <2>1. \A i \in DOMAIN stream' : Truthful(stream'[i])
    BY <1>5, <1>6 DEF StreamInv, AllTruthful
  <2>2. \A i \in DOMAIN batch' : Truthful(batch'[i])
    BY <1>1, <1>3 DEF StreamInv, AllTruthful
  <2>3. QED
    BY <1>1, <2>1, <2>2 DEF AllTruthful, Truthful
<1>9. /\ \A i \in DOMAIN batch : batch[i].kind = "run-finished" => Len(batch) = 1 /\ life = "closing"
      /\ Interrupted(stream) /\ (life = "closing" => Decided)
  BY <1>1 DEF StreamInv, FinishIsLast
<1>10. ~Interrupted(stream') => tail = "ended" /\ Len(batch) = 1 /\ life = "closing" /\ Decided
  <2>1. ~Interrupted(stream') => r.kind = "run-finished"
    BY <1>6, <1>9 DEF Interrupted
  <2>2. QED
    BY <1>3, <1>4, <1>9, <2>1 DEF r
<1>11. FinishIsLast'
  <2>1. \A i \in DOMAIN batch' : batch'[i].kind # "run-finished"
    <3> SUFFICES ASSUME NEW i \in DOMAIN batch', batch'[i].kind = "run-finished" PROVE FALSE
      OBVIOUS
    <3>1. Len(batch) = 1
      BY <1>1, <1>3, <1>9
    <3>2. batch' = <<>>
      BY <1>1, <1>3, <3>1
    <3>3. QED
      BY <3>2
  <2>2. Decided' <=> Decided
    BY <1>1 DEF Decided
  <2>3. QED
    BY <1>1, <1>3, <1>9, <1>10, <2>1, <2>2 DEF FinishIsLast
<1>12. NothingLost'
  <2> SUFFICES ASSUME faults = 0
               PROVE  /\ Backed(stream' \o batch')
                      /\ \A n \in ran : states[n] # "open" => Tell(stream' \o batch', n)
                      /\ ~Interrupted(stream') => \A n \in ran : Tell(stream', n)
    BY <1>1 DEF NothingLost
  <2>1. /\ tail = "ended" /\ Lines = stream /\ Backed(stream \o batch)
        /\ \A n \in ran : states[n] # "open" => Tell(stream \o batch, n)
    BY <1>1, <1>2 DEF StreamInv, NothingLost
  <2>2. stream' \o batch' = stream \o batch
    BY <1>1, <1>3, <2>1 DEF r
  <2>3. ~Interrupted(stream') => \A n \in ran : Tell(stream', n)
    <3> SUFFICES ASSUME ~Interrupted(stream'), NEW n \in ran PROVE Tell(stream', n)
      OBVIOUS
    <3>1. Decided /\ batch' = <<>> /\ n \in Node
      BY <1>1, <1>3, <1>10 DEF StreamInv, StreamTypes
    <3>2. stream' = stream \o batch
      BY <1>6, <2>2, <3>1, ConcatEmptySeq
    <3>3. QED
      BY <2>1, <3>1, <3>2 DEF Decided
  <2>4. QED
    BY <2>1, <2>2, <2>3
<1>13. QED
  BY <1>7, <1>8, <1>11, <1>12 DEF StreamInv

\* A record is lost: what remains is true.
LEMMA FaultTells == ASSUME StreamInv, SinkFault PROVE StreamInv'
<1>1. /\ batch # <<>> /\ Alive /\ faults' = faults + 1 /\ batch' = Tail(batch)
      /\ stream' = stream \/ stream' = Lines \/ stream' = Append(stream, Head(batch))
      /\ UNCHANGED <<life, states, body, slot, gen, store, ran>>
  BY DEF SinkFault
<1>2. /\ stream \in Seq(Records) /\ batch \in Seq(Records) /\ faults \in Nat
      /\ Lines \in Seq(Records)
      /\ \A i \in DOMAIN Lines : i \in DOMAIN stream /\ Lines[i] = stream[i]
  BY LinesAreRead DEF StreamInv, StreamTypes, Lines
<1>3. /\ Head(batch) \in Records /\ Head(batch) = batch[1] /\ 1 \in DOMAIN batch
      /\ Tail(batch) \in Seq(Records)
      /\ \A i \in DOMAIN Tail(batch) : i + 1 \in DOMAIN batch /\ Tail(batch)[i] = batch[i + 1]
      /\ Len(batch) = 1 => Tail(batch) = <<>>
  BY <1>1, <1>2, OneMoves
<1>4. /\ stream' \in Seq(Records)
      /\ \A i \in DOMAIN stream' : \/ i \in DOMAIN stream /\ stream'[i] = stream[i]
                                   \/ stream'[i] = batch[1]
  <2> DEFINE longer == Append(stream, Head(batch))
  <2>1. /\ longer \in Seq(Records) /\ DOMAIN longer = DOMAIN stream \cup {Len(stream) + 1}
        /\ \A i \in DOMAIN stream : longer[i] = stream[i]
        /\ longer[Len(stream) + 1] = batch[1]
    BY <1>2, <1>3, OneMoreDecision
  <2> HIDE DEF longer
  <2>2. stream' = stream \/ stream' = Lines \/ stream' = longer
    BY <1>1 DEF longer
  <2>3. QED
    BY <1>2, <2>1, <2>2
<1>5. StreamTypes' /\ Quiet' /\ BodiesAgree'
  BY <1>1, <1>2, <1>3, <1>4 DEF StreamInv, StreamTypes, Quiet, BodiesAgree
<1>6. AllTruthful'
  <2>1. \A i \in DOMAIN batch' : Truthful(batch'[i])
    BY <1>1, <1>3 DEF StreamInv, AllTruthful
  <2>2. \A i \in DOMAIN stream' : Truthful(stream'[i])
    BY <1>3, <1>4 DEF StreamInv, AllTruthful
  <2>3. QED
    BY <1>1, <2>1, <2>2 DEF AllTruthful, Truthful
<1>7. FinishIsLast'
  <2>1. \A i \in DOMAIN batch' : batch'[i].kind # "run-finished"
    <3> SUFFICES ASSUME NEW i \in DOMAIN batch', batch'[i].kind = "run-finished" PROVE FALSE
      OBVIOUS
    <3>1. Len(batch) = 1
      BY <1>1, <1>3 DEF StreamInv, FinishIsLast
    <3>2. batch' = <<>>
      BY <1>1, <1>3, <3>1
    <3>3. QED
      BY <3>2
  <2>2. ~Interrupted(stream') => Len(batch) = 1 /\ life = "closing"
    BY <1>1, <1>3, <1>4 DEF StreamInv, FinishIsLast, Interrupted
  <2>3. (life = "closing" => Decided) /\ (Decided' <=> Decided)
    BY <1>1 DEF StreamInv, FinishIsLast, Decided
  <2>4. QED
    BY <1>1, <1>3, <2>1, <2>2, <2>3 DEF FinishIsLast
<1>8. NothingLost'
  BY <1>1, <1>2 DEF NothingLost
<1>9. QED
  BY <1>5, <1>6, <1>7, <1>8 DEF StreamInv

\* A node starts, and is recorded as ready.
LEMMA StartTells == ASSUME StreamInv, NEW n \in Node, Start(n) PROVE StreamInv'
<1>1. /\ life = "up" /\ batch = <<>> /\ states[n] = "open" /\ body[n] = "no"
      /\ body' = [body EXCEPT ![n] = "running"] /\ batch' = <<Ready(n)>>
      /\ UNCHANGED <<life, states, slot, gen, stream, tail, faults, store, ran>>
  BY DEF Start, history
<1>2. Ready(n) \in Records /\ Ready(n).kind = "node-ready"
  BY NodeAssumption DEF Ready, Note, Records, Kinds, Statuses
<1>3. /\ batch' \in Seq(Records) /\ DOMAIN batch' = {1} /\ batch'[1].kind = "node-ready"
  BY <1>1, <1>2
<1>4. Backed(batch') /\ \A i \in DOMAIN batch' : Truthful(batch'[i])
  BY <1>3 DEF Backed, Truthful
<1>5. /\ AllTruthful'
      /\ faults = 0 => /\ tail' = "ended" /\ Backed(stream' \o batch')
                       /\ \A m : Tell(stream \o batch, m) => Tell(stream, m)
  BY <1>1, <1>3, <1>4, DecisionWrites
<1>6. DOMAIN body = Node /\ DOMAIN body' = Node /\ stream \in Seq(Records)
  BY <1>1 DEF StreamInv, StreamTypes
<1>7. StreamTypes' /\ Quiet'
  BY <1>1, <1>3, <1>6 DEF StreamInv, StreamTypes, Quiet
<1>8. BodiesAgree'
  BY <1>1, <1>6 DEF StreamInv, BodiesAgree
<1>9. Interrupted(stream)
  BY <1>1 DEF StreamInv, FinishIsLast, Decided
<1>10. FinishIsLast'
  BY <1>1, <1>3, <1>9 DEF FinishIsLast
<1>11. NothingLost'
  <2>1. ASSUME faults = 0, NEW m \in ran, states[m] # "open"
        PROVE  Tell(stream' \o batch', m)
    <3>1. Tell(stream, m)
      BY <1>1, <1>5, <2>1 DEF StreamInv, NothingLost
    <3>2. QED
      BY <1>1, <1>3, <1>6, <3>1, StillTold
  <2>2. QED
    BY <1>1, <1>5, <1>9, <2>1 DEF NothingLost
<1>12. QED
  BY <1>5, <1>7, <1>8, <1>10, <1>11 DEF StreamInv

\* A body returns: the loop does not know of it yet.
LEMMA ReturnTells == ASSUME StreamInv, NEW n \in Node, Return(n) PROVE StreamInv'
<1>1. PICK result \in Results :
        /\ body' = [body EXCEPT ![n] = result]
        /\ slot' = IF StateOf(result) = "succeeded" THEN [slot EXCEPT ![n] = gen] ELSE slot
        /\ store' = IF StateOf(result) = "succeeded" /\ n \in Durable
                    THEN [store EXCEPT ![n] = gen] ELSE store
        /\ ran' = IF StateOf(result) = "succeeded" THEN ran \cup {n} ELSE ran
  BY DEF Return
<1>2. body[n] = "running" /\ UNCHANGED <<life, batch, states, gen, stream, tail, faults>>
  BY DEF Return
<1>3. result \in {"succeeded", "retried", "failed", "skipped"}
  BY StoreAssumption
<1>4. StateOf(result) = "succeeded" <=> result \in {"succeeded", "retried"}
  BY <1>3 DEF StateOf
<1>5. life = "up" /\ states[n] = "open"
  BY <1>2 DEF StreamInv, Quiet, BodiesAgree, FinishIsLast, Decided
<1>6. ran \subseteq ran' /\ \A m \in ran' : m = n \/ m \in ran
  BY <1>1
<1>7. DOMAIN body = Node /\ DOMAIN body' = Node
  BY <1>1 DEF StreamInv, StreamTypes
<1>8. StreamTypes' /\ Quiet'
  BY <1>1, <1>2, <1>5, <1>7 DEF StreamInv, StreamTypes, Quiet
<1>9. BodiesAgree'
  <2> SUFFICES ASSUME NEW m \in Node
               PROVE  /\ body'[m] \in {"succeeded", "retried"} => m \in ran'
                      /\ m \in ran' => body'[m] \in {"succeeded", "retried"}
                      /\ body'[m] = "running" => states'[m] = "open"
    BY DEF BodiesAgree
  <2>1. CASE m = n
    <3>1. body'[m] = result
      BY <1>1, <1>7, <2>1
    <3>2. m \in ran => body[m] \in {"succeeded", "retried"}
      BY <1>5 DEF StreamInv, BodiesAgree
    <3>3. m \notin ran
      BY <1>2, <2>1, <3>2
    <3>4. QED
      BY <1>1, <1>3, <1>4, <2>1, <3>1, <3>3
  <2>2. CASE m # n
    <3>1. body'[m] = body[m] /\ (m \in ran' <=> m \in ran)
      BY <1>1, <1>7, <2>2
    <3>2. QED
      BY <1>2, <1>5, <3>1 DEF StreamInv, BodiesAgree
  <2>3. QED
    BY <2>1, <2>2
<1>10. AllTruthful'
  BY <1>2, <1>6 DEF StreamInv, AllTruthful, Truthful
<1>11. Interrupted(stream)
  BY <1>5 DEF StreamInv, FinishIsLast, Decided
<1>12. FinishIsLast'
  BY <1>2 DEF StreamInv, FinishIsLast, Decided
<1>13. NothingLost'
  BY <1>2, <1>5, <1>6, <1>11 DEF StreamInv, NothingLost
<1>14. QED
  BY <1>8, <1>9, <1>10, <1>12, <1>13 DEF StreamInv

\* A returned body is decided: its records tell of it, and of it alone.
LEMMA ReportTells == ASSUME StreamInv, NEW n \in Node, Report(n) PROVE StreamInv'
<1> DEFINE result == body[n]
           ok == StateOf(result) = "succeeded"
           t == RecordsOf(n, result)
<1>1. /\ life = "up" /\ batch = <<>> /\ states[n] = "open" /\ result \in Results
      /\ states' = [states EXCEPT ![n] = StateOf(result)] /\ batch' = t
      /\ UNCHANGED <<life, body, slot, gen, stream, tail, faults, store, ran>>
  BY DEF Report, history
<1>2. gen \in Nat /\ stream \in Seq(Records)
  BY DEF StreamInv, StreamTypes
<1>3. Own(t, n, ok) /\ Backed(t) /\ (ok => Tell(t, n))
  BY <1>1, <1>2, ReportsTell
<1>4. result \in {"succeeded", "retried", "failed", "skipped"}
  BY <1>1, StoreAssumption
<1>5. /\ ok <=> result \in {"succeeded", "retried"}
      /\ StateOf(result) # "open"
  BY <1>4 DEF StateOf
<1>6. /\ ok => n \in ran
      /\ n \in ran => ok
  BY <1>1, <1>5 DEF StreamInv, BodiesAgree
<1> HIDE DEF ok, t
<1>7. /\ t \in Seq(Records)
      /\ \A i \in DOMAIN t : Truthful(t[i]) /\ t[i].node = n /\ t[i].kind # "run-finished"
  BY <1>3, <1>6 DEF Own, Truthful
<1>8. /\ AllTruthful'
      /\ faults = 0 => /\ tail' = "ended" /\ Backed(stream' \o batch')
                       /\ \A m : Tell(stream \o batch, m) => Tell(stream, m)
  <2>1. \A i \in DOMAIN batch' : Truthful(batch'[i])
    BY <1>1, <1>7
  <2>2. QED
    BY <1>1, <1>3, <1>7, <2>1, DecisionWrites
<1>9. DOMAIN states = Node /\ DOMAIN states' = Node
  BY <1>1 DEF StreamInv, StreamTypes
<1>10. StreamTypes' /\ Quiet'
  BY <1>1, <1>7, <1>9 DEF StreamInv, StreamTypes, Quiet
<1>11. BodiesAgree'
  <2>1. result # "running"
    BY <1>4
  <2>2. \A m \in Node : m # n => states'[m] = states[m]
    BY <1>1, <1>9
  <2>3. QED
    BY <1>1, <2>1, <2>2 DEF StreamInv, BodiesAgree
<1>12. Interrupted(stream)
  BY <1>1 DEF StreamInv, FinishIsLast, Decided
<1>13. FinishIsLast'
  BY <1>1, <1>7, <1>12 DEF FinishIsLast
<1>14. NothingLost'
  <2>1. ASSUME faults = 0, NEW m \in ran, states'[m] # "open"
        PROVE  Tell(stream' \o batch', m)
    <3>1. m \in Node
      BY DEF StreamInv, StreamTypes
    <3>2. CASE m = n
      <4>1. Tell(t, n)
        BY <1>3, <1>6, <3>2
      <4>2. QED
        BY <1>1, <1>2, <1>7, <3>2, <4>1, NowTold
    <3>3. CASE m # n
      <4>1. Tell(stream \o batch, m)
        BY <1>1, <1>9, <2>1, <3>1, <3>3 DEF StreamInv, NothingLost
      <4>2. Tell(stream, m)
        BY <1>8, <2>1, <4>1
      <4>3. QED
        BY <1>1, <1>2, <1>7, <3>3, <4>2, StillTold
    <3>4. QED
      BY <3>2, <3>3
  <2>2. QED
    BY <1>1, <1>8, <1>12, <2>1 DEF NothingLost
<1>15. QED
  BY <1>8, <1>10, <1>11, <1>13, <1>14 DEF StreamInv

\* A node that cannot fire is recorded, not as a success.
LEMMA PropagateTells == ASSUME StreamInv, NEW n \in Node, Propagate(n) PROVE StreamInv'
<1>1. PICK state \in {"upstream-failed", "upstream-skipped"} :
        states' = [states EXCEPT ![n] = state] /\ batch' = <<Terminal(n, state)>>
  BY DEF Propagate
<1>2. /\ life = "up" /\ batch = <<>> /\ states[n] = "open" /\ body[n] = "no"
      /\ UNCHANGED <<life, body, slot, gen, stream, tail, faults, store, ran>>
  BY DEF Propagate, history
<1>3. /\ Terminal(n, state) \in Records /\ Terminal(n, state).kind = "node-terminal"
      /\ Terminal(n, state).status # "succeeded"
  BY NodeAssumption DEF Terminal, Note, Records, Kinds, Statuses
<1>4. /\ batch' \in Seq(Records) /\ DOMAIN batch' = {1} /\ batch'[1].kind = "node-terminal"
      /\ batch'[1].status # "succeeded"
  BY <1>1, <1>3
<1>5. Backed(batch') /\ \A i \in DOMAIN batch' : Truthful(batch'[i])
  BY <1>4 DEF Backed, Truthful
<1>6. /\ AllTruthful'
      /\ faults = 0 => /\ tail' = "ended" /\ Backed(stream' \o batch')
                       /\ \A m : Tell(stream \o batch, m) => Tell(stream, m)
  BY <1>2, <1>4, <1>5, DecisionWrites
<1>7. DOMAIN states = Node /\ DOMAIN states' = Node /\ stream \in Seq(Records)
  BY <1>1 DEF StreamInv, StreamTypes
<1>8. StreamTypes' /\ Quiet'
  BY <1>2, <1>4, <1>7 DEF StreamInv, StreamTypes, Quiet
<1>9. \A m \in Node : m # n => states'[m] = states[m]
  BY <1>1, <1>7
<1>10. BodiesAgree'
  BY <1>2, <1>9 DEF StreamInv, BodiesAgree
<1>11. Interrupted(stream)
  BY <1>2 DEF StreamInv, FinishIsLast, Decided
<1>12. FinishIsLast'
  BY <1>2, <1>4, <1>11 DEF FinishIsLast
<1>13. NothingLost'
  <2>1. ASSUME faults = 0, NEW m \in ran PROVE states'[m] # "open" => Tell(stream' \o batch', m)
    <3>1. m \in Node /\ m # n
      BY <1>2 DEF StreamInv, StreamTypes, BodiesAgree
    <3> SUFFICES ASSUME states'[m] # "open" PROVE Tell(stream' \o batch', m)
      OBVIOUS
    <3>2. Tell(stream, m)
      BY <1>2, <1>6, <1>9, <2>1, <3>1 DEF StreamInv, NothingLost
    <3>3. QED
      BY <1>2, <1>4, <1>7, <3>2, StillTold
  <2>2. QED
    BY <1>2, <1>6, <1>11, <2>1 DEF NothingLost
<1>14. QED
  BY <1>6, <1>8, <1>10, <1>12, <1>13 DEF StreamInv

\* The end of the run is recorded when every node is decided.
LEMMA ConcludeTells == ASSUME StreamInv, Conclude PROVE StreamInv'
<1>1. PICK outcome \in {"failed", "succeeded"} : batch' = <<Finished(outcome)>>
  BY DEF Conclude
<1>2. /\ life = "up" /\ life' = "closing" /\ batch = <<>> /\ Interrupted(stream) /\ Decided
      /\ UNCHANGED <<states, body, slot, gen, stream, tail, faults, store, ran>>
  BY DEF Conclude, Decided, history, StreamInv, FinishIsLast
<1>3. Finished(outcome) \in Records /\ Finished(outcome).kind = "run-finished"
  BY DEF Finished, Note, Records, Kinds, Statuses
<1>4. /\ batch' \in Seq(Records) /\ DOMAIN batch' = {1} /\ Len(batch') = 1
      /\ batch'[1].kind = "run-finished"
  BY <1>1, <1>3
<1>5. Backed(batch') /\ \A i \in DOMAIN batch' : Truthful(batch'[i])
  BY <1>4 DEF Backed, Truthful
<1>6. /\ AllTruthful'
      /\ faults = 0 => /\ tail' = "ended" /\ Backed(stream' \o batch')
                       /\ \A m : Tell(stream \o batch, m) => Tell(stream, m)
  BY <1>2, <1>4, <1>5, DecisionWrites
<1>7. StreamTypes' /\ Quiet' /\ BodiesAgree' /\ stream \in Seq(Records)
  BY <1>2, <1>4 DEF StreamInv, StreamTypes, Quiet, BodiesAgree
<1>8. FinishIsLast'
  BY <1>2, <1>4 DEF FinishIsLast, Decided
<1>9. NothingLost'
  <2>1. ASSUME faults = 0, NEW m \in ran, states[m] # "open"
        PROVE  Tell(stream' \o batch', m)
    <3>1. Tell(stream, m)
      BY <1>2, <1>6, <2>1 DEF StreamInv, NothingLost
    <3>2. QED
      BY <1>2, <1>4, <1>7, <3>1, StillTold
  <2>2. QED
    BY <1>2, <1>6, <2>1 DEF NothingLost
<1>10. QED
  BY <1>6, <1>7, <1>8, <1>9 DEF StreamInv

\* The process is gone: what is on disk is all there is.
LEMMA StopTells == ASSUME StreamInv, Stop PROVE StreamInv'
<1>1. /\ life' = "over" /\ batch' = <<>> /\ states' = [n \in Node |-> "open"]
      /\ body' = [n \in Node |-> "no"] /\ slot' = [n \in Node |-> 0]
      /\ UNCHANGED <<gen, stream, tail, faults, store, ran>>
  BY DEF Stop, Blank
<1>2. stream \in Seq(Records) /\ batch \in Seq(Records)
  BY DEF StreamInv, StreamTypes
<1>3. StreamTypes' /\ Quiet' /\ BodiesAgree'
  BY <1>1 DEF StreamInv, StreamTypes, Quiet, BodiesAgree
<1>4. AllTruthful' /\ FinishIsLast'
  BY <1>1 DEF StreamInv, AllTruthful, Truthful, FinishIsLast
<1>5. NothingLost'
  <2>1. stream' \o batch' = stream
    BY <1>1, <1>2, ConcatEmptySeq
  <2>2. faults = 0 => /\ tail = "ended" /\ Backed(stream)
                      /\ ~Interrupted(stream) => \A n \in ran : Tell(stream, n)
    BY <1>2, StartIsBacked DEF StreamInv, NothingLost
  <2>3. QED
    BY <1>1, <2>1, <2>2 DEF NothingLost
<1>6. QED
  BY <1>3, <1>4, <1>5 DEF StreamInv

\* A stream that is taken up, or dropped for the next run, leaves an empty one.
LEMMA EmptyTells ==
    ASSUME StreamInv, ~Alive, stream' = <<>>, tail' = "ended", ~Alive',
           life' = "planned" => ran' = {}, ran' \subseteq Node, gen' \in Nat \ {0},
           UNCHANGED <<batch, states, body, slot, faults, store>>
    PROVE  StreamInv'
<1>1. batch = <<>> /\ \A n \in Node : body[n] = "no"
  BY DEF StreamInv, Quiet
<1>2. StreamTypes' /\ Quiet' /\ BodiesAgree'
  BY <1>1 DEF StreamInv, StreamTypes, Quiet, BodiesAgree
<1>3. AllTruthful' /\ FinishIsLast' /\ Interrupted(stream')
  BY <1>1 DEF AllTruthful, FinishIsLast, Interrupted
<1>4. NothingLost'
  <2>1. stream' \o batch' = <<>>
    BY <1>1, ConcatEmptySeq, EmptySeq
  <2>2. QED
    BY <1>3, <2>1 DEF NothingLost, Backed
<1>5. QED
  BY <1>2, <1>3, <1>4 DEF StreamInv

\* Every step of the run store keeps the invariant of the stream.
LEMMA StreamSteps == StreamInv /\ [StoreNext]_all => StreamInv'
<1> SUFFICES ASSUME StreamInv, [StoreNext]_all PROVE StreamInv'
  OBVIOUS
<1>1. gen \in Nat \ {0} /\ store \in [Node -> Nat] /\ ran \subseteq Node
  BY DEF StreamInv, StreamTypes
<1>2. CASE FoldStream
  <2>1. /\ life = "over" /\ stream' = <<>> /\ tail' = "ended"
        /\ UNCHANGED <<life, batch, states, body, slot, gen, faults, store, ran>>
    BY <1>2 DEF FoldStream, running
  <2>2. QED
    BY <1>1, <2>1, EmptyTells
<1>3. CASE Resume
  <2>1. /\ ~Alive /\ stream' = <<>> /\ tail' = "ended" /\ life' = "planned" /\ ran' = {}
        /\ gen' = gen + 1 /\ UNCHANGED <<batch, states, body, slot, faults, store>>
    BY <1>3 DEF Resume
  <2>2. gen' \in Nat \ {0} /\ ran' \subseteq Node /\ ~Alive'
    BY <1>1, <2>1
  <2>3. QED
    BY <2>1, <2>2, EmptyTells
<1>4. ASSUME NEW n \in Node, Vanish(n) PROVE StreamInv'
  <2>1. /\ store' = [store EXCEPT ![n] = 0]
        /\ UNCHANGED <<gen, stream, tail, faults, life, batch, states, body, slot, ran>>
    BY <1>4 DEF Vanish, running
  <2>2. QED
    BY <1>1, <2>1, StreamStays
<1>5. CASE Plan \/ UNCHANGED all
  BY <1>1, <1>5, StreamStays DEF Plan, all, running, history
<1>6. QED
  BY <1>2, <1>3, <1>4, <1>5, LaunchTells, AppendTells, FaultTells, ConcludeTells, StopTells,
     StartTells, ReturnTells, ReportTells, PropagateTells DEF StoreNext

-----------------------------------------------------------------------------
(* What a fold says *)

\* What the fold of such a stream says is true.
LEMMA FoldTells == StreamInv => HonestArtifact
<1> SUFFICES ASSUME StreamInv PROVE Tells(Fold(stream, Node))
  BY DEF HonestArtifact
<1> DEFINE a == Fold(stream, Node)
           outcomes(n) == At(stream, "attempt-outcome", n)
<1>1. stream \in Seq(Records) /\ batch \in Seq(Records) /\ ran \subseteq Node
  BY DEF StreamInv, StreamTypes
<1>2. /\ \A n \in Node : a.attempts[n] = AttemptsOf(stream, n)
      /\ a.outputs = Outputs(stream) /\ a.interrupted = Interrupted(stream)
  BY DEF Fold
<1>3. \A n \in Node : FoldedRecord(a, n) = Last(AttemptsOf(stream, n))
  BY <1>2 DEF FoldedRecord
<1>4. \A n : \A i \in outcomes(n) :
         i \in DOMAIN stream /\ i \in Nat /\ stream[i].kind = "attempt-outcome" /\ stream[i].node = n
  BY <1>1, LenProperties DEF At
<1> HIDE DEF a
<1>5. \A i \in DOMAIN stream : Truthful(stream[i])
  BY DEF StreamInv, AllTruthful
<1>6. ASSUME NEW n \in SucceededIn(a) PROVE n \in ran /\ FoldedRecord(a, n).value \in {0, gen}
  <2>1. n \in Node /\ Last(AttemptsOf(stream, n)).status = "succeeded"
    BY <1>3 DEF SucceededIn
  <2>2. CASE outcomes(n) # {}
    <3>1. PICK i \in outcomes(n) : /\ Last(AttemptsOf(stream, n)).status = stream[i].status
                                   /\ Last(AttemptsOf(stream, n)).value = stream[i].value
      BY <1>1, <2>2, AttemptsAreOutcomes DEF Listed
    <3>2. stream[i].node \in ran /\ stream[i].value \in {0, gen}
      BY <1>4, <1>5, <2>1, <3>1 DEF Truthful
    <3>3. QED
      BY <1>3, <1>4, <2>1, <3>1, <3>2
  <2>3. CASE outcomes(n) = {}
    <3>1. PICK i \in DOMAIN stream : /\ stream[i].kind = "node-terminal" /\ stream[i].node = n
                                     /\ Last(AttemptsOf(stream, n)).status = stream[i].status
                                     /\ Last(AttemptsOf(stream, n)).value = stream[i].value
      BY <1>1, <2>1, <2>3, AttemptsAreOutcomes DEF Listed
    <3>2. stream[i].node \in ran /\ stream[i].value \in {0, gen}
      BY <1>5, <2>1, <3>1 DEF Truthful
    <3>3. QED
      BY <1>3, <2>1, <3>1, <3>2
  <2>4. QED
    BY <2>2, <2>3
<1>7. ASSUME NEW o \in a.outputs
      PROVE  \E i \in DOMAIN stream :
                /\ stream[i].kind = "output-produced" /\ o.node = stream[i].node
                /\ o.attempt = stream[i].attempt /\ o.value = stream[i].value
                /\ o.node \in ran /\ o.value = gen
  <2>1. PICK i \in DOMAIN stream :
           /\ stream[i].kind = "output-produced"
           /\ o = [node |-> stream[i].node, attempt |-> stream[i].attempt, value |-> stream[i].value]
    BY <1>2 DEF Outputs
  <2>2. QED
    BY <1>5, <2>1 DEF Truthful
<1>8. ASSUME faults = 0, ~a.interrupted PROVE SucceededIn(a) = ran
  <2>1. ASSUME NEW n \in ran PROVE n \in SucceededIn(a)
    <3>1. Tell(stream, n)
      BY <1>2, <1>8 DEF StreamInv, NothingLost
    <3>2. PICK i \in outcomes(n) : stream[i].status = "succeeded" /\ \A j \in outcomes(n) : j <= i
      BY <3>1 DEF Tell
    <3>3. PICK l \in outcomes(n) : /\ \A j \in outcomes(n) : j <= l
                                   /\ Last(AttemptsOf(stream, n)).status = stream[l].status
      BY <1>1, <3>2, AttemptsAreOutcomes DEF Listed
    <3>4. l = i
      <4>1. l <= i /\ i <= l /\ l \in Nat /\ i \in Nat
        BY <1>4, <3>2, <3>3
      <4>2. QED
        BY <4>1
    <3>5. QED
      BY <1>1, <1>3, <3>2, <3>3, <3>4 DEF SucceededIn
  <2>2. QED
    BY <1>6, <2>1
<1>9. ASSUME faults = 0, NEW o \in a.outputs
      PROVE  \E k \in DOMAIN a.attempts[o.node] :
                LET r == a.attempts[o.node][k] IN
                r.attempt = o.attempt /\ r.status = "succeeded" /\ r.value = o.value
  <2>1. PICK i \in DOMAIN stream :
                /\ stream[i].kind = "output-produced" /\ o.node = stream[i].node
                /\ o.attempt = stream[i].attempt /\ o.value = stream[i].value
                /\ o.node \in ran
    BY <1>7
  <2>2. Backed(stream)
    BY <1>1, <1>9, StartIsBacked DEF StreamInv, NothingLost
  <2>3. PICK j \in DOMAIN stream : Backs(stream[j], stream[i])
    BY <2>1, <2>2 DEF Backed
  <2>4. j \in outcomes(o.node)
    BY <2>1, <2>3 DEF At, Backs
  <2>5. PICK k \in DOMAIN AttemptsOf(stream, o.node) :
           /\ AttemptsOf(stream, o.node)[k].attempt = stream[j].attempt
           /\ AttemptsOf(stream, o.node)[k].status = stream[j].status
           /\ AttemptsOf(stream, o.node)[k].value = stream[j].value
    BY <1>1, <2>4, AttemptsAreOutcomes DEF Listed
  <2>6. a.attempts[o.node] = AttemptsOf(stream, o.node)
    BY <1>1, <1>2, <2>1
  <2>7. QED
    BY <2>1, <2>3, <2>5, <2>6 DEF Backs
<1>10. \A o \in a.outputs : o.node \in ran /\ o.value = gen
  BY <1>7
<1>11. QED
  BY <1>6, <1>8, <1>9, <1>10 DEF Tells, a

\* The invariant of the stream over a chain of runs.
THEOREM StreamInvariant == StoreSpec => []StreamInv
  BY StreamStarts, StreamSteps, PTL DEF StoreSpec

\* For every pipeline, chain of runs, kill and lost record: what a fold says of
\* a run is the truth about it (fold_stream).
THEOREM FoldTellsTheTruth == StoreSpec => []HonestArtifact
  BY StreamInvariant, FoldTells, PTL

-----------------------------------------------------------------------------
(* The run index *)

Jobs == [kind : {"none", "create", "alter", "rows"}, run : Run \cup {Nobody},
         lines : SUBSET Nat, live : BOOLEAN, try : Nat]
Sinks == [buffer : SUBSET Nat, finished : BOOLEAN, fault : BOOLEAN]

Stages == {"start", "opening", "up", "flushing", "first", "follow", "rest"} \cup Over

MetaTypes ==
    /\ stage \in [Process -> Stages]
    /\ job \in [Process -> Jobs] /\ sink \in [Run -> Sinks] /\ file \in [Run -> SUBSET Nat]
    /\ next \in [Run -> Nat] /\ DOMAIN row = Run
    /\ writer \in Process \cup {Nobody}

\* A transaction belongs to the step its process has come to, and writes what
\* that step meant it to write.
JobInv(p) ==
    /\ job[p].kind = "none" => job[p] = NoJob
    /\ writer = p => job[p] # NoJob
    /\ job[p].kind \in {"create", "alter"} => stage[p] = "opening"
    /\ job[p].kind = "rows" => job[p].run \in Run
    /\ job[p].kind = "rows" /\ p \in Syncer => ~job[p].live /\ stage[p] \in {"first", "follow"}
    /\ job[p].kind = "rows" /\ p \in Run =>
          /\ stage[p] \in {"up", "flushing"} /\ job[p].run = p
          /\ job[p].lines = sink[p].buffer /\ job[p].live = ~sink[p].finished
          /\ ~sink[p].fault
    /\ stage[p] = "flushing" => job[p].kind = "rows"
    /\ stage[p] \in {"clean", "flushing"} => p \in Run

\* A sink without a fault has had every record of the stream.
SinkInv(r) ==
    /\ ~sink[r].fault => sink[r].buffer = file[r]
    /\ RunFinished \in sink[r].buffer => sink[r].finished

\* The streams a pass has still to visit are runs'.
PlaceInv == place \in [Syncer -> SUBSET Run]

MetaInv == MetaTypes /\ (\A p \in Process : JobInv(p)) /\ (\A r \in Run : SinkInv(r)) /\ NeverSwallowed

-----------------------------------------------------------------------------
\* The part of NeverSwallowed that is about one run.
Clean(r) == Foldable(file[r]) =>
    /\ Attempts(file[r]) \subseteq row[r].nodes
    /\ RunFinished \in file[r] => row[r].state \notin {"none", "running"}

\* A step of p concerns no other process, and it takes the lock for itself or
\* gives it back.
Concerns(p) ==
    \A q \in Process \ {p} :
        /\ stage'[q] = stage[q] /\ job'[q] = job[q] /\ (writer' = q => writer = q)
        /\ q \in Run => sink'[q] = sink[q] /\ file'[q] = file[q]

\* Rows only grow, and nobody but a run itself says that it is running.
RowsGrow(p) ==
    \A r \in Run : /\ row[r].nodes \subseteq row'[r].nodes
                   /\ r # p => row'[r].state \in {row[r].state, "succeeded", "cancelled"}

\* What has to be shown of one step.
LEMMA StepOf ==
    ASSUME MetaInv, NEW p \in Process, MetaTypes', Concerns(p), RowsGrow(p), JobInv(p)',
           p \in Run => SinkInv(p)' /\ (stage'[p] = "clean" => Clean(p)')
    PROVE  MetaInv'
<1>1. ASSUME NEW q \in Process PROVE JobInv(q)'
  <2>1. CASE q = p
    BY <2>1
  <2>2. CASE q # p
    BY <2>2 DEF MetaInv, JobInv, Concerns
  <2>3. QED
    BY <2>1, <2>2
<1>2. ASSUME NEW r \in Run PROVE SinkInv(r)'
  <2>1. CASE r = p
    BY <2>1
  <2>2. CASE r # p
    BY <2>2 DEF MetaInv, SinkInv, Concerns, Process
  <2>3. QED
    BY <2>1, <2>2
<1>3. ASSUME NEW r \in Run, stage'[r] = "clean" PROVE Clean(r)'
  <2>1. CASE r = p
    BY <1>3, <2>1
  <2>2. CASE r # p
    <3>1. stage[r] = "clean" /\ file'[r] = file[r]
      BY <1>3, <2>2 DEF Concerns, Process
    <3>2. Clean(r)
      BY <3>1 DEF MetaInv, NeverSwallowed, Clean
    <3>3. QED
      BY <2>2, <3>1, <3>2 DEF RowsGrow, Clean
  <2>3. QED
    BY <2>1, <2>2
<1>4. NeverSwallowed'
  BY <1>3 DEF NeverSwallowed, Clean
<1>5. QED
  BY <1>1, <1>2, <1>4 DEF MetaInv

\* Jobs a process can be given
LEMMA JobsAreJobs ==
    /\ NoJob \in Jobs /\ NoJob.kind = "none"
    /\ \A k \in {"create", "alter"} : Job(k) \in Jobs /\ Job(k).kind = k
    /\ \A r \in Run, b \in SUBSET Nat, f \in BOOLEAN :
          LET j == Projection(r, b, f)
          IN j \in Jobs /\ j.kind = "rows" /\ j.run = r /\ j.lines = b /\ j.live = ~f
  BY DEF Jobs, NoJob, Job, Projection

\* A step of p that moves its stage, its job and the lock only.
LEMMA Moves ==
    ASSUME MetaTypes, NEW p \in Process, NEW s \in Stages, NEW j \in Jobs,
           stage' = [stage EXCEPT ![p] = s], job' = [job EXCEPT ![p] = j],
           writer' \in {writer, p, Nobody}, UNCHANGED <<row, file, sink, next>>
    PROVE  /\ MetaTypes' /\ Concerns(p) /\ RowsGrow(p)
           /\ stage'[p] = s /\ job'[p] = j
           /\ p \in Run => (SinkInv(p) => SinkInv(p)')
<1>1. MetaTypes' /\ stage'[p] = s /\ job'[p] = j
  BY DEF MetaTypes
<1>2. Concerns(p)
  BY MetastoreAssumption DEF MetaTypes, Concerns, Process, Nobody
<1>3. QED
  BY <1>1, <1>2 DEF RowsGrow, SinkInv

\* The steps that open no transaction on rows and leave the sinks alone: opening
\* the index, taking the lock, going over the streams.
LEMMA QuietKeeps ==
    ASSUME MetaInv, NEW p \in Process,
           Open(p) \/ Probe(p) \/ Begin(p) \/ (p \in Syncer /\ (Discover(p) \/ PassEnds(p)))
    PROVE  MetaInv'
<1>0. MetaTypes /\ JobInv(p) /\ (p \in Run => SinkInv(p))
  BY DEF MetaInv
<1>1. UNCHANGED <<row, file, sink, next>> /\ NoJob.kind = "none" /\ NoJob \in Jobs
  BY JobsAreJobs DEF Open, Probe, Begin, Discover, PassEnds
<1>2. /\ stage = [stage EXCEPT ![p] = stage[p]] /\ job = [job EXCEPT ![p] = job[p]]
      /\ stage[p] \in Stages /\ job[p] \in Jobs /\ job[p].kind \in {"none", "create", "alter", "rows"}
  BY <1>0 DEF MetaTypes, Jobs
<1>3. ASSUME NEW s \in Stages, NEW j \in Jobs,
             stage' = [stage EXCEPT ![p] = s], job' = [job EXCEPT ![p] = j],
             writer' \in {writer, p}, s # "clean", stage'[p] = s /\ job'[p] = j => JobInv(p)'
      PROVE  MetaInv'
  BY <1>0, <1>1, <1>3, Moves, StepOf
<1>4. CASE Open(p)
  <2>1. Job("create") \in Jobs /\ Job("create").kind = "create" /\ "opening" \in Stages
    BY JobsAreJobs DEF Stages
  <2>2. stage'[p] = "opening" /\ job'[p] = Job("create") => JobInv(p)'
    BY <1>1, <2>1 DEF JobInv
  <2>3. QED
    BY <1>3, <1>4, <2>1, <2>2 DEF Open
<1>5. CASE Probe(p)
  <2>1. Job("alter") \in Jobs /\ Job("alter").kind = "alter" /\ "opening" \in Stages /\ "up" \in Stages
    BY JobsAreJobs DEF Stages
  <2>2. stage'[p] = "opening" /\ job'[p] = Job("alter") => JobInv(p)'
    BY <1>1, <2>1 DEF JobInv
  <2>3. writer # p /\ (stage'[p] = "up" /\ job'[p] = job[p] => JobInv(p)')
    BY <1>0, <1>1, <1>5 DEF Probe, JobInv
  <2>4. QED
    BY <1>2, <1>3, <1>5, <2>1, <2>2, <2>3 DEF Probe
<1>6. CASE Begin(p)
  <2>1. stage[p] # "clean"
    BY <1>0, <1>2, <1>6 DEF Begin, JobInv
  <2>2. stage'[p] = stage[p] /\ job'[p] = job[p] => JobInv(p)'
    BY <1>0, <1>1, <1>6 DEF Begin, JobInv
  <2>3. QED
    BY <1>2, <1>3, <1>6, <2>1, <2>2 DEF Begin
<1>7. ASSUME p \in Syncer, Discover(p) \/ PassEnds(p) PROVE MetaInv'
  <2>1. p \notin Run /\ {"first", "follow", "rest"} \subseteq Stages
    BY <1>7, MetastoreAssumption DEF Stages
  <2>2. job[p].kind = "none"
    BY <1>0, <1>1, <1>2, <1>7 DEF Discover, PassEnds, JobInv
  <2>3. ASSUME stage'[p] \in {"first", "follow", "rest"}, job'[p] = job[p], writer' = writer
        PROVE  JobInv(p)'
    BY <1>0, <2>1, <2>2, <2>3 DEF JobInv
  <2>4. QED
    BY <1>2, <1>3, <1>7, <2>1, <2>3 DEF Discover, PassEnds
<1>8. QED
  BY <1>4, <1>5, <1>6, <1>7

\* A step of a run that moves its own stage, job, stream and sink.
LEMMA RunMoves ==
    ASSUME MetaInv, NEW r \in Run, NEW s \in Stages, NEW j \in Jobs, NEW z \in Sinks,
           NEW f \in SUBSET Nat, s # "clean",
           stage' = [stage EXCEPT ![r] = s], job' = [job EXCEPT ![r] = j],
           sink' = [sink EXCEPT ![r] = z], file' = [file EXCEPT ![r] = f],
           next' \in [Run -> Nat], UNCHANGED <<row, writer>>,
           ~z.fault => z.buffer = f, RunFinished \in z.buffer => z.finished,
           stage'[r] = s /\ job'[r] = j /\ sink'[r] = z => JobInv(r)'
    PROVE  MetaInv'
<1>1. r \in Process /\ MetaTypes
  BY DEF Process, MetaInv
<1>2. /\ MetaTypes' /\ stage'[r] = s /\ job'[r] = j /\ sink'[r] = z /\ file'[r] = f
  BY <1>1 DEF MetaTypes
<1>3. Concerns(r) /\ RowsGrow(r)
  BY <1>1 DEF MetaTypes, Concerns, RowsGrow, Process
<1>4. SinkInv(r)'
  BY <1>2 DEF SinkInv
<1>5. QED
  BY <1>1, <1>2, <1>3, <1>4, StepOf

\* The emit of a record returns.
LEMMA EmittedTypes ==
    ASSUME next \in [Run -> Nat], NEW r \in Run, NEW ok \in BOOLEAN, Emitted(r, ok)
    PROVE  next' \in [Run -> Nat]
  BY DEF Emitted

\* A record is written, or lost before it reaches the file.
LEMMA AppendKeeps ==
    ASSUME MetaInv, NEW r \in Run, AppendLine(r) \/ LoseLine(r)
    PROVE  MetaInv'
<1>0. MetaTypes /\ JobInv(r) /\ SinkInv(r) /\ r \in Process /\ r \notin Syncer
  BY MetastoreAssumption DEF MetaInv, Process
<1>1. /\ stage = [stage EXCEPT ![r] = stage[r]] /\ job = [job EXCEPT ![r] = job[r]]
      /\ sink = [sink EXCEPT ![r] = sink[r]] /\ file = [file EXCEPT ![r] = file[r]]
      /\ stage[r] = "up" /\ stage[r] \in Stages /\ sink[r] \in Sinks /\ file[r] \in SUBSET Nat
      /\ job[r] = NoJob /\ NoJob \in Jobs /\ NoJob.kind = "none" /\ next[r] \in Nat
  BY <1>0, JobsAreJobs DEF AppendLine, LoseLine, MetaTypes
<1>2. writer # r /\ UNCHANGED <<stage, row, writer>>
  BY <1>0, <1>1 DEF JobInv, AppendLine, LoseLine
<1>3. ASSUME job' = job, stage' = stage, writer' = writer, sink' = sink PROVE JobInv(r)'
  BY <1>0, <1>3 DEF JobInv
<1>4. CASE LoseLine(r)
  <2>1. next' \in [Run -> Nat] /\ UNCHANGED <<job, sink, file>>
    BY <1>0, <1>4, EmittedTypes DEF LoseLine, MetaTypes
  <2>2. QED
    BY <1>0, <1>1, <1>2, <1>3, <2>1, StepOf DEF MetaTypes, Concerns, RowsGrow, SinkInv
<1>5. CASE AppendLine(r) /\ sink[r].fault
  <2>1. next' \in [Run -> Nat] /\ UNCHANGED <<job, sink>>
    BY <1>0, <1>5, EmittedTypes DEF AppendLine, MetaTypes
  <2>2. file' = [file EXCEPT ![r] = file[r] \cup {next[r]}] /\ file[r] \cup {next[r]} \in SUBSET Nat
    BY <1>1, <1>5 DEF AppendLine
  <2>3. QED
    BY <1>0, <1>1, <1>2, <1>3, <1>5, <2>1, <2>2, StepOf DEF MetaTypes, Concerns, RowsGrow, SinkInv
<1>6. CASE AppendLine(r) /\ ~sink[r].fault
  <2> DEFINE b == sink[r].buffer \cup {next[r]}
             f == SeenFinished(r, next[r])
             z == [sink[r] EXCEPT !.buffer = b, !.finished = f]
  <2>1. b \in SUBSET Nat /\ f \in BOOLEAN
    <3>1. sink[r].buffer \in SUBSET Nat /\ sink[r].finished \in BOOLEAN
      BY <1>1 DEF Sinks
    <3>2. b \in SUBSET Nat
      BY <1>1, <3>1
    <3>3. f \in BOOLEAN
      BY <3>1 DEF SeenFinished
    <3>4. QED
      BY <3>2, <3>3
  <2>2. sink' = [sink EXCEPT ![r] = z] /\ file' = [file EXCEPT ![r] = file[r] \cup {next[r]}]
    BY <1>6 DEF AppendLine
  <2>3. file[r] \cup {next[r]} \in SUBSET Nat /\ b = file[r] \cup {next[r]}
    BY <1>0, <1>1, <1>6 DEF SinkInv
  <2>4. RunFinished \in b => f
    <3>1. CASE next[r] = RunFinished
      BY <3>1 DEF SeenFinished
    <3>2. CASE RunFinished \in sink[r].buffer
      BY <1>0, <3>2 DEF SinkInv, SeenFinished
    <3>3. QED
      BY <3>1, <3>2
  <2>5. \/ job' = [job EXCEPT ![r] = Projection(r, b, f)] /\ next' = next
        \/ job' = job /\ next' \in [Run -> Nat]
    BY <1>0, <1>6, EmittedTypes DEF AppendLine, MetaTypes
  <2> HIDE DEF b, f
  <2>6. z \in Sinks /\ z.buffer = b /\ z.finished = f /\ ~z.fault
    BY <1>1, <1>6, <2>1 DEF Sinks
  <2> HIDE DEF z
  <2>7. CASE job' = [job EXCEPT ![r] = Projection(r, b, f)] /\ next' = next
    <3> DEFINE j == Projection(r, b, f)
    <3>1. j \in Jobs /\ j.kind = "rows" /\ j.run = r /\ j.lines = b /\ j.live = ~f
      BY <2>1, JobsAreJobs
    <3> HIDE DEF j
    <3>2. stage'[r] = "up" /\ job'[r] = j /\ sink'[r] = z => JobInv(r)'
      BY <1>0, <1>1, <1>2, <2>6, <3>1 DEF JobInv
    <3>3. next' \in [Run -> Nat] /\ job' = [job EXCEPT ![r] = j]
      BY <1>0, <2>7 DEF MetaTypes, j
    <3>4. file[r] \cup {next[r]} \in SUBSET Nat /\ z.buffer = file[r] \cup {next[r]}
      BY <2>3, <2>6
    <3>5. RunFinished \in z.buffer => z.finished
      BY <2>4, <2>6
    <3>6. QED
      BY <1>1, <1>2, <2>2, <2>6, <3>1, <3>2, <3>3, <3>4, <3>5, RunMoves
  <2>8. CASE job' = job /\ next' \in [Run -> Nat]
    <3>1. job'[r] = NoJob /\ stage'[r] = "up" => JobInv(r)'
      BY <1>0, <1>1, <1>2 DEF JobInv
    <3>2. QED
      BY <1>1, <1>2, <2>2, <2>3, <2>4, <2>6, <2>8, <3>1, RunMoves
  <2>9. QED
    BY <2>5, <2>7, <2>8
<1>7. QED
  BY <1>4, <1>5, <1>6

\* The last flush: a fault comes up again, or all there is goes once more.
LEMMA FlushKeeps == ASSUME MetaInv, NEW r \in Run, Flush(r) PROVE MetaInv'
<1>0. MetaTypes /\ JobInv(r) /\ SinkInv(r) /\ r \in Process /\ r \notin Syncer
  BY MetastoreAssumption DEF MetaInv, Process
<1>1. /\ stage[r] = "up" /\ sink[r] \in Sinks /\ job[r] = NoJob /\ NoJob.kind = "none" /\ NoJob \in Jobs
      /\ UNCHANGED <<writer, row, file, sink, next>> /\ writer # r
      /\ {"sink-failure", "flushing", "clean"} \subseteq Stages
      /\ job = [job EXCEPT ![r] = NoJob]
  BY <1>0, JobsAreJobs DEF Flush, MetaTypes, JobInv, Stages, Over
<1>2. CASE sink[r].fault
  <2>1. stage' = [stage EXCEPT ![r] = "sink-failure"] /\ job' = [job EXCEPT ![r] = NoJob]
    BY <1>1, <1>2 DEF Flush
  <2>2. MetaTypes' /\ Concerns(r) /\ RowsGrow(r) /\ SinkInv(r)'
        /\ stage'[r] = "sink-failure" /\ job'[r] = NoJob
    BY <1>0, <1>1, <2>1, Moves
  <2>3. JobInv(r)'
    BY <1>1, <2>2 DEF JobInv
  <2>4. QED
    BY <1>0, <2>2, <2>3, StepOf
<1>3. CASE ~sink[r].fault /\ Foldable(sink[r].buffer)
  <2> DEFINE j == Projection(r, sink[r].buffer, sink[r].finished)
  <2>1. stage' = [stage EXCEPT ![r] = "flushing"] /\ job' = [job EXCEPT ![r] = j]
    BY <1>3 DEF Flush
  <2>2. sink[r].buffer \in SUBSET Nat /\ sink[r].finished \in BOOLEAN
    BY <1>1 DEF Sinks
  <2>3. /\ j \in Jobs /\ j.kind = "rows" /\ j.run = r
        /\ j.lines = sink[r].buffer /\ j.live = ~sink[r].finished
    BY <2>2, JobsAreJobs
  <2> HIDE DEF j
  <2>4. "flushing" \in Stages /\ writer' \in {writer, r, Nobody} /\ UNCHANGED <<row, file, sink, next>>
        /\ j \in Jobs
    BY <1>1, <2>3
  <2>5. MetaTypes' /\ Concerns(r) /\ RowsGrow(r) /\ SinkInv(r)' /\ stage'[r] = "flushing" /\ job'[r] = j
    BY <1>0, <2>1, <2>4, Moves
  <2>6. JobInv(r)'
    BY <1>0, <1>1, <1>3, <2>3, <2>5 DEF JobInv
  <2>7. QED
    BY <1>0, <2>5, <2>6, StepOf
<1>4. CASE ~sink[r].fault /\ ~Foldable(sink[r].buffer)
  <2>1. stage' = [stage EXCEPT ![r] = "clean"] /\ job' = [job EXCEPT ![r] = NoJob]
    BY <1>1, <1>4 DEF Flush
  <2>2. MetaTypes' /\ Concerns(r) /\ RowsGrow(r) /\ SinkInv(r)' /\ stage'[r] = "clean" /\ job'[r] = NoJob
    BY <1>0, <1>1, <2>1, Moves
  <2>3. JobInv(r)' /\ Clean(r)'
    BY <1>0, <1>1, <1>4, <2>2 DEF JobInv, SinkInv, Clean
  <2>4. QED
    BY <1>0, <2>2, <2>3, StepOf
<1>5. QED
  BY <1>2, <1>3, <1>4

\* A consolidator reads a stream; what it will write is the end of the run.
LEMMA ReadKeeps == ASSUME MetaInv, PlaceInv, NEW s \in Syncer, ReadStream(s) PROVE MetaInv'
<1>0. MetaTypes /\ JobInv(s) /\ s \in Process /\ s \notin Run
  BY MetastoreAssumption DEF MetaInv, Process
<1>1. /\ stage[s] \in {"first", "follow"} /\ job[s] = NoJob /\ NoJob.kind = "none" /\ NoJob \in Jobs
      /\ UNCHANGED <<writer, row, stage, file, sink, next>> /\ writer # s
      /\ stage[s] \in Stages /\ stage = [stage EXCEPT ![s] = stage[s]] /\ job = [job EXCEPT ![s] = NoJob]
  BY <1>0, JobsAreJobs DEF ReadStream, MetaTypes, JobInv
<1>2. PICK j \in Jobs : /\ job' = [job EXCEPT ![s] = j]
                        /\ j = NoJob \/ (j.kind = "rows" /\ j.run \in Run /\ ~j.live)
  <2>1. PICK r \in place[s] \cap Run : job' = IF Foldable(file[r]) THEN [job EXCEPT ![s] = Projection(r, file[r], TRUE)]
                                              ELSE job
    BY DEF ReadStream, PlaceInv
  <2>2. CASE Foldable(file[r])
    <3>1. file[r] \in SUBSET Nat /\ TRUE \in BOOLEAN
      BY <1>0 DEF MetaTypes
    <3>2. Projection(r, file[r], TRUE) \in Jobs /\ Projection(r, file[r], TRUE).kind = "rows"
          /\ Projection(r, file[r], TRUE).run = r /\ ~Projection(r, file[r], TRUE).live
      BY <3>1, JobsAreJobs
    <3>3. QED
      BY <2>1, <2>2, <3>2
  <2>3. CASE ~Foldable(file[r])
    BY <1>1, <2>1, <2>3
  <2>4. QED
    BY <2>2, <2>3
<1>3. MetaTypes' /\ Concerns(s) /\ RowsGrow(s) /\ stage'[s] = stage[s] /\ job'[s] = j
  BY <1>0, <1>1, <1>2, Moves
<1>4. JobInv(s)'
  BY <1>0, <1>1, <1>2, <1>3 DEF JobInv
<1>5. QED
  BY <1>0, <1>3, <1>4, StepOf

\* A process dies.
LEMMA DyingKeeps == ASSUME MetaInv, NEW p \in Process, Kill(p) PROVE MetaInv'
<1>0. MetaTypes /\ JobInv(p) /\ (p \in Run => SinkInv(p))
  BY DEF MetaInv
<1>1. /\ NoJob.kind = "none" /\ NoJob \in Jobs /\ "killed" \in Stages
      /\ stage' = [stage EXCEPT ![p] = "killed"] /\ job' = [job EXCEPT ![p] = NoJob]
      /\ UNCHANGED <<row, file, sink, next>> /\ writer' \in {writer, p, Nobody} /\ writer' # p
  BY JobsAreJobs, MetastoreAssumption DEF Kill, Stages, Over, Process, Nobody
<1>2. /\ MetaTypes' /\ Concerns(p) /\ RowsGrow(p) /\ stage'[p] = "killed" /\ job'[p] = NoJob
      /\ p \in Run => SinkInv(p)'
  BY <1>0, <1>1, Moves
<1>3. JobInv(p)'
  BY <1>1, <1>2 DEF JobInv
<1>4. QED
  BY <1>2, <1>3, StepOf

\* The result of a transaction reaches the process, when its lock is gone and
\* what it has committed is in the tables.
LEMMA AnswerKeeps ==
    ASSUME MetaInv, NEW p \in Process, NEW ok \in BOOLEAN, Answer(p, ok), job[p] # NoJob,
           writer' \in {writer, Nobody}, writer' # p, file' = file,
           DOMAIN row' = Run, RowsGrow(p),
           ok /\ job[p].kind = "rows" /\ p \in Run => row'[p] = Upserted(p, job[p], row[p])
    PROVE  MetaInv'
<1>0. MetaTypes /\ JobInv(p) /\ (p \in Run => SinkInv(p) /\ p \notin Syncer)
      /\ NoJob \in Jobs /\ NoJob.kind = "none"
  BY JobsAreJobs, MetastoreAssumption DEF MetaInv
<1>1. /\ job' = [job EXCEPT ![p] = NoJob] /\ job'[p] = NoJob
      /\ job[p].kind \in {"create", "alter", "rows"} /\ stage[p] \in Stages
  BY <1>0 DEF Answer, JobInv, MetaTypes, Jobs
<1>2. PICK s \in Stages :
        /\ stage' = [stage EXCEPT ![p] = s]
        /\ s = "flushing" => FALSE
        /\ s = "clean" => stage[p] = "flushing" /\ ok
  <2> DEFINE s == CASE job[p].kind \in {"create", "alter"} /\ ~ok -> "refused"
                    [] job[p].kind = "alter" /\ ok       -> "up"
                    [] stage[p] = "flushing"             -> IF ok THEN "clean" ELSE "sink-failure"
                    [] stage[p] = "first" /\ ~ok         -> "sink-failure"
                    [] stage[p] = "follow" /\ ~ok        -> "rest"
                    [] OTHER                             -> stage[p]
  <2>1. stage' = [stage EXCEPT ![p] = s]
    BY DEF Answer
  <2>2. CASE job[p].kind \in {"create", "alter"}
    <3>1. stage[p] = "opening"
      BY <1>0, <2>2 DEF JobInv
    <3>2. s \in {"refused", "up", "opening"}
      BY <2>2, <3>1
    <3>3. QED
      BY <2>1, <3>2 DEF Stages, Over
  <2>3. CASE job[p].kind = "rows"
    <3>1. stage[p] \in {"up", "flushing", "first", "follow"}
      BY <1>0, <2>3 DEF JobInv, Process
    <3>2. /\ s \in {"up", "first", "follow", "clean", "sink-failure", "rest"}
          /\ s = "clean" => stage[p] = "flushing" /\ ok
      BY <2>3, <3>1
    <3>3. QED
      BY <2>1, <3>2 DEF Stages, Over
  <2>4. QED
    BY <1>1, <2>2, <2>3
<1>3. next' \in [Run -> Nat]
  BY <1>0 DEF Answer, Emitted, MetaTypes
<1>4. /\ sink' \in [Run -> Sinks]
      /\ \A r \in Run : r # p => sink'[r] = sink[r]
      /\ p \in Run => /\ sink'[p].buffer = sink[p].buffer
                      /\ sink[p].finished => sink'[p].finished
                      /\ ~sink'[p].fault => ~sink[p].fault
  <2>1. CASE p \in Run /\ job[p].kind = "rows" /\ ~ok
    <3>1. sink' = [sink EXCEPT ![p] = [sink[p] EXCEPT !.fault = TRUE]] /\ sink[p] \in Sinks
      BY <1>0, <2>1 DEF Answer, MetaTypes
    <3>2. [sink[p] EXCEPT !.fault = TRUE] \in Sinks
      BY <3>1 DEF Sinks
    <3>3. QED
      BY <1>0, <2>1, <3>1, <3>2 DEF MetaTypes, Sinks
  <2>2. CASE ~(p \in Run /\ job[p].kind = "rows" /\ ~ok)
    BY <1>0, <2>2 DEF Answer, MetaTypes
  <2>3. QED
    BY <2>1, <2>2
<1>5. stage'[p] = s /\ stage' \in [Process -> Stages] /\ job' \in [Process -> Jobs]
  BY <1>0, <1>1, <1>2 DEF MetaTypes
<1>6. MetaTypes'
  BY <1>0, <1>3, <1>4, <1>5 DEF MetaTypes, Process
<1>7. Concerns(p)
  BY <1>0, <1>1, <1>2, <1>4, MetastoreAssumption DEF Concerns, MetaTypes, Process, Nobody
<1>8. JobInv(p)'
  <2>1. job'[p].kind = "none" /\ job'[p] = NoJob /\ writer' # p /\ stage'[p] # "flushing"
    BY <1>0, <1>1, <1>2, <1>5
  <2>2. stage'[p] = "clean" => p \in Run
    BY <1>0, <1>2, <1>5 DEF JobInv
  <2>3. QED
    BY <2>1, <2>2 DEF JobInv
<1>9. p \in Run => SinkInv(p)'
  <2> SUFFICES ASSUME p \in Run PROVE SinkInv(p)'
    OBVIOUS
  <2>1. SinkInv(p)
    BY <1>0
  <2>2. sink'[p].buffer = sink[p].buffer /\ (sink[p].finished => sink'[p].finished)
        /\ (~sink'[p].fault => ~sink[p].fault) /\ file' = file
    BY <1>4
  <2>3. QED
    BY <2>1, <2>2 DEF SinkInv
<1>10. ASSUME p \in Run, stage'[p] = "clean" PROVE Clean(p)'
  <2>1. stage[p] = "flushing" /\ ok
    BY <1>2, <1>5, <1>10
  <2>2. /\ job[p].kind = "rows" /\ job[p].lines = sink[p].buffer /\ job[p].live = ~sink[p].finished
        /\ sink[p].buffer = file[p] /\ (RunFinished \in file[p] => sink[p].finished)
    BY <1>0, <1>10, <2>1 DEF JobInv, SinkInv
  <2>3. row'[p].nodes = row[p].nodes \cup Attempts(file[p]) /\ row'[p].state = RunState(job[p])
    BY <1>10, <2>1, <2>2 DEF Upserted, AttemptRows
  <2>4. RunFinished \in file[p] => RunState(job[p]) = "succeeded"
    BY <2>2 DEF RunState, OutcomeOf
  <2>5. QED
    BY <2>3, <2>4 DEF Clean
<1>11. QED
  BY <1>6, <1>7, <1>8, <1>9, <1>10, StepOf

\* A transaction meets another, is refused, or commits.
LEMMA TransactionKeeps ==
    ASSUME MetaInv, NEW p \in Process, Busy(p) \/ Rollback(p) \/ Commit(p)
    PROVE  MetaInv'
<1>0. MetaTypes /\ JobInv(p) /\ (p \in Run => SinkInv(p) /\ p \notin Syncer)
      /\ p # Nobody /\ TRUE \in BOOLEAN /\ FALSE \in BOOLEAN
  BY MetastoreAssumption DEF MetaInv, Process, Nobody
<1>1. job[p] # NoJob
  BY <1>0 DEF JobInv, Busy, Rollback, Commit
<1>2. CASE UNCHANGED row /\ Answer(p, FALSE) /\ file' = file /\ writer' \in {writer, Nobody} /\ writer' # p
  BY <1>0, <1>1, <1>2, AnswerKeeps DEF MetaTypes, RowsGrow
<1>3. CASE Busy(p) /\ job[p].try < MaxTries
  <2> DEFINE j == Again(job[p])
  <2>1. /\ job' = [job EXCEPT ![p] = j] /\ UNCHANGED <<row, file, sink, next, writer>>
        /\ stage' = [stage EXCEPT ![p] = stage[p]] /\ stage[p] \in Stages /\ writer # p
    BY <1>0, <1>3 DEF Busy, IsBusy, MetaTypes
  <2>2. /\ job[p] \in Jobs /\ j \in Jobs /\ j.kind = job[p].kind /\ j.lines = job[p].lines
        /\ j.run = job[p].run /\ j.live = job[p].live /\ j.try = job[p].try + 1 /\ job[p].try \in Nat
    BY <1>0 DEF Again, Jobs, MetaTypes
  <2>3. j # NoJob
    BY <2>2 DEF NoJob
  <2> HIDE DEF j
  <2>4. /\ MetaTypes' /\ Concerns(p) /\ RowsGrow(p) /\ stage'[p] = stage[p] /\ job'[p] = j
        /\ p \in Run => SinkInv(p)'
    BY <1>0, <2>1, <2>2, Moves
  <2>5. job[p].kind # "none" /\ stage[p] # "clean"
    <3>1. job[p].kind \in {"none", "create", "alter", "rows"}
      BY <2>2 DEF Jobs
    <3>2. QED
      BY <1>0, <1>1, <3>1 DEF JobInv
  <2>6. JobInv(p)'
    BY <1>0, <2>1, <2>2, <2>3, <2>4, <2>5 DEF JobInv
  <2>7. QED
    BY <2>4, <2>5, <2>6, StepOf
<1>4. CASE Commit(p)
  <2>1. /\ Answer(p, TRUE) /\ writer' = Nobody /\ file' = file
        /\ row' = IF job[p].kind = "rows"
                  THEN [row EXCEPT ![job[p].run] = Upserted(job[p].run, job[p], row[job[p].run])] ELSE row
    BY <1>4 DEF Commit
  <2>2. CASE job[p].kind = "rows"
    <3>1. job[p].run \in Run
      BY <1>0, <2>2 DEF JobInv
    <3>2. \A r \in Run : row'[r] = IF r = job[p].run THEN Upserted(r, job[p], row[r]) ELSE row[r]
      BY <1>0, <2>1, <2>2, <3>1 DEF MetaTypes
    <3>3. DOMAIN row' = Run
      BY <1>0, <2>1, <2>2 DEF MetaTypes
    <3>4. p \in Run => job[p].run = p
      BY <1>0, <2>2 DEF JobInv
    <3>5. p \notin Run => RunState(job[p]) \in {"succeeded", "cancelled"}
      BY <1>0, <2>2 DEF JobInv, RunState, OutcomeOf, Process
    <3>6. RowsGrow(p)
      <4>1. ASSUME NEW r \in Run, r = job[p].run
            PROVE  /\ row'[r].nodes = row[r].nodes \cup Attempts(job[p].lines)
                   /\ row'[r].state = RunState(job[p])
        <5>1. row'[r] = Upserted(r, job[p], row[r])
          BY <3>2, <4>1
        <5>2. QED
          BY <5>1 DEF Upserted, AttemptRows
      <4>2. \A r \in Run : row[r].nodes \subseteq row'[r].nodes
        BY <3>2, <4>1
      <4>3. \A r \in Run : r # p => row'[r].state \in {row[r].state, "succeeded", "cancelled"}
        BY <3>2, <3>4, <3>5, <4>1
      <4>4. QED
        BY <4>2, <4>3 DEF RowsGrow
    <3>7. QED
      BY <1>0, <1>1, <2>1, <3>2, <3>3, <3>4, <3>6, AnswerKeeps
  <2>3. CASE job[p].kind # "rows"
    BY <1>0, <1>1, <2>1, <2>3, AnswerKeeps DEF MetaTypes, RowsGrow
  <2>4. QED
    BY <2>2, <2>3
<1>5. QED
  BY <1>0, <1>2, <1>3, <1>4 DEF Busy, IsBusy, Rollback

\* No process has begun.
LEMMA MetaStarts == MetastoreInit => MetaInv /\ PlaceInv
<1> SUFFICES ASSUME MetastoreInit PROVE MetaInv /\ PlaceInv
  OBVIOUS
<1>1. NoJob \in Jobs /\ NoJob.kind = "none" /\ NewSink \in Sinks /\ ~NewSink.fault /\ NewSink.buffer = {}
  BY JobsAreJobs DEF NewSink, Sinks
<1>2. MetaTypes /\ PlaceInv
  BY <1>1 DEF MetastoreInit, MetaTypes, PlaceInv, Stages
<1>3. ASSUME NEW p \in Process PROVE JobInv(p)
  BY <1>1, MetastoreAssumption DEF MetastoreInit, JobInv, Process, Nobody
<1>4. ASSUME NEW r \in Run PROVE SinkInv(r)
  BY <1>1 DEF MetastoreInit, SinkInv
<1>5. NeverSwallowed
  BY DEF MetastoreInit, NeverSwallowed, Process
<1>6. QED
  BY <1>2, <1>3, <1>4, <1>5 DEF MetaInv

\* The streams to visit stay runs'.
LEMMA PlacesKeep == PlaceInv /\ [MetastoreNext]_indexVars => PlaceInv'
<1> SUFFICES ASSUME PlaceInv, [MetastoreNext]_indexVars PROVE PlaceInv'
  OBVIOUS
<1>1. CASE place' = place
  BY <1>1 DEF PlaceInv
<1>2. ASSUME NEW s \in Syncer, NEW w \in SUBSET Run, place' = [place EXCEPT ![s] = w]
      PROVE  PlaceInv'
  BY <1>2 DEF PlaceInv
<1>3. ASSUME NEW p \in Process, Answer(p, TRUE) \/ Answer(p, FALSE) PROVE PlaceInv'
  BY <1>1, <1>2, <1>3 DEF Answer
<1>4. ASSUME NEW p \in Process, Steps(p) PROVE PlaceInv'
  <2>1. CASE Open(p) \/ Probe(p) \/ Begin(p)
    BY <1>1, <2>1 DEF Open, Probe, Begin
  <2>2. CASE Busy(p)
    BY <1>1, <1>3, <2>2 DEF Busy
  <2>3. CASE Commit(p) \/ Rollback(p)
    BY <1>3, <2>3 DEF Commit, Rollback
  <2>4. QED
    BY <1>4, <2>1, <2>2, <2>3 DEF Steps
<1>5. ASSUME NEW s \in Syncer, Discover(s) \/ ReadStream(s) \/ PassEnds(s) PROVE PlaceInv'
  <2>1. CASE Discover(s)
    BY <1>2, <2>1 DEF Discover
  <2>2. CASE ReadStream(s)
    BY <1>2, <2>2 DEF ReadStream, PlaceInv
  <2>3. CASE PassEnds(s)
    BY <1>1, <2>3 DEF PassEnds
  <2>4. QED
    BY <1>5, <2>1, <2>2, <2>3
<1>6. ASSUME NEW r \in Run, AppendLine(r) \/ LoseLine(r) \/ Flush(r) PROVE PlaceInv'
  BY <1>1, <1>6 DEF AppendLine, LoseLine, Flush
<1>7. ASSUME NEW p \in Process, Kill(p) PROVE PlaceInv'
  BY <1>1, <1>7 DEF Kill
<1>8. CASE UNCHANGED indexVars
  BY <1>1, <1>8 DEF indexVars
<1>9. Run \subseteq Process /\ Syncer \subseteq Process
  BY DEF Process
<1>10. QED
  BY <1>4, <1>5, <1>6, <1>7, <1>8, <1>9 DEF MetastoreNext, RunSteps, SyncSteps

\* Every step keeps the invariant.
LEMMA MetaSteps == MetaInv /\ PlaceInv /\ [MetastoreNext]_indexVars => (MetaInv /\ PlaceInv)'
<1> SUFFICES ASSUME MetaInv, PlaceInv, [MetastoreNext]_indexVars PROVE MetaInv'
  BY PlacesKeep
<1>1. CASE UNCHANGED indexVars
  BY <1>1 DEF indexVars, MetaInv, MetaTypes, JobInv, SinkInv, NeverSwallowed
<1>2. CASE MetastoreNext
  <2>1. Run \subseteq Process /\ Syncer \subseteq Process
    BY DEF Process
  <2>2. QED
    BY <1>2, <2>1, QuietKeeps, AppendKeeps, FlushKeeps, ReadKeeps, DyingKeeps, TransactionKeeps
    DEF MetastoreNext, RunSteps, SyncSteps, Steps
<1>3. QED
  BY <1>1, <1>2

\* The strengthened invariant of the index.
THEOREM MetaInvariant == MetastoreSpec => [](MetaInv /\ PlaceInv)
  BY MetaStarts, MetaSteps, PTL DEF MetastoreSpec

\* A run whose sink ends without a failure has its whole stream in the index.
THEOREM NothingIsSwallowed == MetastoreSpec => []NeverSwallowed
  BY MetaInvariant, PTL DEF MetaInv
==============================================================================
