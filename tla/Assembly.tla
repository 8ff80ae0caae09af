------------------------------- MODULE Assembly -------------------------------
(***************************************************************************)
(* The flow builder and assembly (crates/core: flow.rs, binding.rs,        *)
(* handle.rs, assembly.rs).                                                *)
(*                                                                         *)
(* A pipeline's code registers nodes one by one.  A registration returns   *)
(* the node's handle, and a dependency can only be stated with a handle,   *)
(* so a node can only name nodes registered before it.  A handle is a copy *)
(* of the node's name, though, and a second registration of a name         *)
(* replaces the first: what keeps a cycle out of an accepted pipeline is   *)
(* the count of registrations that assembly refuses.                       *)
(*                                                                         *)
(* Assembly looks at the finished pipeline once, collects every problem,   *)
(* and, where there is none, orders the nodes: one Pop is one turn of its  *)
(* loop.                                                                   *)
(***************************************************************************)
EXTENDS Nodes, Sequences

CONSTANTS
    Work,           \* what tasks declare: [class, unit]
    Policy,         \* the policies a registration may be given
    Wiring,         \* the lists of modes a registration may bind its inputs in
    Rule,           \* the trigger rules a registration may state
    MaxAfter,       \* bound: ordering edges of one registration
    Foreign,        \* the nodes of another flow whose handles are at hand
    MaxDeclared     \* bound: registrations of one flow

Class == {"await", "blocking", "compute"}
Mode == {"owned", "shared", "clone"}

MaxInputArity == 8

ASSUME WorkAssumption == Work \subseteq [class : Class, unit : BOOLEAN]

ASSUME PolicyAssumption ==
    Policy \subseteq [durable : BOOLEAN, retained : BOOLEAN, retries : Nat,
                      teardown : BOOLEAN, cost : Nat,
                      override : Class \cup {"none"}]

ASSUME WiringAssumption ==
    /\ \A modes \in Wiring : modes \in Seq(Mode) /\ Len(modes) \in 1..MaxInputArity
    /\ Foreign \subseteq Node

VARIABLES
    nodes,      \* what the builder holds under each name
    declared,   \* the names registered so far, in order
    phase,
    problems,   \* what assembly reports
    indegree,   \* the producers a node still waits for in the ordering loop
    order       \* the execution order, as far as the loop has come

vars == <<nodes, declared, phase, problems, indegree, order>>

------------------------------------------------------------------------------
(* Declarations *)

DefaultPolicy ==
    [durable |-> FALSE, retained |-> FALSE, retries |-> 0, teardown |-> FALSE,
     cost |-> 0, override |-> "none"]

Durable(p) == [p EXCEPT !.durable = TRUE]
AsTeardown(p) == [p EXCEPT !.teardown = TRUE]

\* A node as a registration states it; `contract': its output type implements
\* the durable-output contract.
Declaration(work, edges, after, rule, policy, contract) ==
    [work |-> work, edges |-> edges, after |-> after, rule |-> rule,
     policy |-> policy, contract |-> contract, count |-> 1]

NoNode == [count |-> 0]

Registered == {n \in Node : nodes[n].count > 0}

\* The handles at hand: those the registrations returned, and any of another
\* flow (the type does not tell them apart).
Handles == {declared[i] : i \in 1..Len(declared)} \cup Foreign

\* The data inputs a registration can bind: one handle for every mode.
Bindings ==
    UNION {{[i \in 1..Len(modes) |-> [from |-> h[i], mode |-> modes[i]]] :
              h \in [1..Len(modes) -> Handles]} : modes \in Wiring}

\* What a registration can be ordered after.
Befores == {S \in SUBSET Handles : Cardinality(S) <= MaxAfter}

\* What the node is sequenced after, over data or ordering edges, each once.
Ups(n) == {nodes[n].edges[i].from : i \in 1..Len(nodes[n].edges)} \cup nodes[n].after

DataUps(n) == {nodes[n].edges[i].from : i \in 1..Len(nodes[n].edges)}

EffectiveClass(n) ==
    IF nodes[n].policy.override = "none" THEN nodes[n].work.class
                                         ELSE nodes[n].policy.override

------------------------------------------------------------------------------
(* The builder *)

Init ==
    /\ nodes = [n \in Node |-> NoNode]
    /\ declared = <<>>
    /\ phase = "building"
    /\ problems = {}
    /\ indegree = [n \in Node |-> 0]
    /\ order = <<>>

\* Mutant: the collision is not counted.
InsertUncounted(n, d) ==
    /\ nodes' = [nodes EXCEPT ![n] = d]
    /\ declared' = Append(declared, n)
    /\ UNCHANGED <<phase, problems, indegree, order>>

\* The last declaration under a name stays, with the number of registrations.
Insert(n, d) ==
    /\ nodes' = [nodes EXCEPT ![n] = [d EXCEPT !.count = nodes[n].count + 1]]
    /\ declared' = Append(declared, n)
    /\ UNCHANGED <<phase, problems, indegree, order>>

RegisterSource(n, w, p) ==
    Insert(n, Declaration(w, <<>>, {}, "all-succeeded", p, FALSE))

RegisterSourceDurable(n, w, p) ==
    Insert(n, Declaration(w, <<>>, {}, "all-succeeded", Durable(p), TRUE))

RegisterSourceWithTrigger(n, w, p, rule) ==
    Insert(n, Declaration(w, <<>>, {}, rule, p, FALSE))

RegisterSourceOrderedAfter(n, w, after) ==
    Insert(n, Declaration(w, <<>>, after, "all-succeeded", DefaultPolicy, FALSE))

RegisterSourceOrderedAfterWithTrigger(n, w, after, p, rule) ==
    Insert(n, Declaration(w, <<>>, after, rule, p, FALSE))

RegisterTeardown(n, w, covered, p) ==
    Insert(n, Declaration(w, <<>>, covered, "all-terminal", AsTeardown(p), FALSE))

Register(n, w, edges, p) ==
    Insert(n, Declaration(w, edges, {}, "all-succeeded", p, FALSE))

RegisterDurable(n, w, edges, p) ==
    Insert(n, Declaration(w, edges, {}, "all-succeeded", Durable(p), TRUE))

RegisterOrderedAfter(n, w, edges, after) ==
    Insert(n, Declaration(w, edges, after, "all-succeeded", DefaultPolicy, FALSE))

Finish ==
    /\ phase = "building"
    /\ phase' = "finished"
    /\ UNCHANGED <<nodes, declared, problems, indegree, order>>

------------------------------------------------------------------------------
(* Assembly *)

\* Await-bound work stays where it is, and nothing else may become await-bound.
ClassProblems ==
    {<<"class override", n>> :
        n \in {m \in Registered :
                 (nodes[m].work.class = "await") # (EffectiveClass(m) = "await")}}

DurableProblems ==
    {<<"no durable contract", n>> :
        n \in {m \in Registered : nodes[m].policy.durable /\ ~nodes[m].contract}}

TeardownProblems ==
    {<<"teardown cost", n>> :
        n \in {m \in Registered :
                 nodes[m].policy.teardown /\ nodes[m].policy.cost > 0}}

\* The edges that read a node's value: a node that binds it twice has two.
Demands(p) ==
    {d \in Registered \X (1..MaxInputArity) :
        /\ d[2] <= Len(nodes[d[1]].edges)
        /\ nodes[d[1]].edges[d[2]].from = p}

OwnershipProblems ==
    {<<"ownership", n>> :
        n \in {m \in Registered :
                 \E i \in 1..Len(nodes[m].edges) :
                    /\ nodes[m].edges[i].mode = "owned"
                    /\ \/ Cardinality(Demands(nodes[m].edges[i].from)) > 1
                       \/ nodes[m].policy.retries > 0}}

EmptyProblems == IF Registered = {} THEN {<<"empty">>} ELSE {}

DuplicateProblems ==
    {<<"duplicate", n>> : n \in {m \in Registered : nodes[m].count > 1}}

AllProblems ==
    EmptyProblems \cup DuplicateProblems \cup ClassProblems \cup DurableProblems
        \cup TeardownProblems \cup OwnershipProblems

\* The consumer count the output slots start from.
ConsumerCount(n) == Cardinality(Demands(n))

\* The distinct registered producers a node's inputs come from.  Ordering edges
\* are not counted.
RemainingDeps(n) == Cardinality(DataUps(n) \cap Registered)

\* A value nothing reads, keeps or stores is usually a wiring mistake.
Warned ==
    {n \in Registered : /\ ConsumerCount(n) = 0
                        /\ ~nodes[n].work.unit
                        /\ ~nodes[n].policy.retained
                        /\ ~nodes[n].policy.durable}

Reject ==
    /\ phase = "finished"
    /\ AllProblems # {}
    /\ problems' = AllProblems
    /\ phase' = "rejected"
    /\ UNCHANGED <<nodes, declared, indegree, order>>

Accept ==
    /\ phase = "finished"
    /\ AllProblems = {}
    /\ indegree' = [n \in Node |-> IF n \in Registered
                                     THEN Cardinality(Ups(n) \cap Registered)
                                     ELSE 0]
    /\ phase' = "ordering"
    /\ UNCHANGED <<nodes, declared, problems, order>>

Placed == {order[i] : i \in 1..Len(order)}

Ready == {n \in Registered \ Placed : indegree[n] = 0}

\* Among the nodes nothing is awaited for, the least by name goes next.
Pop ==
    /\ phase = "ordering"
    /\ \E n \in Ready :
        /\ \A m \in Ready : n <= m
        /\ order' = Append(order, n)
        /\ indegree' = [m \in Node |-> IF m \in Registered /\ n \in Ups(m)
                                         THEN indegree[m] - 1 ELSE indegree[m]]
    /\ UNCHANGED <<nodes, declared, phase, problems>>

Assembled ==
    /\ phase = "ordering"
    /\ Ready = {}
    /\ phase' = "assembled"
    /\ UNCHANGED <<nodes, declared, problems, indegree, order>>

Registration ==
    \/ \E n \in Node, w \in Work, p \in Policy :
          \/ RegisterSource(n, w, p)
          \/ RegisterSourceDurable(n, w, p)
          \/ \E rule \in Rule :
                \/ RegisterSourceWithTrigger(n, w, p, rule)
                \/ \E after \in Befores :
                      RegisterSourceOrderedAfterWithTrigger(n, w, after, p, rule)
          \/ \E covered \in Befores : RegisterTeardown(n, w, covered, p)
          \/ \E edges \in Bindings :
                Register(n, w, edges, p) \/ RegisterDurable(n, w, edges, p)
    \/ \E n \in Node, w \in Work, after \in Befores :
          \/ RegisterSourceOrderedAfter(n, w, after)
          \/ \E edges \in Bindings : RegisterOrderedAfter(n, w, edges, after)

Next ==
    \/ /\ phase = "building"
       /\ Len(declared) < MaxDeclared
       /\ Registration
    \/ Finish
    \/ Reject
    \/ Accept
    \/ Pop
    \/ Assembled

Spec == Init /\ [][Next]_vars

------------------------------------------------------------------------------
(* Properties *)

\* An accepted pipeline can run as ordered: every node has its place after
\* everything it names, the least by name first among those that could be next
\* (so the order does not depend on the order of the registrations), and a value
\* taken by ownership is read by that one edge, of a node that runs once.
AcceptedIsRunnable ==
    /\ phase \in {"ordering", "assembled"} =>
          \A n \in Registered : \A i \in 1..Len(nodes[n].edges) :
             nodes[n].edges[i].mode = "owned" =>
                /\ ConsumerCount(nodes[n].edges[i].from) = 1
                /\ nodes[n].policy.retries = 0
    /\ phase = "assembled" =>
          /\ Placed = Registered
          /\ \A i \in 1..Len(order) :
                LET before == {order[j] : j \in 1..(i - 1)}
                    able   == {n \in Registered \ before : Ups(n) \subseteq before}
                IN  order[i] \in able /\ \A n \in able : order[i] <= n
==============================================================================
