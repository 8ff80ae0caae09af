---------------------------- MODULE FrontEndProofs ----------------------------
(***************************************************************************)
(* What the front end promises, proved for every flow that can be declared *)
(* and every command line that can be typed: an accepted pipeline has an   *)
(* execution order that respects all it names (Assembly), and a run starts *)
(* or is refused as its settings say (CommandLine).                        *)
(***************************************************************************)
EXTENDS Assembly, CommandLine, CommonLemmas

-----------------------------------------------------------------------------
(* Assembly: the inductive invariant.                                       *)

Edge == [from : Node, mode : Mode]

FormOK(d) ==
    /\ d.edges \in Seq(Edge) /\ Len(d.edges) <= MaxInputArity
    /\ d.after \subseteq Node
    /\ d.policy.retries \in Nat

AssemblyType ==
    /\ DOMAIN nodes = Node
    /\ \A n \in Node : nodes[n].count \in Nat
    /\ \A n \in Registered : FormOK(nodes[n])
    /\ declared \in Seq(Node)
    /\ order \in Seq(Node)
    /\ indegree \in [Node -> Nat]

\* The builder counts: a name it holds no node under was never declared, and one
\* it holds one registration of was declared at one position.
Counted ==
    /\ \A i \in 1..Len(declared) : nodes[declared[i]].count # 0
    /\ \A i, j \in 1..Len(declared) :
          declared[i] = declared[j] /\ nodes[declared[i]].count = 1 => i = j

\* Every node names only what was declared before some declaration of it.
Backward ==
    \A n \in Registered : \E i \in 1..Len(declared) :
       /\ declared[i] = n
       /\ \A u \in Ups(n) : \E j \in 1..(i - 1) : declared[j] = u

\* What the loop still waits for, node by node.
Awaits(n) == (Ups(n) \cap Registered) \ Placed

Underway ==
    phase \in {"ordering", "assembled"} =>
       /\ AllProblems = {}
       /\ Placed \subseteq Registered
       /\ \A n \in Registered : indegree[n] = Cardinality(Awaits(n))

\* Each place of the order was taken by the least of the nodes that could be next.
Greedy ==
    \A i \in 1..Len(order) :
       LET before == {order[j] : j \in 1..(i - 1)}
           able   == {n \in Registered \ before : Ups(n) \subseteq before}
       IN  order[i] \in able /\ \A n \in able : order[i] <= n

AssemblyInv ==
    /\ AssemblyType
    /\ Counted
    /\ Backward
    /\ Underway
    /\ phase \in {"ordering", "assembled"} => Greedy
    /\ phase \notin {"ordering", "assembled"} => order = << >>
    /\ phase = "assembled" => Ready = {}

-----------------------------------------------------------------------------
(* Assembly: helper facts about lists.                                      *)

\* One more element: the positions of a list and what stands at them.
LEMMA Extended ==
    ASSUME NEW S, NEW s \in Seq(S), NEW e \in S
    PROVE  /\ Len(s) \in Nat
           /\ Append(s, e) \in Seq(S)
           /\ Len(Append(s, e)) = Len(s) + 1
           /\ \A i \in 1..Len(s) : Append(s, e)[i] = s[i]
           /\ Append(s, e)[Len(s) + 1] = e
BY AppendProperties, LenProperties

\* What a registration may bind: lists of edges, at most eight, each from a
\* handle at hand.
LEMMA BindingsAreEdges ==
    ASSUME NEW H \in SUBSET Node, Handles \subseteq H, NEW e \in Bindings
    PROVE  /\ e \in Seq([from : H, mode : Mode])
           /\ Len(e) <= MaxInputArity
<1>1. PICK modes \in Wiring :
         e \in {[i \in 1..Len(modes) |-> [from |-> h[i], mode |-> modes[i]]] :
                  h \in [1..Len(modes) -> Handles]}
  BY DEF Bindings
<1>2. PICK h \in [1..Len(modes) -> Handles] :
         e = [i \in 1..Len(modes) |-> [from |-> h[i], mode |-> modes[i]]]
  BY <1>1
<1>3. modes \in Seq(Mode) /\ Len(modes) \in 1..MaxInputArity
  BY WiringAssumption
<1>4. \A i \in 1..Len(modes) : modes[i] \in Mode /\ h[i] \in H
  BY <1>3, LenProperties
<1>5. /\ e \in [1..Len(modes) -> [from : H, mode : Mode]]
      /\ Len(modes) \in Nat
  BY <1>2, <1>3, <1>4
<1> DEFINE T == [from : H, mode : Mode]
           k == Len(modes)
<1> HIDE DEF T, k
<1>6. e \in Seq(T)
  <2>1. k \in Nat /\ e \in [1..k -> T]
    BY <1>5 DEF T, k
  <2> QED
    BY <2>1, SeqDef
<1>7. Len(e) = k
  <2>1. DOMAIN e = 1..k /\ k \in Nat
    BY <1>5 DEF k
  <2>2. DOMAIN e = 1..Len(e) /\ Len(e) \in Nat
    BY <1>6, LenProperties
  <2> QED
    BY <2>1, <2>2
<1>8. e \in Seq([from : H, mode : Mode])
  BY <1>6 DEF T
<1>9. Len(e) <= MaxInputArity
  BY <1>3, <1>7 DEF MaxInputArity, k
<1>10. QED
  BY <1>8, <1>9

-----------------------------------------------------------------------------
(* Assembly: the steps.                                                     *)

\* A policy's retries survive the builder's adjustments.
LEMMA PolicyRetries ==
    /\ \A p \in Policy : /\ p.retries \in Nat
                         /\ Durable(p).retries \in Nat
                         /\ AsTeardown(p).retries \in Nat
    /\ DefaultPolicy.retries \in Nat
BY PolicyAssumption DEF Durable, AsTeardown, DefaultPolicy

\* What a registration writes: a declaration of lists of edges and names, all
\* from handles at hand.
Stated(n, w, e, a, r, p, c) ==
    /\ e \in Seq([from : Handles, mode : Mode]) /\ Len(e) <= MaxInputArity
    /\ a \subseteq Handles
    /\ p.retries \in Nat
    /\ Insert(n, Declaration(w, e, a, r, p, c))

\* Every handle a body may hold is that of a node of the flow.
LEMMA HandlesAreNodes ==
    ASSUME AssemblyType
    PROVE  Handles \subseteq Node
BY WiringAssumption, LenProperties DEF AssemblyType, Handles

\* A node without inputs has an edge list within every bound.
LEMMA NoEdges ==
    ASSUME NEW S
    PROVE  << >> \in Seq(S) /\ Len(<< >>) = 0 /\ Len(<< >>) <= MaxInputArity
BY EmptySeq DEF MaxInputArity

\* Whatever registers a node states one complete row of the table for it.
LEMMA RegistrationStates ==
    ASSUME AssemblyType, Registration
    PROVE  \E n \in Node : \E w, e, a, r, p, c : Stated(n, w, e, a, r, p, c)
<1> USE HandlesAreNodes
<1>1. << >> \in Seq([from : Handles, mode : Mode]) /\ Len(<< >>) <= MaxInputArity
  BY NoEdges
<1>2. \A e \in Bindings : /\ e \in Seq([from : Handles, mode : Mode])
                          /\ Len(e) <= MaxInputArity
  BY BindingsAreEdges
<1>3. \A b \in Befores : b \subseteq Handles
  BY DEF Befores
<1>4. CASE \E n \in Node, w \in Work, p \in Policy :
              \/ RegisterSource(n, w, p)
              \/ RegisterSourceDurable(n, w, p)
              \/ \E rule \in Rule :
                    \/ RegisterSourceWithTrigger(n, w, p, rule)
                    \/ \E after \in Befores :
                          RegisterSourceOrderedAfterWithTrigger(n, w, after, p, rule)
              \/ \E covered \in Befores : RegisterTeardown(n, w, covered, p)
              \/ \E edges \in Bindings :
                    Register(n, w, edges, p) \/ RegisterDurable(n, w, edges, p)
  <2>1. PICK n \in Node, w \in Work, p \in Policy :
              \/ RegisterSource(n, w, p)
              \/ RegisterSourceDurable(n, w, p)
              \/ \E rule \in Rule :
                    \/ RegisterSourceWithTrigger(n, w, p, rule)
                    \/ \E after \in Befores :
                          RegisterSourceOrderedAfterWithTrigger(n, w, after, p, rule)
              \/ \E covered \in Befores : RegisterTeardown(n, w, covered, p)
              \/ \E edges \in Bindings :
                    Register(n, w, edges, p) \/ RegisterDurable(n, w, edges, p)
    BY <1>4
  <2>2. /\ p.retries \in Nat
        /\ Durable(p).retries \in Nat
        /\ AsTeardown(p).retries \in Nat
    BY PolicyRetries
  <2>3. CASE RegisterSource(n, w, p)
    <3>1. Stated(n, w, << >>, {}, "all-succeeded", p, FALSE)
      BY <1>1, <2>2, <2>3 DEF RegisterSource, Stated
    <3> QED BY <3>1
  <2>4. CASE RegisterSourceDurable(n, w, p)
    <3>1. Stated(n, w, << >>, {}, "all-succeeded", Durable(p), TRUE)
      BY <1>1, <2>2, <2>4 DEF RegisterSourceDurable, Stated
    <3> QED BY <3>1
  <2>5. CASE \E rule \in Rule : RegisterSourceWithTrigger(n, w, p, rule)
    <3>1. PICK rule \in Rule : Stated(n, w, << >>, {}, rule, p, FALSE)
      BY <1>1, <2>2, <2>5 DEF RegisterSourceWithTrigger, Stated
    <3> QED BY <3>1
  <2>6. CASE \E rule \in Rule : \E after \in Befores :
                RegisterSourceOrderedAfterWithTrigger(n, w, after, p, rule)
    <3>1. PICK rule \in Rule, after \in Befores :
             Stated(n, w, << >>, after, rule, p, FALSE)
      BY <1>1, <1>3, <2>2, <2>6 DEF RegisterSourceOrderedAfterWithTrigger, Stated
    <3> QED BY <3>1
  <2>7. CASE \E covered \in Befores : RegisterTeardown(n, w, covered, p)
    <3>1. PICK covered \in Befores :
             Stated(n, w, << >>, covered, "all-terminal", AsTeardown(p), FALSE)
      BY <1>1, <1>3, <2>2, <2>7 DEF RegisterTeardown, Stated
    <3> QED BY <3>1
  <2>8. CASE \E edges \in Bindings : Register(n, w, edges, p)
    <3>1. PICK edges \in Bindings : Stated(n, w, edges, {}, "all-succeeded", p, FALSE)
      BY <1>2, <2>2, <2>8 DEF Register, Stated
    <3> QED BY <3>1
  <2>9. CASE \E edges \in Bindings : RegisterDurable(n, w, edges, p)
    <3>1. PICK edges \in Bindings :
             Stated(n, w, edges, {}, "all-succeeded", Durable(p), TRUE)
      BY <1>2, <2>2, <2>9 DEF RegisterDurable, Stated
    <3> QED BY <3>1
  <2>10. QED
    BY <2>1, <2>3, <2>4, <2>5, <2>6, <2>7, <2>8, <2>9
<1>5. CASE \E n \in Node, w \in Work, after \in Befores :
              \/ RegisterSourceOrderedAfter(n, w, after)
              \/ \E edges \in Bindings : RegisterOrderedAfter(n, w, edges, after)
  <2>1. PICK n \in Node, w \in Work, after \in Befores :
              \/ RegisterSourceOrderedAfter(n, w, after)
              \/ \E edges \in Bindings : RegisterOrderedAfter(n, w, edges, after)
    BY <1>5
  <2>2. CASE RegisterSourceOrderedAfter(n, w, after)
    <3>1. Stated(n, w, << >>, after, "all-succeeded", DefaultPolicy, FALSE)
      BY <1>1, <1>3, <2>2, PolicyRetries DEF RegisterSourceOrderedAfter, Stated
    <3> QED BY <3>1
  <2>3. CASE \E edges \in Bindings : RegisterOrderedAfter(n, w, edges, after)
    <3>1. PICK edges \in Bindings :
             Stated(n, w, edges, after, "all-succeeded", DefaultPolicy, FALSE)
      BY <1>2, <1>3, <2>3, PolicyRetries DEF RegisterOrderedAfter, Stated
    <3> QED BY <3>1
  <2>4. QED
    BY <2>1, <2>2, <2>3
<1>6. QED
  BY <1>4, <1>5 DEF Registration

\* What an insertion leaves in the builder.
LEMMA Inserted ==
    ASSUME AssemblyType, NEW n \in Node, NEW w, NEW e, NEW a, NEW r, NEW p, NEW c,
           Insert(n, Declaration(w, e, a, r, p, c))
    PROVE  /\ DOMAIN nodes' = Node
           /\ \A m \in Node : m # n => nodes'[m] = nodes[m]
           /\ nodes'[n].count = nodes[n].count + 1
           /\ nodes'[n].edges = e /\ nodes'[n].after = a /\ nodes'[n].policy = p
           /\ declared' = Append(declared, n)
           /\ UNCHANGED <<phase, problems, indegree, order>>
<1> DEFINE d == Declaration(w, e, a, r, p, c)
           d1 == [d EXCEPT !.count = nodes[n].count + 1]
<1>1. nodes' = [nodes EXCEPT ![n] = d1]
  BY DEF Insert
<1>2. /\ d1.count = nodes[n].count + 1
      /\ d1.edges = e /\ d1.after = a /\ d1.policy = p
  BY DEF Declaration
<1> HIDE DEF d1
<1>3. DOMAIN nodes = Node
  BY DEF AssemblyType
<1>4. DOMAIN nodes' = Node /\ nodes'[n] = d1 /\ \A m \in Node : m # n => nodes'[m] = nodes[m]
  BY <1>1, <1>3
<1>5. declared' = Append(declared, n) /\ UNCHANGED <<phase, problems, indegree, order>>
  BY DEF Insert
<1>6. QED
  BY <1>2, <1>4, <1>5

\* An insertion keeps the types, and adds at most its own name to what is registered.
LEMMA InsertTyped ==
    ASSUME AssemblyType, NEW n \in Node, NEW w, NEW e, NEW a, NEW r, NEW p, NEW c,
           Stated(n, w, e, a, r, p, c)
    PROVE  /\ AssemblyType'
           /\ Registered' = Registered \cup {n}
<1>0. Handles \subseteq Node
  BY HandlesAreNodes
<1>1. /\ DOMAIN nodes' = Node
      /\ \A m \in Node : m # n => nodes'[m] = nodes[m]
      /\ nodes'[n].count = nodes[n].count + 1
      /\ nodes'[n].edges = e /\ nodes'[n].after = a /\ nodes'[n].policy = p
      /\ declared' = Append(declared, n)
      /\ UNCHANGED <<phase, problems, indegree, order>>
  BY Inserted DEF Stated
<1>2. e \in Seq(Edge)
  <2>1. \A i \in 1..Len(e) : e[i] \in [from : Handles, mode : Mode]
    BY LenProperties DEF Stated
  <2>2. \A i \in 1..Len(e) : e[i] \in Edge
    BY <2>1, <1>0 DEF Edge
  <2>3. Len(e) \in Nat /\ e \in [1..Len(e) -> [from : Handles, mode : Mode]]
    BY LenProperties DEF Stated
  <2>4. e \in [1..Len(e) -> Edge]
    BY <2>2, <2>3
  <2> QED
    BY <2>3, <2>4, SeqDef
<1>3. FormOK(nodes[n])'
  BY <1>0, <1>1, <1>2 DEF FormOK, Stated
<1>4. \A m \in Node : nodes[m].count \in Nat
  BY DEF AssemblyType
<1>5. Registered' = Registered \cup {n}
  BY <1>1, <1>4 DEF Registered
<1>6. \A m \in Registered' : FormOK(nodes[m])'
  <2>1. \A m \in Registered : m # n => FormOK(nodes[m])'
    BY <1>1 DEF AssemblyType, FormOK, Registered
  <2> QED
    BY <1>3, <1>5, <2>1
<1>7. declared' \in Seq(Node)
  BY <1>1, Extended DEF AssemblyType
<1>8. \A m \in Node : nodes'[m].count \in Nat
  BY <1>1, <1>4
<1>9. QED
  BY <1>1, <1>5, <1>6, <1>7, <1>8 DEF AssemblyType

\* The row a registration states keeps the counts of rows exact.
LEMMA InsertCounted ==
    ASSUME AssemblyType, Counted, NEW n \in Node, NEW w, NEW e, NEW a, NEW r, NEW p,
           NEW c, Stated(n, w, e, a, r, p, c)
    PROVE  Counted'
<1>1. /\ \A m \in Node : m # n => nodes'[m] = nodes[m]
      /\ nodes'[n].count = nodes[n].count + 1
      /\ declared' = Append(declared, n)
  BY Inserted DEF Stated
<1>2. /\ Len(declared) \in Nat
      /\ Len(declared') = Len(declared) + 1
      /\ \A i \in 1..Len(declared) : declared'[i] = declared[i] /\ declared[i] \in Node
      /\ declared'[Len(declared) + 1] = n
  BY <1>1, Extended, LenProperties DEF AssemblyType
<1>3. \A m \in Node : nodes[m].count \in Nat
  BY DEF AssemblyType
<1>4. \A i \in 1..Len(declared') :
         declared'[i] \in Node /\ (i = Len(declared) + 1 \/ i \in 1..Len(declared))
  BY <1>2
<1>5. \A i \in 1..Len(declared') : nodes'[declared'[i]].count # 0
  BY <1>1, <1>2, <1>3, <1>4 DEF Counted
<1>6. ASSUME NEW i \in 1..Len(declared'), NEW j \in 1..Len(declared'),
             declared'[i] = declared'[j], nodes'[declared'[i]].count = 1
      PROVE  i = j
  <2>1. CASE declared'[i] = n
    <3>1. nodes[n].count = 0
      BY <1>1, <1>3, <1>6, <2>1
    <3>2. \A k \in 1..Len(declared) : declared[k] # n
      BY <3>1 DEF Counted
    <3> QED
      BY <1>2, <1>4, <1>6, <2>1, <3>2
  <2>2. CASE declared'[i] # n
    <3>1. i \in 1..Len(declared) /\ j \in 1..Len(declared)
      BY <1>2, <1>4, <1>6, <2>2
    <3>2. nodes[declared[i]].count = 1 /\ declared[i] = declared[j]
      BY <1>1, <1>2, <1>6, <2>2, <3>1
    <3> QED
      BY <3>1, <3>2 DEF Counted
  <2> QED
    BY <2>1, <2>2
<1>7. QED
  BY <1>5, <1>6 DEF Counted

\* Where no other flow's handles are at hand, a declaration names what was declared
\* before it.
LEMMA InsertBackward ==
    ASSUME AssemblyType, Backward, Foreign = {}, NEW n \in Node, NEW w, NEW e, NEW a,
           NEW r, NEW p, NEW c, Stated(n, w, e, a, r, p, c)
    PROVE  Backward'
<1>1. /\ \A m \in Node : m # n => nodes'[m] = nodes[m]
      /\ nodes'[n].edges = e /\ nodes'[n].after = a
      /\ declared' = Append(declared, n)
  BY Inserted DEF Stated
<1>2. /\ Len(declared) \in Nat
      /\ Len(declared') = Len(declared) + 1
      /\ \A i \in 1..Len(declared) : declared'[i] = declared[i]
      /\ declared'[Len(declared) + 1] = n
  BY <1>1, Extended, LenProperties DEF AssemblyType
<1>3. Registered' = Registered \cup {n}
  BY InsertTyped
<1>4. \A u \in Handles : \E j \in 1..Len(declared) : declared[j] = u
  BY DEF Handles
<1>5. \A u \in Ups(n)' : u \in Handles
  <2>1. \A i \in 1..Len(e) : e[i].from \in Handles
    <3>1. \A i \in 1..Len(e) : e[i] \in [from : Handles, mode : Mode]
      BY LenProperties DEF Stated
    <3> QED
      BY <3>1
  <2>2. a \subseteq Handles
    BY DEF Stated
  <2>3. Ups(n)' = {e[i].from : i \in 1..Len(e)} \cup a
    BY <1>1 DEF Ups
  <2> QED
    BY <2>1, <2>2, <2>3
<1>6. ASSUME NEW m \in Registered'
      PROVE  \E i \in 1..Len(declared') :
                /\ declared'[i] = m
                /\ \A u \in Ups(m)' : \E j \in 1..(i - 1) : declared'[j] = u
  <2>1. CASE m = n
    <3> DEFINE here == Len(declared) + 1
    <3>1. here \in 1..Len(declared') /\ declared'[here] = m /\ here - 1 = Len(declared)
      BY <1>2, <2>1
    <3>2. \A u \in Ups(m)' : \E j \in 1..Len(declared) : declared'[j] = u
      BY <1>2, <1>4, <1>5, <2>1
    <3> QED
      BY <3>1, <3>2
  <2>2. CASE m # n
    <3>1. m \in Registered /\ nodes'[m] = nodes[m]
      BY <1>1, <1>3, <2>2 DEF Registered
    <3>2. Ups(m)' = Ups(m)
      BY <3>1 DEF Ups
    <3>3. PICK i \in 1..Len(declared) :
             /\ declared[i] = m
             /\ \A u \in Ups(m) : \E j \in 1..(i - 1) : declared[j] = u
      BY <3>1 DEF Backward
    <3>4. i \in 1..Len(declared') /\ declared'[i] = m
      BY <1>2, <3>3
    <3>5. \A j \in 1..(i - 1) : j \in 1..Len(declared)
      BY <1>2, <3>3
    <3>6. \A u \in Ups(m)' : \E j \in 1..(i - 1) : declared'[j] = u
      BY <1>2, <3>2, <3>3, <3>5
    <3> QED
      BY <3>4, <3>6
  <2> QED
    BY <2>1, <2>2
<1>7. QED
  BY <1>6 DEF Backward

\* A step that leaves the builder alone leaves everything that is said of it.
LEMMA BuilderAlone ==
    ASSUME UNCHANGED <<nodes, declared>>
    PROVE  /\ Registered' = Registered
           /\ \A n : Ups(n)' = Ups(n)
           /\ AllProblems' = AllProblems
           /\ Counted' = Counted
           /\ Backward' = Backward
<1>1. Registered' = Registered /\ \A n : Ups(n)' = Ups(n)
  BY DEF Registered, Ups
<1>2. \A p : Demands(p)' = Demands(p)
  BY <1>1 DEF Demands
<1>3. OwnershipProblems' = OwnershipProblems
  BY <1>1, <1>2 DEF OwnershipProblems
<1>4. ClassProblems' = ClassProblems
  BY <1>1 DEF ClassProblems, EffectiveClass
<1>5. /\ DurableProblems' = DurableProblems /\ TeardownProblems' = TeardownProblems
      /\ EmptyProblems' = EmptyProblems /\ DuplicateProblems' = DuplicateProblems
  BY <1>1 DEF DurableProblems, TeardownProblems, EmptyProblems, DuplicateProblems
<1>6. AllProblems' = AllProblems
  BY <1>3, <1>4, <1>5 DEF AllProblems
<1>7. Counted' = Counted
  BY DEF Counted
<1>8. Backward' = Backward
  BY <1>1 DEF Backward
<1>9. QED
  BY <1>1, <1>6, <1>7, <1>8

-----------------------------------------------------------------------------
(* Assembly: the ordering loop.                                             *)

\* A node's awaited producers are finitely many.
LEMMA AwaitsFinite ==
    ASSUME NEW n
    PROVE  IsFiniteSet(Awaits(n)) /\ Cardinality(Awaits(n)) \in Nat
<1>1. Awaits(n) \subseteq Node
  BY DEF Awaits, Registered
<1>2. QED
  BY <1>1, NodeAssumption, FS_Subset, FS_CardinalityType

\* Where no other flow's handles are at hand, everything a node names is registered.
LEMMA UpsRegistered ==
    ASSUME AssemblyType, Counted, Backward, NEW n \in Registered
    PROVE  Ups(n) \subseteq Registered
<1>1. PICK i \in 1..Len(declared) :
         /\ declared[i] = n
         /\ \A u \in Ups(n) : \E j \in 1..(i - 1) : declared[j] = u
  BY DEF Backward
<1>2. \A j \in 1..(i - 1) : j \in 1..Len(declared)
  BY <1>1, LenProperties DEF AssemblyType
<1>3. \A j \in 1..Len(declared) : declared[j] \in Node /\ nodes[declared[j]].count > 0
  <2>1. \A j \in 1..Len(declared) : declared[j] \in Node
    BY LenProperties DEF AssemblyType
  <2>2. \A j \in 1..Len(declared) : nodes[declared[j]].count \in Nat
    BY <2>1 DEF AssemblyType
  <2> QED
    BY <2>1, <2>2 DEF Counted
<1>4. QED
  BY <1>1, <1>2, <1>3 DEF Registered

\* In an accepted flow every registered name was registered once.
LEMMA RegisteredOnce ==
    ASSUME AssemblyType, AllProblems = {}, NEW n \in Registered
    PROVE  nodes[n].count = 1
<1>1. DuplicateProblems = {}
  BY DEF AllProblems
<1>2. ~(nodes[n].count > 1)
  <2>1. SUFFICES ASSUME nodes[n].count > 1 PROVE FALSE
    OBVIOUS
  <2>2. <<"duplicate", n>> \in DuplicateProblems
    BY <2>1 DEF DuplicateProblems
  <2> QED
    BY <1>1, <2>2
<1>3. QED
  BY <1>2 DEF AssemblyType, Registered

\* The loop never stops short: while a registered node has no place, the one that
\* was declared first waits for nothing.
LEMMA SomeReady ==
    ASSUME AssemblyType, Counted, Backward, Underway,
           phase \in {"ordering", "assembled"}, Registered # Placed
    PROVE  Ready # {}
<1>1. AllProblems = {} /\ Placed \subseteq Registered
  BY DEF Underway
<1> DEFINE open == {i \in 1..Len(declared) : declared[i] \in Registered \ Placed}
<1>2. open # {}
  <2>1. PICK n \in Registered : n \notin Placed
    BY <1>1
  <2>2. PICK i \in 1..Len(declared) : declared[i] = n
    BY DEF Backward
  <2> QED
    BY <2>1, <2>2
<1>3. PICK i \in open : \A k \in open : i <= k
  <2>1. Len(declared) \in Nat
    BY LenProperties DEF AssemblyType
  <2> QED
    BY <1>2, <2>1, LeastExists
<1> DEFINE n == declared[i]
<1>4. n \in Registered /\ n \notin Placed /\ i \in 1..Len(declared)
  BY <1>3
<1>5. PICK k \in 1..Len(declared) :
         /\ declared[k] = n
         /\ \A u \in Ups(n) : \E j \in 1..(k - 1) : declared[j] = u
  BY <1>4 DEF Backward
<1>6. k = i
  <2>1. nodes[n].count = 1
    BY <1>1, <1>4, RegisteredOnce
  <2> QED
    BY <1>4, <1>5, <2>1 DEF Counted
<1>7. Ups(n) \subseteq Registered
  BY <1>4, UpsRegistered
<1>8. ASSUME NEW u \in Ups(n) PROVE u \in Placed
  <2>1. PICK j \in 1..(i - 1) : declared[j] = u
    BY <1>5, <1>6
  <2>2. j \in 1..Len(declared) /\ j < i
    BY <1>4, <2>1, LenProperties DEF AssemblyType
  <2>3. j \notin open
    BY <1>3, <1>4, <2>2
  <2> QED
    BY <1>7, <1>8, <2>1, <2>2, <2>3
<1>9. Awaits(n) = {}
  BY <1>8 DEF Awaits
<1>10. indegree[n] = 0
  BY <1>4, <1>9, FS_EmptySet DEF Underway
<1>11. QED
  BY <1>4, <1>10 DEF Ready

\* A node that waits for nothing has all it names in front of it.
LEMMA ReadyHasPlace ==
    ASSUME AssemblyType, Counted, Backward, Underway,
           phase \in {"ordering", "assembled"}
    PROVE  Ready = {n \in Registered \ Placed : Ups(n) \subseteq Placed}
<1>1. ASSUME NEW n \in Registered
      PROVE  indegree[n] = 0 <=> Ups(n) \subseteq Placed
  <2>1. indegree[n] = Cardinality(Awaits(n))
    BY DEF Underway
  <2>2. indegree[n] = 0 <=> Awaits(n) = {}
    BY <2>1, AwaitsFinite, FS_EmptySet
  <2>3. Awaits(n) = {} <=> Ups(n) \subseteq Placed
    BY UpsRegistered DEF Awaits
  <2> QED
    BY <2>2, <2>3
<1>2. QED
  BY <1>1 DEF Ready

\* One turn of the loop keeps the waits exact and the order greedy.
LEMMA PopKeeps ==
    ASSUME AssemblyType, Counted, Backward, Underway, Greedy, Pop
    PROVE  AssemblyType' /\ Underway' /\ Greedy'
<1>0. phase = "ordering" /\ phase' = "ordering" /\ UNCHANGED <<nodes, declared>>
  BY DEF Pop
<1>1. PICK n \in Ready :
         /\ \A m \in Ready : n <= m
         /\ order' = Append(order, n)
         /\ indegree' = [m \in Node |-> IF m \in Registered /\ n \in Ups(m)
                                          THEN indegree[m] - 1 ELSE indegree[m]]
  BY DEF Pop
<1>2. n \in Registered /\ n \notin Placed /\ n \in Node /\ Placed \subseteq Registered
  BY <1>0, <1>1 DEF Ready, Registered, Underway
<1>3. /\ Len(order) \in Nat
      /\ order' \in Seq(Node)
      /\ Len(order') = Len(order) + 1
      /\ \A i \in 1..Len(order) : order'[i] = order[i]
      /\ order'[Len(order) + 1] = n
  BY <1>1, <1>2, Extended DEF AssemblyType
<1>4. Placed' = Placed \cup {n}
  BY <1>3 DEF Placed
<1>5. Registered' = Registered /\ (\A m : Ups(m)' = Ups(m)) /\ AllProblems' = AllProblems
  BY <1>0, BuilderAlone
<1>6. \A m : Awaits(m)' = Awaits(m) \ {n}
  BY <1>4, <1>5 DEF Awaits
<1>7. ASSUME NEW m \in Registered
      PROVE  indegree'[m] = Cardinality(Awaits(m)') /\ indegree'[m] \in Nat
  <2>1. indegree[m] = Cardinality(Awaits(m)) /\ m \in Node
    BY <1>0 DEF Underway, Registered
  <2>2. IsFiniteSet(Awaits(m)) /\ Cardinality(Awaits(m)) \in Nat
    BY AwaitsFinite
  <2>3. CASE n \in Ups(m)
    <3>1. n \in Awaits(m)
      BY <1>2, <2>3 DEF Awaits
    <3>2. Cardinality(Awaits(m) \ {n}) = Cardinality(Awaits(m)) - 1
      BY <2>2, <3>1, FS_RemoveElement
    <3>3. Cardinality(Awaits(m) \ {n}) \in Nat
      BY <2>2, FS_Subset, FS_CardinalityType
    <3>4. indegree'[m] = indegree[m] - 1
      BY <1>1, <2>1, <2>3
    <3> QED
      BY <1>6, <2>1, <3>2, <3>3, <3>4
  <2>4. CASE n \notin Ups(m)
    <3>1. Awaits(m) \ {n} = Awaits(m)
      BY <2>4 DEF Awaits
    <3>2. indegree'[m] = indegree[m]
      BY <1>1, <2>1, <2>4
    <3> QED
      BY <1>6, <2>1, <2>2, <3>1, <3>2
  <2> QED
    BY <2>3, <2>4
<1>8. indegree' \in [Node -> Nat]
  <2>1. \A m \in Node : m \notin Registered => indegree'[m] = indegree[m]
    BY <1>1
  <2>2. \A m \in Node : indegree'[m] \in Nat
    BY <1>7, <2>1 DEF AssemblyType
  <2>3. indegree' = [m \in Node |-> indegree'[m]]
    BY <1>1
  <2> QED
    BY <2>2, <2>3
<1>9. AssemblyType'
  <2>1. \A m \in Registered' : FormOK(nodes[m])'
    BY <1>0, <1>5 DEF AssemblyType, FormOK
  <2> QED
    BY <1>0, <1>3, <1>8, <2>1 DEF AssemblyType
<1>10. Underway'
  <2>1. Placed' \subseteq Registered'
    BY <1>2, <1>4, <1>5
  <2>2. AllProblems' = {}
    BY <1>0, <1>5 DEF Underway
  <2>3. \A m \in Registered' : indegree'[m] = Cardinality(Awaits(m)')
    BY <1>5, <1>7
  <2> QED
    BY <2>1, <2>2, <2>3 DEF Underway
<1>11. Greedy'
  <2> DEFINE before(s, i) == {s[j] : j \in 1..(i - 1)}
             able(S) == {m \in Registered \ S : Ups(m) \subseteq S}
  <2>1. ASSUME NEW i \in 1..Len(order')
        PROVE  /\ order'[i] \in able(before(order', i))
               /\ \A m \in able(before(order', i)) : order'[i] <= m
    <3>1. CASE i \in 1..Len(order)
      <4>1. \A j \in 1..(i - 1) : order'[j] = order[j]
        BY <1>3, <3>1
      <4>2. before(order', i) = before(order, i) /\ order'[i] = order[i]
        BY <1>3, <3>1, <4>1
      <4>3. /\ order[i] \in able(before(order, i))
            /\ \A m \in able(before(order, i)) : order[i] <= m
        BY <3>1 DEF Greedy
      <4> HIDE DEF before, able
      <4> QED
        BY <4>2, <4>3, Zenon
    <3>2. CASE i = Len(order) + 1
      <4>1. i - 1 = Len(order)
        BY <1>3, <3>2
      <4>2. before(order', i) = Placed
        BY <1>3, <4>1 DEF Placed
      <4>3. able(Placed) = Ready
        BY <1>0, ReadyHasPlace
      <4>4. order'[i] = n
        BY <1>3, <3>2
      <4> HIDE DEF before, able
      <4>5. n \in Ready /\ \A m \in Ready : n <= m
        BY <1>1
      <4> QED
        BY <4>2, <4>3, <4>4, <4>5, Zenon
    <3>3. i \in 1..Len(order) \/ i = Len(order) + 1
      BY <1>3
    <3> HIDE DEF before, able
    <3> QED
      BY <3>1, <3>2, <3>3
  <2>2. \A i : able(before(order', i)) = {m \in Registered' \ before(order', i) :
                                            Ups(m)' \subseteq before(order', i)}
    BY <1>5
  <2> QED
    BY <2>1, <2>2 DEF Greedy
<1>12. QED
  BY <1>9, <1>10, <1>11

-----------------------------------------------------------------------------
(* Assembly: the invariant and the theorem.                                 *)

\* An empty flow satisfies the invariant of the assembly.
LEMMA AssemblyInitHolds ==
    Init => AssemblyInv
<1> SUFFICES ASSUME Init PROVE AssemblyInv
  OBVIOUS
<1>1. \A n \in Node : nodes[n].count = 0
  BY DEF Init, NoNode
<1>2. Registered = {}
  BY <1>1 DEF Registered
<1>3. << >> \in Seq(Node) /\ Len(<< >>) = 0
  BY EmptySeq
<1>4. AssemblyType
  BY <1>1, <1>2, <1>3 DEF Init, AssemblyType
<1>5. Counted /\ Backward
  BY <1>2, <1>3 DEF Init, Counted, Backward
<1>6. QED
  BY <1>4, <1>5 DEF Init, AssemblyInv, Underway

\* The end of the checks: a flow without a problem goes on to the ordering.
LEMMA AcceptKeeps ==
    ASSUME AssemblyInv, Accept
    PROVE  AssemblyInv'
<1>1. /\ phase = "finished" /\ AllProblems = {} /\ phase' = "ordering"
      /\ indegree' = [n \in Node |-> IF n \in Registered
                                       THEN Cardinality(Ups(n) \cap Registered) ELSE 0]
      /\ UNCHANGED <<nodes, declared, problems, order>>
  BY DEF Accept
<1>2. Registered' = Registered /\ (\A m : Ups(m)' = Ups(m)) /\ AllProblems' = AllProblems
      /\ Counted' = Counted /\ Backward' = Backward
  BY <1>1, BuilderAlone
<1>3. order = << >> /\ order' = << >> /\ Len(order') = 0
  BY <1>1, EmptySeq DEF AssemblyInv
<1>4. Placed' = {}
  BY <1>3 DEF Placed
<1>5. \A m : Awaits(m)' = Ups(m) \cap Registered
  BY <1>2, <1>4 DEF Awaits
<1>6. \A m \in Node : IsFiniteSet(Ups(m) \cap Registered)
                      /\ Cardinality(Ups(m) \cap Registered) \in Nat
  <2>1. \A m : Ups(m) \cap Registered \subseteq Node
    BY DEF Registered
  <2> QED
    BY <2>1, NodeAssumption, FS_Subset, FS_CardinalityType
<1>7. indegree' \in [Node -> Nat]
  BY <1>1, <1>6
<1>8. AssemblyType'
  <2>1. \A m \in Registered' : FormOK(nodes[m])'
    BY <1>1, <1>2 DEF AssemblyInv, AssemblyType, FormOK
  <2> QED
    BY <1>1, <1>7, <2>1 DEF AssemblyInv, AssemblyType
<1>9. Underway'
  <2>1. \A m \in Registered' : indegree'[m] = Cardinality(Awaits(m)')
    BY <1>1, <1>2, <1>5 DEF Registered
  <2> QED
    BY <1>1, <1>2, <1>4, <2>1 DEF Underway
<1>10. Greedy'
  BY <1>3 DEF Greedy
<1>11. QED
  BY <1>1, <1>2, <1>8, <1>9, <1>10 DEF AssemblyInv

\* A step that leaves the flow and the loop's lists alone.
LEMMA LoopAlone ==
    ASSUME UNCHANGED <<nodes, declared, indegree, order>>
    PROVE  /\ AssemblyType' = AssemblyType /\ Counted' = Counted /\ Backward' = Backward
           /\ Registered' = Registered /\ Placed' = Placed /\ Ready' = Ready
           /\ Greedy' = Greedy /\ AllProblems' = AllProblems
           /\ \A m : Awaits(m)' = Awaits(m)
<1>1. Registered' = Registered /\ (\A m : Ups(m)' = Ups(m)) /\ AllProblems' = AllProblems
      /\ Counted' = Counted /\ Backward' = Backward
  BY BuilderAlone
<1>2. Placed' = Placed
  BY DEF Placed
<1>3. Ready' = Ready /\ \A m : Awaits(m)' = Awaits(m)
  BY <1>1, <1>2 DEF Ready, Awaits
<1>4. Greedy' = Greedy
  BY <1>1 DEF Greedy
<1>5. AssemblyType' = AssemblyType
  BY <1>1 DEF AssemblyType, FormOK
<1>6. QED
  BY <1>1, <1>2, <1>3, <1>4, <1>5

\* Every registration, check and step of the ordering keeps the invariant.
LEMMA AssemblyStepHolds ==
    ASSUME Foreign = {}, AssemblyInv, [Next]_vars
    PROVE  AssemblyInv'
<1>1. ASSUME phase = "building", Registration PROVE AssemblyInv'
  <2>1. PICK n \in Node : \E w, e, a, r, p, c : Stated(n, w, e, a, r, p, c)
    BY <1>1, RegistrationStates DEF AssemblyInv
  <2>2. PICK w, e, a, r, p, c : Stated(n, w, e, a, r, p, c)
    BY <2>1
  <2>3. AssemblyType' /\ Counted' /\ Backward'
    BY <2>2, InsertTyped, InsertCounted, InsertBackward DEF AssemblyInv
  <2>4. phase' = "building" /\ order' = << >>
    BY <1>1, <2>2, Inserted DEF AssemblyInv, Stated
  <2> QED
    BY <2>3, <2>4 DEF AssemblyInv, Underway
<1>2. ASSUME Finish \/ Reject PROVE AssemblyInv'
  <2>1. /\ phase \notin {"ordering", "assembled"} /\ phase' \notin {"ordering", "assembled"}
        /\ UNCHANGED <<nodes, declared, indegree, order>>
    BY <1>2 DEF Finish, Reject
  <2>2. AssemblyType' /\ Counted' /\ Backward'
    BY <2>1, LoopAlone DEF AssemblyInv
  <2> QED
    BY <2>1, <2>2 DEF AssemblyInv, Underway
<1>3. ASSUME Pop PROVE AssemblyInv'
  <2>1. phase = "ordering" /\ phase' = "ordering" /\ UNCHANGED <<nodes, declared>>
    BY <1>3 DEF Pop
  <2>2. AssemblyType' /\ Underway' /\ Greedy'
    BY <1>3, <2>1, PopKeeps DEF AssemblyInv
  <2>3. Counted' /\ Backward'
    BY <2>1, BuilderAlone DEF AssemblyInv
  <2> QED
    BY <2>1, <2>2, <2>3 DEF AssemblyInv
<1>4. ASSUME Assembled PROVE AssemblyInv'
  <2>1. /\ phase = "ordering" /\ phase' = "assembled" /\ Ready = {}
        /\ UNCHANGED <<nodes, declared, indegree, order>>
    BY <1>4 DEF Assembled
  <2>2. /\ AssemblyType' /\ Counted' /\ Backward' /\ Greedy' /\ Ready' = {}
        /\ AllProblems' = {} /\ Placed' = Placed /\ Registered' = Registered
        /\ \A m : Awaits(m)' = Awaits(m)
    BY <2>1, LoopAlone DEF AssemblyInv, Underway
  <2>3. Underway'
    BY <2>1, <2>2 DEF AssemblyInv, Underway
  <2> QED
    BY <2>1, <2>2, <2>3 DEF AssemblyInv
<1>5. ASSUME UNCHANGED vars PROVE AssemblyInv'
  <2>1. UNCHANGED <<nodes, declared, indegree, order>> /\ phase' = phase
    BY <1>5 DEF vars
  <2>2. /\ AssemblyType' = AssemblyType /\ Counted' = Counted /\ Backward' = Backward
        /\ Registered' = Registered /\ Placed' = Placed /\ Ready' = Ready
        /\ Greedy' = Greedy /\ AllProblems' = AllProblems
        /\ \A m : Awaits(m)' = Awaits(m)
    BY <2>1, LoopAlone
  <2>3. Underway'
    BY <2>1, <2>2 DEF AssemblyInv, Underway
  <2> QED
    BY <2>1, <2>2, <2>3 DEF AssemblyInv
<1>6. QED
  BY <1>1, <1>2, <1>3, <1>4, <1>5, AcceptKeeps DEF Next

\* A value taken by ownership has the one reader.
LEMMA OwnedOnce ==
    ASSUME AssemblyType, AllProblems = {}, NEW n \in Registered,
           NEW i \in 1..Len(nodes[n].edges), nodes[n].edges[i].mode = "owned"
    PROVE  ConsumerCount(nodes[n].edges[i].from) = 1 /\ nodes[n].policy.retries = 0
<1> DEFINE p == nodes[n].edges[i].from
<1>1. FormOK(nodes[n])
  BY DEF AssemblyType
<1>2. i \in 1..MaxInputArity /\ i <= Len(nodes[n].edges)
  <2>1. Len(nodes[n].edges) \in Nat /\ Len(nodes[n].edges) <= MaxInputArity
    BY <1>1, LenProperties DEF FormOK
  <2> QED
    BY <2>1 DEF MaxInputArity
<1>3. <<n, i>> \in Demands(p)
  BY <1>2 DEF Demands
<1>4. ~(Cardinality(Demands(p)) > 1) /\ ~(nodes[n].policy.retries > 0)
  <2>1. SUFFICES ASSUME Cardinality(Demands(p)) > 1 \/ nodes[n].policy.retries > 0
                 PROVE  FALSE
    OBVIOUS
  <2>2. <<"ownership", n>> \in OwnershipProblems
    BY <2>1 DEF OwnershipProblems
  <2> QED
    BY <2>2 DEF AllProblems
<1>5. IsFiniteSet(Demands(p)) /\ Cardinality(Demands(p)) \in Nat
  <2>1. IsFiniteSet(Registered)
    BY NodeAssumption, FS_Subset DEF Registered
  <2>2. IsFiniteSet(1..MaxInputArity)
    <3>1. MaxInputArity \in Int /\ 1 \in Int
      BY DEF MaxInputArity
    <3> QED
      BY <3>1, FS_Interval
  <2>3. IsFiniteSet(Registered \X (1..MaxInputArity))
    BY <2>1, <2>2, FS_Product
  <2>4. Demands(p) \subseteq Registered \X (1..MaxInputArity)
    BY DEF Demands
  <2> QED
    BY <2>3, <2>4, FS_Subset, FS_CardinalityType
<1>6. Cardinality(Demands(p)) # 0
  BY <1>3, <1>5, FS_EmptySet
<1>7. nodes[n].policy.retries \in Nat
  BY <1>1 DEF FormOK
<1>8. QED
  BY <1>4, <1>5, <1>6, <1>7 DEF ConsumerCount

\* What the invariant says at the end of the ordering is what a run needs.
LEMMA AssemblyInvSuffices ==
    AssemblyInv => AcceptedIsRunnable
<1> SUFFICES ASSUME AssemblyInv PROVE AcceptedIsRunnable
  OBVIOUS
<1>1. ASSUME phase \in {"ordering", "assembled"}, NEW n \in Registered,
             NEW i \in 1..Len(nodes[n].edges), nodes[n].edges[i].mode = "owned"
      PROVE  ConsumerCount(nodes[n].edges[i].from) = 1 /\ nodes[n].policy.retries = 0
  BY <1>1, OwnedOnce DEF AssemblyInv, Underway
<1>2. ASSUME phase = "assembled" PROVE Placed = Registered /\ Greedy
  BY <1>2, SomeReady DEF AssemblyInv
<1>3. QED
  BY <1>1, <1>2 DEF AcceptedIsRunnable, Greedy

\* AcceptedIsRunnable, for every set of tasks, policies and wirings and any number of
\* registrations: an accepted pipeline is ordered to the last node, each after all it
\* names and the least by name among those that could be next, and what is taken by
\* ownership has one reader, that runs once (assemble and its ordering loop).  The
\* flow's registrations have only the handles the flow returned: with a handle of
\* another flow, which the type does not tell apart, a name can be stated before it
\* is registered.
THEOREM AcceptedPipelineRuns ==
    ASSUME Foreign = {}
    PROVE  Spec => []AcceptedIsRunnable
<1>1. Init => AssemblyInv
  BY AssemblyInitHolds
<1>2. AssemblyInv /\ [Next]_vars => AssemblyInv'
  BY AssemblyStepHolds
<1>3. AssemblyInv => AcceptedIsRunnable
  BY AssemblyInvSuffices
<1>4. QED
  BY <1>1, <1>2, <1>3, PTL DEF Spec

-----------------------------------------------------------------------------
(* The command line: the inductive invariant.                               *)

\* The steps of `run' after the file is read, and those after its stream is open.
Opened == {"metastore", "index", "assemble", "start", "loop", "flush"}

SizedAt == {"grace", "teardown-deadline", "failure-mode", "log-format", "sink"} \cup Opened

Settling ==
    {"force-roundtrip", "executor", "max-pods", "available", "flags", "store",
     "compute-threads", "blocking-threads", "memory", "headroom", "capacity"} \cup SizedAt

Routed == {"run", "graph", "validate", "exec-node", "single-node", "prune"}

\* The steps in the order the run takes them; a knob is resolved at the step of its name.
Rank(p) ==
    CASE p = "force-roundtrip"   -> 1
      [] p = "executor"          -> 2
      [] p = "max-pods"          -> 3
      [] p = "available"         -> 4
      [] p = "flags"             -> 5
      [] p = "store"             -> 6
      [] p = "compute-threads"   -> 7
      [] p = "blocking-threads"  -> 8
      [] p = "memory"            -> 9
      [] p = "headroom"          -> 10
      [] p = "capacity"          -> 11
      [] p = "grace"             -> 12
      [] p = "teardown-deadline" -> 13
      [] p = "failure-mode"      -> 14
      [] p = "log-format"        -> 15
      [] p = "sink"              -> 16
      [] p = "metastore"         -> 17
      [] p = "index"             -> 18
      [] p = "assemble"          -> 19
      [] p = "start"             -> 20
      [] p = "loop"              -> 21
      [] p = "flush"             -> 22

CommandType ==
    /\ argv \in Seq(Token) /\ verb \in Verb /\ env \in Env
    /\ files \in Files /\ build \in Build
    /\ DOMAIN config = FileKey
    /\ created \in BOOLEAN
    /\ pc \in {"typing", "select", "ended"} \cup Routed \cup Settling

\* Where the process is agrees with what it was asked and has left behind.
Route ==
    /\ pc \in {"typing", "select"} => flow = "none"
    /\ pc = "select" => verb \in Routed
    /\ pc \in Routed => verb = pc
    /\ pc \in Settling => verb = "run"
    /\ pc # "ended" => exit = "none" /\ (created <=> pc \in Opened)
    /\ pc \notin {"flush", "ended"} => result = << >>
    /\ pc \notin SizedAt \cup {"ended"} => machine = << >>
    /\ pc \in {"metastore", "index"} => "metastore" \in build

Honoured(k) == config[k] = Asked(k) /\ ~Unreadable(k) /\ ~OutOfRange(k, Asked(k))

\* The knobs whose step is past hold what was asked.
Settled ==
    pc \in Settling =>
       /\ tier = Overlaid
       /\ \A k \in ReadKnob : Rank(k) < Rank(pc) => Honoured(k)

AskedPin ==
    [p \in DOMAIN PinOf |-> IF Asked(PinOf[p]) = "default" THEN Absent
                                                          ELSE Number[Asked(PinOf[p])]]

AskedSlots == IF Asked("max-pods") = "default" THEN Plenty ELSE Number[Asked("max-pods")]

SizingAsked == \E k \in SizingKnob : Asked(k) # "default"

\* The pools are of the size the settings and the machine give them.
Sized ==
    pc \in SizedAt =>
       \/ ~SizingAsked /\ machine = << >> /\ totals = Unconstrained(AskedSlots)
       \/ /\ SizingAsked
          /\ machine \in Machine
          /\ totals = Detected(machine, AskedPin, Percent(Asked("headroom")), AskedSlots)

\* The run this process cannot hold, or give the cluster it wants.
Unholdable ==
    \/ Remote /\ PlacedNodes(pipeline) # {}
    \/ TooBig(pipeline, Remote, totals) # {}

Held ==
    /\ pc \in {"start", "loop", "flush"} => pipeline \in Pipeline
    /\ pc = "loop" => ~Unholdable
    /\ pc = "flush" =>
          \/ result = [outcome |-> "bootstrap-failed", origin |-> "none"] /\ Unholdable
          \/ \E outcome \in {"succeeded", "failed", "cancelled"},
                origin \in {"none", "external-interrupt", "failure-under-stop"} :
                /\ result = [outcome |-> outcome, origin |-> origin]
                /\ origin = "failure-under-stop" => outcome = "failed"

CommandInv ==
    /\ CommandType
    /\ Route
    /\ Settled
    /\ Sized
    /\ Held
    /\ UsageHasCause /\ BootstrapHasCause /\ ExitSaysWhy

-----------------------------------------------------------------------------
(* The command line: reading the settings.                                  *)

\* A token that was given has a first place on the command line.
LEMMA FirstIsAt ==
    ASSUME argv \in Seq(Token), NEW k, Given(k)
    PROVE  First(k) \in 1..Len(argv) /\ argv[First(k)] \in Token
<1>1. Len(argv) \in Nat /\ \A i \in 1..Len(argv) : argv[i] \in Token
  BY LenProperties
<1>2. At(k) \in SUBSET (1..Len(argv)) /\ At(k) # {}
  BY DEF At, Given
<1>3. \E i \in At(k) : \A j \in At(k) : i <= j
  BY <1>1, <1>2, LeastExists
<1>4. First(k) \in At(k)
  BY <1>3 DEF First
<1>5. QED
  BY <1>1, <1>2, <1>4

\* What a flag says is a text.
LEMMA FlagTextIsText ==
    ASSUME argv \in Seq(Token), NEW k, Given(k)
    PROVE  FlagText(k) # "default"
<1> DEFINE i == First(k)
<1>1. i \in 1..Len(argv) /\ argv[i] \in Token
  BY FirstIsAt
<1>2. argv[i].text # "default"
  BY <1>1, TextAssumption
<1>3. Following(i) # "default"
  <2>1. CASE i < Len(argv)
    <3>1. i + 1 \in 1..Len(argv)
      BY <1>1, <2>1, LenProperties
    <3>2. argv[i + 1] \in Token
      BY <3>1, LenProperties
    <3> QED
      BY <2>1, <3>2, TextAssumption DEF Following, TextOf
  <2>2. CASE ~(i < Len(argv))
    BY <2>2 DEF Following
  <2> QED
    BY <2>1, <2>2
<1>4. QED
  BY <1>2, <1>3 DEF FlagText, ToggleFlag, ValuedFlag

\* The first of four places that holds something.
LEMMA FirstPlace ==
    ASSUME NEW a, NEW b, NEW c, NEW d
    PROVE  Strongest(<<a, b, c, d>>)
             = IF a # "default" THEN a ELSE IF b # "default" THEN b
               ELSE IF c # "default" THEN c ELSE d
<1> DEFINE places == <<a, b, c, d>>
           set == {i \in 1..Len(places) : places[i] # "default"}
           least == CHOOSE i \in set : \A j \in set : i <= j
<1>1. places[1] = a /\ places[2] = b /\ places[3] = c /\ places[4] = d /\ Len(places) = 4
  OBVIOUS
<1>2. \A i : i \in set <=> (i \in {1, 2, 3, 4} /\ places[i] # "default")
  BY <1>1
<1> HIDE DEF places, set
<1>3. ASSUME NEW i \in set, \A j \in set : i <= j PROVE least = i
  <2>1. least \in set /\ \A j \in set : least <= j
    BY <1>3
  <2> QED
    BY <1>2, <1>3, <2>1
<1> HIDE DEF least
<1>4. CASE a # "default"
  <2>1. 1 \in set /\ \A j \in set : 1 <= j
    BY <1>1, <1>2, <1>4
  <2>2. least = 1
    BY <2>1, <1>3
  <2> QED
    BY <1>1, <1>4, <2>1, <2>2 DEF Strongest, places, set, least
<1>5. CASE a = "default" /\ b # "default"
  <2>1. 2 \in set /\ \A j \in set : 2 <= j
    BY <1>1, <1>2, <1>5
  <2>2. least = 2
    BY <2>1, <1>3
  <2> QED
    BY <1>1, <1>5, <2>1, <2>2 DEF Strongest, places, set, least
<1>6. CASE a = "default" /\ b = "default" /\ c # "default"
  <2>1. 3 \in set /\ \A j \in set : 3 <= j
    BY <1>1, <1>2, <1>6
  <2>2. least = 3
    BY <2>1, <1>3
  <2> QED
    BY <1>1, <1>6, <2>1, <2>2 DEF Strongest, places, set, least
<1>7. CASE a = "default" /\ b = "default" /\ c = "default" /\ d # "default"
  <2>1. 4 \in set /\ \A j \in set : 4 <= j
    BY <1>1, <1>2, <1>7
  <2>2. least = 4
    BY <2>1, <1>3
  <2> QED
    BY <1>1, <1>7, <2>1, <2>2 DEF Strongest, places, set, least
<1>8. CASE a = "default" /\ b = "default" /\ c = "default" /\ d = "default"
  <2>1. set = {}
    BY <1>1, <1>2, <1>8
  <2> QED
    BY <1>8, <2>1 DEF Strongest, places, set
<1>9. QED
  BY <1>4, <1>5, <1>6, <1>7, <1>8

\* A profile's values are texts.
LEMMA ProfileTexts ==
    ASSUME files \in Files, NEW p, NEW k \in DOMAIN SettingsOf(p)
    PROVE  SettingsOf(p)[k] # "default"
<1>1. CASE Found /\ p \in DOMAIN Profiles
  <2>1. SettingsOf(p) = files[Path].profiles[p]
    BY <1>1 DEF SettingsOf, Profiles
  <2>2. Path \in DOMAIN files /\ p \in DOMAIN files[Path].profiles
    BY <1>1 DEF Found, Profiles
  <2>3. k \in DOMAIN files[Path].profiles[p]
    BY <2>1
  <2> QED
    BY <2>1, <2>2, <2>3, TextAssumption
<1>2. CASE ~(Found /\ p \in DOMAIN Profiles)
  BY <1>2 DEF SettingsOf
<1>3. QED
  BY <1>1, <1>2

\* With the file's settings laid over one another, resolving a knob finds the strongest
\* place that sets it.
LEMMA SettingIsAsked ==
    ASSUME CommandType, tier = Overlaid, NEW k \in Knob
    PROVE  Setting(k) = Asked(k)
<1> DEFINE S1 == SettingsOf(ProfileAsked)
           S2 == SettingsOf("default")
           a == IF Given(k) THEN FlagText(k) ELSE "default"
           b == IF env[k] = "" THEN "default" ELSE env[k]
           c == IF k \in DOMAIN S1 THEN S1[k] ELSE "default"
           d == IF k \in DOMAIN S2 THEN S2[k] ELSE "default"
<1>1. Asked(k) = IF a # "default" THEN a ELSE IF b # "default" THEN b
                 ELSE IF c # "default" THEN c ELSE d
  <2> HIDE DEF a, b, c, d
  <2>1. Asked(k) = Strongest(<<a, b, c, d>>)
    BY DEF Asked, a, b, c, d, S1, S2
  <2> QED
    BY <2>1, FirstPlace
<1>2. /\ Given(k) => FlagText(k) # "default"
      /\ env[k] # "default"
  BY FlagTextIsText, TextAssumption DEF CommandType
<1>3. /\ k \in DOMAIN S1 => S1[k] # "default"
      /\ k \in DOMAIN S2 => S2[k] # "default"
  BY ProfileTexts DEF CommandType
<1>4. /\ DOMAIN tier = DOMAIN S1 \cup DOMAIN S2
      /\ k \in DOMAIN tier => tier[k] = IF k \in DOMAIN S1 THEN S1[k] ELSE S2[k]
  BY DEF Overlaid, Over
<1> HIDE DEF S1, S2
<1>5. QED
  BY <1>1, <1>2, <1>3, <1>4 DEF Setting

\* Everything that reads the settings reads only what the process was started with.
LEMMA AskedStays ==
    ASSUME UNCHANGED started
    PROVE  /\ \A k : Given(k)' = Given(k) /\ FlagText(k)' = FlagText(k)
           /\ \A k : Asked(k)' = Asked(k)
           /\ \A k : Unreadable(k)' = Unreadable(k)
           /\ Overlaid' = Overlaid /\ FileRefused' = FileRefused
           /\ ReadKnob' = ReadKnob
           /\ AskedPin' = AskedPin /\ AskedSlots' = AskedSlots /\ SizingAsked' = SizingAsked
<1>1. argv' = argv /\ env' = env /\ files' = files /\ build' = build /\ verb' = verb
  BY DEF started
<1>2. \A k : At(k)' = At(k)
  BY <1>1 DEF At
<1>3. \A k : Given(k)' = Given(k) /\ First(k)' = First(k)
  BY <1>2 DEF Given, First
<1>4. \A i : Following(i)' = Following(i)
  BY <1>1 DEF Following, TextOf
<1>5. \A k : ValuedFlag(k)' = ValuedFlag(k) /\ ToggleFlag(k)' = ToggleFlag(k)
  BY <1>1, <1>3, <1>4 DEF ValuedFlag, ToggleFlag
<1>6. \A k : FlagText(k)' = FlagText(k)
  BY <1>5 DEF FlagText
<1>7. ProfileAsked' = ProfileAsked /\ Path' = Path
  BY <1>1, <1>3, <1>5 DEF ProfileAsked, Path
<1>8. Found' = Found /\ Profiles' = Profiles /\ Legible' = Legible
  BY <1>1, <1>7 DEF Found, Profiles, Legible
<1>9. \A p : SettingsOf(p)' = SettingsOf(p)
  BY <1>8 DEF SettingsOf
<1>10. \A k : Asked(k)' = Asked(k)
  BY <1>1, <1>3, <1>6, <1>7, <1>9 DEF Asked
<1>11. \A k : Unreadable(k)' = Unreadable(k)
  BY <1>10 DEF Unreadable
<1>12. Overlaid' = Overlaid
  BY <1>7, <1>9 DEF Overlaid
<1>13. FileRefused' = FileRefused
  BY <1>3, <1>7, <1>8 DEF FileRefused
<1>14. ReadKnob' = ReadKnob
  BY <1>1 DEF ReadKnob
<1>15. AskedPin' = AskedPin /\ AskedSlots' = AskedSlots /\ SizingAsked' = SizingAsked
  BY <1>10 DEF AskedPin, AskedSlots, SizingAsked
<1>16. QED
  BY <1>3, <1>6, <1>10, <1>11, <1>12, <1>13, <1>14, <1>15

\* A number that was read is one of the three texts, in range.
LEMMA NumbersRead ==
    ASSUME \A k \in Pins \cup {"max-pods", "headroom"} :
              ~Unreadable(k) /\ ~OutOfRange(k, Asked(k))
    PROVE  /\ \A k \in Pins \cup {"max-pods"} : Asked(k) \in {"default", "0", "1", "2"}
           /\ Asked("headroom") \in {"default", "0", "1"}
<1>1. \A k \in Pins \cup {"max-pods"} : Asked(k) \in {"default", "0", "1", "2"}
  <2>1. ASSUME NEW k \in Pins \cup {"max-pods"}, Asked(k) # "default"
        PROVE  Asked(k) \in {"0", "1", "2"}
    <3>1. ReadsAs(k, Asked(k))
      BY <2>1 DEF Unreadable
    <3>2. /\ k \notin Strings /\ k \notin Toggles /\ k \notin Durations
          /\ k \in Pins \cup {"max-pods"}
      BY DEF Pins, Strings, Toggles, Durations
    <3> QED
      BY <3>1, <3>2 DEF ReadsAs, Pins, Strings, Toggles, Durations
  <2> QED
    BY <2>1
<1>2. Asked("headroom") \in {"default", "0", "1"}
  <2>1. SUFFICES ASSUME Asked("headroom") # "default" PROVE Asked("headroom") \in {"0", "1"}
    OBVIOUS
  <2>2. ReadsAs("headroom", Asked("headroom")) /\ Asked("headroom") # "2"
    BY <2>1 DEF Unreadable, OutOfRange
  <2>3. Asked("headroom") \in {"0", "1", "2"}
    BY <2>2 DEF ReadsAs, Pins, Strings, Toggles, Durations
  <2> QED
    BY <2>2, <2>3
<1>3. QED
  BY <1>1, <1>2

\* The numbers the texts stand for.
LEMMA NumberFacts ==
    /\ Number["0"] = 0 /\ Number["1"] = 1 /\ Number["2"] = 2
    /\ \A t \in {"0", "1", "2"} : Number[t] \in Nat /\ (Number[t] = 0 => t = "0")
BY DEF Number

\* The headrooms the texts stand for.
LEMMA PercentFacts ==
    ASSUME NEW t \in {"default", "0", "1"}
    PROVE  Percent(t) \in {0, 20, 100}
BY NumberFacts DEF Percent

\* The demand is over the fraction of the limit that headroom leaves.
AboveFraction(c, limit, percent) == 100 * c > (100 - percent) * limit

\* What headroom leaves: at least a unit, no more than the limit otherwise, and a demand
\* above it is above the fraction.
LEMMA KeptFacts ==
    ASSUME NEW limit \in Nat, NEW percent \in {0, 20, 100}
    PROVE  /\ Kept(limit, percent) \in Nat \ {0}
           /\ Kept(limit, percent) <= limit \/ Kept(limit, percent) = 1
           /\ \A c \in Nat : c > Kept(limit, percent) => AboveFraction(c, limit, percent)
<1>1. CASE percent = 0
  <2>1. (limit * (100 - percent)) \div 100 = limit
    BY <1>1
  <2> QED
    BY <1>1, <2>1 DEF Kept, AboveFraction
<1>2. CASE percent = 100
  <2>1. (limit * (100 - percent)) \div 100 = 0
    BY <1>2
  <2> QED
    BY <1>2, <2>1 DEF Kept, AboveFraction
<1>3. CASE percent = 20
  <2> DEFINE left == (limit * 80) \div 100
  <2>1. left \in Nat /\ left <= limit /\ 100 * left + 100 > 80 * limit
    OBVIOUS
  <2>2. Kept(limit, percent) = IF left = 0 THEN 1 ELSE left
    BY <1>3 DEF Kept
  <2> HIDE DEF left
  <2>3. Kept(limit, percent) \in Nat \ {0}
    BY <2>1, <2>2
  <2>4. Kept(limit, percent) <= limit \/ Kept(limit, percent) = 1
    BY <2>1, <2>2
  <2>5. ASSUME NEW c \in Nat, c > Kept(limit, percent)
        PROVE  AboveFraction(c, limit, percent)
    <3>1. c >= left + 1
      BY <2>1, <2>2, <2>5
    <3>2. 100 * c >= 100 * left + 100
      BY <2>1, <3>1
    <3> QED
      BY <1>3, <2>1, <3>2 DEF AboveFraction
  <2> QED
    BY <2>3, <2>4, <2>5
<1>4. QED
  BY <1>1, <1>2, <1>3

\* The limits of a machine are numbers, and what a pool can offer is its limit.
LEMMA LimitsAreNumbers ==
    ASSUME NEW m \in Machine, NEW p
    PROVE  /\ Limit(m, p) \in Nat
           /\ Limit(m, p) =
                LET v2 == IF p = "memory" THEN m.v2.memory ELSE Threads(m.v2)
                    v1 == IF p = "memory" THEN FirstMemory(m.v1) ELSE Threads(m.v1)
                IN  CASE v2 # Absent -> v2
                      [] v2 = Absent /\ v1 # Absent -> v1
                      [] v2 = Absent /\ v1 = Absent ->
                           IF p = "memory" THEN HostMemory(m) ELSE m.cores
<1>1. /\ m.v2 \in Group /\ m.v1 \in Group /\ m.cores \in Nat /\ m.ram \in Amount
  BY MachineAssumption
<1>2. ASSUME NEW g \in Group
      PROVE  g.memory \in Amount /\ FirstMemory(g) \in Amount /\ Threads(g) \in Amount
  <2>1. g.memory \in Amount /\ g.quota \in Amount /\ g.period \in Amount
    BY DEF Group
  <2>2. CASE g.quota \in Nat /\ g.period \in Nat /\ g.period # 0
    <3>1. g.quota \div g.period \in Nat
      BY <2>2
    <3> QED
      BY <2>1, <3>1 DEF Threads, FirstMemory, Amount
  <2>3. CASE ~(g.quota \in Nat /\ g.period \in Nat /\ g.period # 0)
    BY <2>1, <2>3 DEF Threads, FirstMemory, Amount
  <2> QED
    BY <2>2, <2>3
<1>3. HostMemory(m) \in Nat
  BY <1>1, AmountAssumption DEF HostMemory, Amount
<1> DEFINE v2 == IF p = "memory" THEN m.v2.memory ELSE Threads(m.v2)
           v1 == IF p = "memory" THEN FirstMemory(m.v1) ELSE Threads(m.v1)
           host == IF p = "memory" THEN HostMemory(m) ELSE m.cores
<1>4. v2 \in Amount /\ v1 \in Amount /\ host \in Nat
  BY <1>1, <1>2, <1>3
<1>5. Limit(m, p) = IF v2 # Absent THEN v2 ELSE IF v1 # Absent THEN v1 ELSE host
  BY DEF Limit, InForce
<1>6. Limit(m, p) = CASE v2 # Absent -> v2
                      [] v2 = Absent /\ v1 # Absent -> v1
                      [] v2 = Absent /\ v1 = Absent -> host
  <2> HIDE DEF v2, v1, host
  <2>1. CASE v2 # Absent
    BY <1>5, <2>1
  <2>2. CASE v2 = Absent /\ v1 # Absent
    BY <1>5, <2>2
  <2>3. CASE v2 = Absent /\ v1 = Absent
    BY <1>5, <2>3
  <2> QED
    BY <2>1, <2>2, <2>3
<1>7. Limit(m, p) \in Nat
  <2> HIDE DEF v2, v1, host
  <2> QED
    BY <1>4, <1>5 DEF Amount
<1>8. QED
  BY <1>6, <1>7

\* A machine is no empty tuple.
LEMMA MachineIsRead ==
    ASSUME NEW m \in Machine
    PROVE  m # << >>
<1>1. m \in [v2 : Group, v1 : Group, cores : Nat, ram : Amount]
  BY MachineAssumption
<1>2. DOMAIN m = {"v2", "v1", "cores", "ram"}
  BY <1>1
<1>3. DOMAIN << >> = {}
  OBVIOUS
<1>4. QED
  BY <1>2, <1>3

\* The pools' totals: numbers, empty only where pinned so, and over what the settings or
\* the machine offer by no more than the unit every pool has; a demand above one has
\* sizing to thank for it.
LEMMA TotalsFacts ==
    ASSUME Sized, pc \in SizedAt,
           \A k \in SizingKnob \cup {"max-pods"} : ~Unreadable(k) /\ ~OutOfRange(k, Asked(k)),
           NEW p \in DOMAIN PinOf
    PROVE  /\ totals[p] \in Nat /\ totals["remote"] \in Nat /\ Offer(p) \in Nat
           /\ totals[p] = 0 => Asked(PinOf[p]) = "0"
           /\ totals[p] <= Offer(p) \/ (Asked(PinOf[p]) = "default" /\ totals[p] = 1)
           /\ \A c \in 0..Plenty : c > totals[p] =>
                 SizingAsked /\ AboveFraction(c, Offer(p), Percent(Asked("headroom")))
<1> DEFINE t == Asked(PinOf[p])
           percent == Percent(Asked("headroom"))
<1>1. /\ \A k \in Pins \cup {"max-pods"} : Asked(k) \in {"default", "0", "1", "2"}
      /\ Asked("headroom") \in {"default", "0", "1"}
  BY NumbersRead DEF SizingKnob
<1>2. p \in Pool /\ p # "remote" /\ PinOf[p] \in Pins /\ DOMAIN PinOf = Pool \ {"remote"}
      /\ "remote" \in Pool
  BY DEF PinOf, Pool, Pins
<1>3. percent \in {0, 20, 100}
  BY <1>1, PercentFacts
<1>4. t \in {"default", "0", "1", "2"}
  BY <1>1, <1>2
<1>5. AskedSlots \in Nat
  <2>1. Asked("max-pods") \in {"default", "0", "1", "2"}
    BY <1>1
  <2> QED
    BY <2>1, NumberFacts, AmountAssumption DEF AskedSlots
<1>6. AskedPin[p] = IF t = "default" THEN Absent ELSE Number[t]
  BY <1>2 DEF AskedPin
<1>7. CASE ~SizingAsked /\ machine = << >> /\ totals = Unconstrained(AskedSlots)
  <2>1. totals[p] = Plenty /\ totals["remote"] = AskedSlots
    BY <1>2, <1>7 DEF Unconstrained
  <2>2. t = "default"
    BY <1>2, <1>7 DEF SizingAsked, SizingKnob
  <2>3. Offer(p) = Plenty
    BY <1>7, <2>2 DEF Offer
  <2>4. \A c \in 0..Plenty : ~(c > totals[p])
    BY <2>1, AmountAssumption
  <2> QED
    BY <1>5, <2>1, <2>3, <2>4, AmountAssumption
<1>8. CASE /\ SizingAsked
           /\ machine \in Machine
           /\ totals = Detected(machine, AskedPin, percent, AskedSlots)
  <2>1. /\ totals["remote"] = AskedSlots
        /\ totals[p] = IF AskedPin[p] # Absent THEN AskedPin[p]
                       ELSE Kept(Limit(machine, p), percent)
    BY <1>2, <1>8 DEF Detected
  <2>2. CASE t = "default"
    <3> DEFINE limit == Limit(machine, p)
    <3>1. totals[p] = Kept(limit, percent)
      BY <1>6, <2>1, <2>2
    <3>2. limit \in Nat
      BY <1>8, LimitsAreNumbers
    <3>3. Offer(p) = limit
      <4>1. machine # << >>
        BY <1>8, MachineIsRead
      <4> QED
        BY <1>8, <2>2, <4>1, LimitsAreNumbers DEF Offer
    <3> HIDE DEF limit, percent
    <3>4. /\ Kept(limit, percent) \in Nat \ {0}
          /\ Kept(limit, percent) <= limit \/ Kept(limit, percent) = 1
          /\ \A c \in Nat : c > Kept(limit, percent) => AboveFraction(c, limit, percent)
      BY <1>3, <3>2, KeptFacts
    <3>5. \A c \in 0..Plenty : c \in Nat
      BY AmountAssumption
    <3>6. totals["remote"] \in Nat
      BY <1>5, <2>1
    <3>7. \A c \in 0..Plenty : c > totals[p] =>
             SizingAsked /\ AboveFraction(c, Offer(p), percent)
      BY <1>8, <3>1, <3>3, <3>4, <3>5
    <3>8. totals[p] \in Nat /\ totals[p] # 0 /\ Offer(p) \in Nat
          /\ (totals[p] <= Offer(p) \/ totals[p] = 1)
      BY <3>1, <3>2, <3>3, <3>4
    <3> QED
      BY <2>2, <3>6, <3>7, <3>8 DEF percent
  <2>3. CASE t # "default"
    <3>1. t \in {"0", "1", "2"} /\ Number[t] \in Nat /\ Number[t] # Absent
      BY <1>4, <2>3, NumberFacts, AmountAssumption
    <3>2. totals[p] = Number[t] /\ Offer(p) = Number[t]
      BY <1>6, <2>1, <2>3, <3>1 DEF Offer
    <3>3. totals[p] = 0 => t = "0"
      BY <3>1, <3>2, NumberFacts
    <3>4. ASSUME NEW c \in 0..Plenty, c > totals[p]
          PROVE  AboveFraction(c, Offer(p), percent)
      <4>1. c \in Nat /\ Offer(p) \in Nat /\ c > Offer(p)
        BY <3>1, <3>2, <3>4, AmountAssumption
      <4>2. CASE percent = 0
        BY <4>1, <4>2 DEF AboveFraction
      <4>3. CASE percent = 20
        BY <4>1, <4>3 DEF AboveFraction
      <4>4. CASE percent = 100
        BY <4>1, <4>4 DEF AboveFraction
      <4> QED
        BY <1>3, <4>2, <4>3, <4>4
    <3> QED
      BY <1>5, <1>8, <2>1, <3>1, <3>2, <3>3, <3>4
  <2> QED
    BY <2>2, <2>3
<1>9. QED
  BY <1>7, <1>8 DEF Sized

-----------------------------------------------------------------------------
(* The command line: the steps.                                             *)

UsageCaused ==
    /\ FileRefused \/ \E k \in ReadKnob : Unreadable(k)
    /\ created => \A k \in ReadKnob : Unreadable(k) => k = "metastore"

BootCaused ==
    \/ ~created /\ \E k \in ReadKnob : OutOfRange(k, Asked(k))
    \/ ~created /\ Asked("executor") = "k8s" /\ "k8s" \notin build
    \/ created /\ Asked("executor") = "k8s" /\ PlacedNodes(pipeline) # {}
    \/ /\ created
       /\ SizingAsked
       /\ \E n \in DOMAIN pipeline, p \in DOMAIN PinOf :
             AboveFraction(pipeline[n].cost[p], Offer(p), Percent(Asked("headroom")))

ExitTells(code) ==
    /\ code = "success" => result = [outcome |-> "succeeded", origin |-> "none"]
    /\ code = "run failure" => result.outcome = "failed"
    /\ code = "cancelled" => result.outcome # "failed"

\* The three parts of the last clause of the property, by their names.
LEMMA CausesNamed ==
    /\ UsageHasCause <=> (flow # "none" /\ verb = "run" /\ exit = "invalid usage"
                            => UsageCaused)
    /\ BootstrapHasCause <=> (verb = "run" /\ exit = "bootstrap failure" => BootCaused)
    /\ ExitSaysWhy <=> (result # << >> => ExitTells(exit))
<1>1. UsageHasCause <=> (flow # "none" /\ verb = "run" /\ exit = "invalid usage"
                            => UsageCaused)
  BY DEF UsageHasCause, UsageCaused
<1>2. BootstrapHasCause <=> (verb = "run" /\ exit = "bootstrap failure" => BootCaused)
  BY DEF BootstrapHasCause, BootCaused, SizingAsked, AboveFraction
<1>3. ExitSaysWhy <=> (result # << >> => ExitTells(exit))
  BY DEF ExitSaysWhy, ExitTells
<1>4. QED
  BY <1>1, <1>2, <1>3

\* While the process has not ended, nothing needs a cause.
LEMMA NotEnded ==
    ASSUME exit = "none"
    PROVE  UsageHasCause /\ BootstrapHasCause /\ ExitSaysWhy
BY DEF UsageHasCause, BootstrapHasCause, ExitSaysWhy

\* An end keeps the invariant where its code is called for.
LEMMA EndKeeps ==
    ASSUME CommandInv, NEW code, End(code),
           flow # "none" /\ verb = "run" /\ code = "invalid usage" => UsageCaused,
           verb = "run" /\ code = "bootstrap failure" => BootCaused,
           result # << >> => ExitTells(code)
    PROVE  CommandInv'
<1>1. /\ exit' = code /\ pc' = "ended"
      /\ UNCHANGED started
      /\ argv' = argv /\ verb' = verb /\ env' = env /\ files' = files /\ build' = build
      /\ flow' = flow /\ tier' = tier /\ config' = config /\ machine' = machine
      /\ totals' = totals /\ created' = created /\ pipeline' = pipeline /\ result' = result
  BY DEF End, started, settled
<1>2. CommandType'
  BY <1>1 DEF CommandInv, CommandType
<1>3. pc' \notin Settling /\ pc' \notin SizedAt /\ pc' \notin Opened /\ pc' \notin Routed
  BY <1>1 DEF Settling, SizedAt, Opened, Routed
<1>4. Route'
  BY <1>1, <1>3 DEF Route
<1>5. Settled' /\ Sized' /\ Held'
  BY <1>1, <1>3 DEF Settled, Sized, Held
<1>6. /\ \A k : Asked(k)' = Asked(k)
      /\ \A k : Unreadable(k)' = Unreadable(k)
      /\ FileRefused' = FileRefused /\ ReadKnob' = ReadKnob /\ SizingAsked' = SizingAsked
  BY <1>1, AskedStays
<1>7. \A p : Offer(p)' = Offer(p)
  BY <1>1, <1>6 DEF Offer
<1>8. UsageCaused' = UsageCaused
  BY <1>1, <1>6 DEF UsageCaused
<1>9. BootCaused' = BootCaused
  BY <1>1, <1>6, <1>7 DEF BootCaused
<1>10. ExitTells(code)' = ExitTells(code)
  BY <1>1 DEF ExitTells
<1>11. UsageHasCause'
  BY <1>1, <1>8 DEF UsageHasCause, UsageCaused
<1>12. BootstrapHasCause'
  <2>1. verb' = "run" /\ exit' = "bootstrap failure" => BootCaused'
    BY <1>1, <1>9
  <2> QED
    BY <2>1 DEF BootstrapHasCause, BootCaused, SizingAsked, AboveFraction
<1>13. ExitSaysWhy'
  BY <1>1, <1>10 DEF ExitSaysWhy, ExitTells
<1>14. QED
  BY <1>2, <1>4, <1>5, <1>11, <1>12, <1>13 DEF CommandInv

\* Where each step stands.
LEMMA RankValues ==
    /\ Rank("force-roundtrip") = 1 /\ Rank("executor") = 2
    /\ Rank("max-pods") = 3 /\ Rank("available") = 4
    /\ Rank("flags") = 5 /\ Rank("store") = 6
    /\ Rank("compute-threads") = 7 /\ Rank("blocking-threads") = 8
    /\ Rank("memory") = 9 /\ Rank("headroom") = 10
    /\ Rank("capacity") = 11 /\ Rank("grace") = 12
    /\ Rank("teardown-deadline") = 13 /\ Rank("failure-mode") = 14
    /\ Rank("log-format") = 15 /\ Rank("sink") = 16
    /\ Rank("metastore") = 17 /\ Rank("index") = 18
    /\ Rank("assemble") = 19 /\ Rank("start") = 20
    /\ Rank("loop") = 21 /\ Rank("flush") = 22
BY DEF Rank

\* The keys of the configuration file, one by one.
LEMMA KnobNames ==
    FileKey = {"store", "force-roundtrip", "metastore", "grace", "teardown-deadline",
               "compute-threads", "blocking-threads", "memory", "executor", "max-pods",
               "failure-mode", "log-format", "headroom"}
BY DEF FileKey, Knob, Strings, Toggles, Durations, Pins

\* No knob is resolved twice, and the metastore's toggle last.
LEMMA KnobRanks ==
    /\ \A k \in FileKey : /\ k \in Settling
                          /\ k # "metastore" => Rank(k) < Rank("metastore") /\ k \notin Opened
                          /\ k # "flush"
    /\ "metastore" \in FileKey
<1>1. FileKey = {"store", "force-roundtrip", "metastore", "grace", "teardown-deadline",
                 "compute-threads", "blocking-threads", "memory", "executor", "max-pods",
                 "failure-mode", "log-format", "headroom"}
  BY KnobNames
<1>2. \A k \in FileKey : k \in Settling /\ k # "flush" /\ (k # "metastore" => k \notin Opened)
  BY <1>1 DEF Settling, SizedAt, Opened
<1>3. \A k \in FileKey : k # "metastore" => Rank(k) < Rank("metastore")
  BY <1>1, RankValues
<1>4. QED
  BY <1>1, <1>2, <1>3

\* A step from one place of the run to a later one that passes no knob's step by.
LEMMA AdvanceKeeps ==
    ASSUME CommandInv, UNCHANGED started, UNCHANGED <<tier, config, exit>>,
           pc \in Settling, pc' \in Settling,
           \A k \in ReadKnob : Rank(k) < Rank(pc') => Rank(k) < Rank(pc)
    PROVE  /\ Settled'
           /\ argv' = argv /\ verb' = verb /\ env' = env /\ files' = files /\ build' = build
           /\ verb = "run" /\ exit = "none"
           /\ created' \in BOOLEAN => CommandType'
           /\ UsageHasCause' /\ BootstrapHasCause' /\ ExitSaysWhy'
<1>1. argv' = argv /\ env' = env /\ files' = files /\ build' = build /\ verb' = verb
  BY DEF started
<1>2. verb = "run" /\ exit = "none"
  BY DEF CommandInv, Route, Settling, SizedAt, Opened
<1>3. exit' = "none"
  BY <1>2
<1>4. UsageHasCause' /\ BootstrapHasCause' /\ ExitSaysWhy'
  BY <1>3 DEF UsageHasCause, BootstrapHasCause, ExitSaysWhy
<1>5. /\ \A k : Asked(k)' = Asked(k)
      /\ \A k : Unreadable(k)' = Unreadable(k)
      /\ ReadKnob' = ReadKnob /\ Overlaid' = Overlaid
  BY AskedStays
<1>6. Settled'
  <2>1. \A k \in ReadKnob : Honoured(k) => Honoured(k)'
    BY <1>5 DEF Honoured
  <2> QED
    BY <1>5, <2>1 DEF CommandInv, Settled
<1>7. created' \in BOOLEAN => CommandType'
  BY <1>1 DEF CommandInv, CommandType
<1>8. QED
  BY <1>1, <1>2, <1>4, <1>6, <1>7

\* A knob's step: it ends the process for a bad setting, or sets the knob as asked.
LEMMA ResolveKeeps ==
    ASSUME CommandInv, NEW k \in FileKey, NEW next \in Settling, Resolve(k, next),
           k \in Opened <=> next \in Opened,
           k \in SizedAt <=> next \in SizedAt,
           next \notin {"start", "loop", "flush"},
           k = "metastore" \/ next \notin {"metastore", "index"},
           \A j \in FileKey : Rank(j) < Rank(next) => j = k \/ Rank(j) < Rank(k)
    PROVE  CommandInv'
<1>1. pc = k /\ k \in Settling /\ k \in Knob /\ k # "flush"
  BY KnobRanks DEF Resolve, FileKey
<1>2. /\ verb = "run" /\ tier = Overlaid /\ exit = "none" /\ result = << >>
      /\ pc # "ended" /\ (created <=> k \in Opened)
  BY <1>1 DEF CommandInv, Route, Settled, Settling, SizedAt, Opened
<1>3. Setting(k) = Asked(k)
  BY <1>1, <1>2, SettingIsAsked DEF CommandInv
<1>4. k \in ReadKnob
  BY <1>1, KnobRanks DEF CommandInv, Route, ReadKnob
<1>5. CASE Setting(k) # "default" /\ ~ReadsAs(k, Setting(k))
  <2>1. End("invalid usage")
    BY <1>5 DEF Resolve
  <2>2. Unreadable(k)
    BY <1>3, <1>5 DEF Unreadable
  <2>3. ASSUME created, NEW j \in ReadKnob, Unreadable(j) PROVE j = "metastore"
    <3>1. k = "metastore"
      BY <1>2, <2>3, KnobRanks
    <3>2. j \in FileKey
      BY DEF ReadKnob
    <3>3. j # "metastore" => Honoured(j)
      BY <1>1, <3>1, <3>2, <2>3, KnobRanks DEF CommandInv, Settled
    <3> QED
      BY <2>3, <3>3 DEF Honoured
  <2>4. UsageCaused
    BY <1>4, <2>2, <2>3 DEF UsageCaused
  <2> QED
    BY <1>2, <2>1, <2>4, EndKeeps
<1>6. CASE ~(Setting(k) # "default" /\ ~ReadsAs(k, Setting(k))) /\ OutOfRange(k, Setting(k))
  <2>1. End("bootstrap failure")
    BY <1>6 DEF Resolve
  <2>2. k # "metastore"
    BY <1>6 DEF OutOfRange, Durations
  <2>3. ~created
    BY <1>2, <2>2, KnobRanks
  <2>4. BootCaused
    BY <1>3, <1>4, <1>6, <2>3 DEF BootCaused
  <2> QED
    BY <1>2, <2>1, <2>4, EndKeeps
<1>7. CASE ~(Setting(k) # "default" /\ ~ReadsAs(k, Setting(k))) /\ ~OutOfRange(k, Setting(k))
  <2>1. /\ config' = [config EXCEPT ![k] = Setting(k)]
        /\ pc' = next
        /\ UNCHANGED started
        /\ UNCHANGED <<flow, tier, machine, totals, created, pipeline, result, exit>>
    BY <1>7 DEF Resolve
  <2>2. argv' = argv /\ env' = env /\ files' = files /\ build' = build /\ verb' = verb
    BY <2>1 DEF started
  <2>3. /\ \A j : Asked(j)' = Asked(j)
        /\ \A j : Unreadable(j)' = Unreadable(j)
        /\ ReadKnob' = ReadKnob /\ Overlaid' = Overlaid
        /\ AskedPin' = AskedPin /\ AskedSlots' = AskedSlots /\ SizingAsked' = SizingAsked
    BY <2>1, AskedStays
  <2>4. DOMAIN config = FileKey
    BY DEF CommandInv, CommandType
  <2>5. /\ DOMAIN config' = FileKey /\ config'[k] = Asked(k)
        /\ \A j \in FileKey : j # k => config'[j] = config[j]
    BY <1>3, <2>1, <2>4
  <2>6. CommandType'
    BY <2>1, <2>2, <2>5 DEF CommandInv, CommandType
  <2>7. Honoured(k)'
    BY <1>3, <1>7, <2>3, <2>5 DEF Honoured, Unreadable
  <2>8. ASSUME NEW j \in ReadKnob, Rank(j) < Rank(next) PROVE Honoured(j)'
    <3>1. j \in FileKey
      BY DEF ReadKnob
    <3>2. CASE j # k
      <4>1. Honoured(j)
        BY <1>1, <2>8, <3>1, <3>2 DEF CommandInv, Settled
      <4> QED
        BY <2>3, <2>5, <3>1, <3>2, <4>1 DEF Honoured
    <3> QED
      BY <2>7, <3>2
  <2>9. Settled'
    BY <1>2, <2>1, <2>3, <2>8 DEF Settled
  <2>10. Route'
    <3>1. pc' \notin {"typing", "select", "ended", "flush"} \cup Routed
      BY <2>1 DEF Settling, SizedAt, Opened, Routed
    <3>2. pc' \in {"metastore", "index"} => "metastore" \in build'
      BY <1>1, <2>1, <2>2 DEF CommandInv, Route
    <3>3. pc' \notin SizedAt => machine' = << >>
      BY <1>1, <1>2, <2>1 DEF CommandInv, Route
    <3> QED
      BY <1>2, <2>1, <2>2, <3>1, <3>2, <3>3 DEF Route
  <2>11. Sized'
    BY <1>1, <2>1, <2>3 DEF CommandInv, Sized
  <2>12. Held'
    BY <2>1 DEF Held
  <2>13. UsageHasCause' /\ BootstrapHasCause' /\ ExitSaysWhy'
    BY <1>2, <2>1 DEF UsageHasCause, BootstrapHasCause, ExitSaysWhy
  <2> QED
    BY <2>6, <2>9, <2>10, <2>11, <2>12, <2>13 DEF CommandInv
<1>8. QED
  BY <1>5, <1>6, <1>7

\* What the settings' steps have established once all of them are past.
LEMMA AllHonoured ==
    ASSUME CommandInv, pc \in {"start", "loop", "flush"}
    PROVE  /\ \A k \in ReadKnob : Honoured(k)
           /\ \A k \in SizingKnob \cup {"max-pods", "executor"} :
                 Honoured(k) /\ ~Unreadable(k) /\ ~OutOfRange(k, Asked(k))
           /\ Remote <=> Asked("executor") = "k8s"
           /\ pc \in SizedAt /\ verb = "run" /\ created /\ exit = "none"
<1>1. pc \in Settling /\ pc \in SizedAt /\ pc \in Opened /\ pc # "ended"
  BY DEF Settling, SizedAt, Opened
<1>2. \A k \in FileKey : Rank(k) < Rank(pc)
  <2>1. Rank("metastore") < Rank(pc) /\ Rank("metastore") \in Nat /\ Rank(pc) \in Nat
    BY RankValues
  <2>2. \A k \in FileKey : Rank(k) \in Nat
    BY KnobNames, RankValues
  <2> QED
    BY <2>1, <2>2, KnobRanks
<1>3. \A k \in ReadKnob : k \in FileKey
  BY DEF ReadKnob
<1>4. \A k \in ReadKnob : Honoured(k)
  BY <1>1, <1>2, <1>3 DEF CommandInv, Settled
<1>5. SizingKnob \cup {"max-pods", "executor"} \subseteq ReadKnob
  BY DEF SizingKnob, ReadKnob, FileKey, Knob, Strings, Toggles, Durations, Pins
<1>6. \A k \in SizingKnob \cup {"max-pods", "executor"} :
         Honoured(k) /\ ~Unreadable(k) /\ ~OutOfRange(k, Asked(k))
  BY <1>4, <1>5 DEF Honoured
<1>7. Remote <=> Asked("executor") = "k8s"
  BY <1>6 DEF Honoured, Remote
<1>8. verb = "run" /\ created /\ exit = "none"
  BY <1>1 DEF CommandInv, Route
<1>9. QED
  BY <1>1, <1>4, <1>6, <1>7, <1>8

\* The costs of an assembled pipeline.
LEMMA CostsBounded ==
    ASSUME NEW nodesOf \in Pipeline, NEW n \in DOMAIN nodesOf
    PROVE  /\ \A p \in DOMAIN PinOf : nodesOf[n].cost[p] \in 0..Plenty
           /\ nodesOf[n].placed \in BOOLEAN
<1>1. nodesOf[n] \in [cost : [Pool \ {"remote"} -> 0..Plenty], placed : BOOLEAN]
  BY PipelineAssumption
<1>2. DOMAIN PinOf = Pool \ {"remote"}
  BY DEF PinOf
<1>3. QED
  BY <1>1, <1>2

\* A run that is refused at its start has its cause.
LEMMA UnholdableCaused ==
    ASSUME CommandInv, pc \in {"start", "loop", "flush"}, Unholdable
    PROVE  BootCaused
<1>1. /\ \A k \in SizingKnob \cup {"max-pods"} : ~Unreadable(k) /\ ~OutOfRange(k, Asked(k))
      /\ Remote <=> Asked("executor") = "k8s"
      /\ pc \in SizedAt /\ created
  BY AllHonoured
<1>2. pipeline \in Pipeline
  BY DEF CommandInv, Held
<1>3. CASE Remote /\ PlacedNodes(pipeline) # {}
  BY <1>1, <1>3 DEF BootCaused
<1>4. CASE ~(Remote /\ PlacedNodes(pipeline) # {}) /\ TooBig(pipeline, Remote, totals) # {}
  <2>1. PICK n \in DOMAIN pipeline, p \in Pool :
           DemandOn(pipeline[n], Remote, p) > totals[p]
    BY <1>4 DEF TooBig
  <2>2. ~(pipeline[n].placed /\ Remote)
    BY <1>4 DEF PlacedNodes
  <2>3. DemandOn(pipeline[n], Remote, p) = IF p = "remote" THEN 0 ELSE pipeline[n].cost[p]
    BY <2>2 DEF DemandOn
  <2>4. "memory" \in DOMAIN PinOf /\ DOMAIN PinOf = Pool \ {"remote"}
    BY DEF PinOf, Pool
  <2>5. totals["remote"] \in Nat
    BY <1>1, <2>4, TotalsFacts DEF CommandInv
  <2>6. p # "remote"
    BY <2>1, <2>3, <2>5
  <2>7. p \in DOMAIN PinOf /\ pipeline[n].cost[p] > totals[p]
    BY <2>1, <2>3, <2>4, <2>6
  <2>8. pipeline[n].cost[p] \in 0..Plenty
    BY <1>2, <2>7, CostsBounded
  <2>9. /\ SizingAsked
        /\ AboveFraction(pipeline[n].cost[p], Offer(p), Percent(Asked("headroom")))
    BY <1>1, <2>7, <2>8, TotalsFacts DEF CommandInv
  <2> QED
    BY <1>1, <2>7, <2>9 DEF BootCaused
<1>5. QED
  BY <1>3, <1>4 DEF Unholdable

\* A word is typed.
LEMMA TypeKeeps ==
    ASSUME CommandInv, NEW token \in Token, Type(token)
    PROVE  CommandInv'
<1>1. /\ pc = "typing" /\ pc' = "typing" /\ argv' = Append(argv, token)
      /\ UNCHANGED <<verb, env, files, build, flow, tier, config, machine, totals,
                     created, pipeline, result, exit>>
  BY DEF Type, settled
<1>2. CommandType'
  BY <1>1, Extended DEF CommandInv, CommandType
<1>3. pc \notin Settling /\ pc \notin SizedAt /\ pc \notin Opened /\ pc \notin Routed
  BY <1>1 DEF Settling, SizedAt, Opened, Routed
<1>4. Route'
  BY <1>1, <1>3 DEF CommandInv, Route
<1>5. Settled' /\ Sized' /\ Held'
  BY <1>1, <1>3 DEF Settled, Sized, Held
<1>6. exit' = "none"
  BY <1>1 DEF CommandInv, Route
<1>7. UsageHasCause' /\ BootstrapHasCause' /\ ExitSaysWhy'
  BY <1>6 DEF UsageHasCause, BootstrapHasCause, ExitSaysWhy
<1>8. QED
  BY <1>2, <1>4, <1>5, <1>7 DEF CommandInv

\* The verb is parsed.
LEMMA ParseKeeps ==
    ASSUME CommandInv, Parse
    PROVE  CommandInv'
<1>1. pc = "typing" /\ flow = "none" /\ result = << >> /\ exit = "none"
  BY DEF Parse, CommandInv, Route
<1>2. ASSUME NEW code \in {"success", "invalid usage"}, End(code) PROVE CommandInv'
  BY <1>1, <1>2, EndKeeps
<1>3. CASE /\ ~(verb = "list" \/ (verb = "none" /\ Unbannered = << >>))
           /\ verb \notin {"none", "bogus", "render", "resume", "fold"}
  <2>1. /\ pc' = "select"
        /\ UNCHANGED <<argv, verb, env, files, build, flow, tier, config, machine, totals,
                       created, pipeline, result, exit>>
    BY <1>3 DEF Parse, GoTo, started, settled
  <2>2. verb \in Routed
    BY <1>3, VerbAssumption DEF CommandInv, CommandType, Routed
  <2>3. CommandType'
    BY <2>1 DEF CommandInv, CommandType
  <2>4. /\ pc \notin Opened /\ pc' \notin Settling /\ pc' \notin SizedAt /\ pc' \notin Opened
        /\ pc' \notin Routed /\ pc \notin SizedAt
    BY <1>1, <2>1 DEF Settling, SizedAt, Opened, Routed
  <2>5. Route'
    BY <1>1, <2>1, <2>2, <2>4 DEF CommandInv, Route
  <2>6. Settled' /\ Sized' /\ Held'
    BY <2>1, <2>4 DEF Settled, Sized, Held
  <2>7. UsageHasCause' /\ BootstrapHasCause' /\ ExitSaysWhy'
    BY <1>1, <2>1 DEF UsageHasCause, BootstrapHasCause, ExitSaysWhy
  <2> QED
    BY <2>3, <2>5, <2>6, <2>7 DEF CommandInv
<1>4. QED
  BY <1>2, <1>3 DEF Parse

\* The flow is selected.
LEMMA SelectKeeps ==
    ASSUME CommandInv, Select
    PROVE  CommandInv'
<1>1. pc = "select" /\ flow = "none" /\ result = << >> /\ exit = "none" /\ verb \in Routed
  BY DEF Select, CommandInv, Route
<1>2. CASE Selected = "none"
  BY <1>1, <1>2, EndKeeps DEF Select
<1>3. CASE Selected # "none"
  <2>1. /\ pc' = verb
        /\ UNCHANGED <<argv, verb, env, files, build, tier, config, machine, totals,
                       created, pipeline, result, exit>>
    BY <1>3 DEF Select, started
  <2>2. CommandType'
    BY <1>1, <2>1 DEF CommandInv, CommandType
  <2>3. /\ pc' \notin Settling /\ pc' \notin SizedAt /\ pc' \notin Opened
        /\ pc \notin SizedAt /\ pc \notin Opened
        /\ pc' \notin {"typing", "select", "ended", "flush"}
    BY <1>1, <2>1 DEF Settling, SizedAt, Opened, Routed
  <2>4. Route'
    BY <1>1, <2>1, <2>3 DEF CommandInv, Route, Opened
  <2>5. Settled' /\ Sized' /\ Held'
    BY <2>3 DEF Settled, Sized, Held, Opened
  <2>6. UsageHasCause' /\ BootstrapHasCause' /\ ExitSaysWhy'
    BY <1>1, <2>1 DEF UsageHasCause, BootstrapHasCause, ExitSaysWhy
  <2> QED
    BY <2>2, <2>4, <2>5, <2>6 DEF CommandInv
<1>4. QED
  BY <1>2, <1>3

\* The verbs that only answer.
LEMMA AnswerKeeps ==
    ASSUME CommandInv, Unwired \/ Inspect \/ ExecNode
    PROVE  CommandInv'
<1>1. pc \in Routed \ {"run"}
  BY DEF Unwired, Inspect, ExecNode, Routed
<1>2. verb # "run" /\ result = << >>
  BY <1>1 DEF CommandInv, Route, Routed
<1>3. \E code : End(code)
  BY DEF Unwired, Inspect, ExecNode
<1>4. QED
  BY <1>2, <1>3, EndKeeps

\* The configuration file is read and laid over the defaults.
LEMMA LoadFileKeeps ==
    ASSUME CommandInv, LoadFile
    PROVE  CommandInv'
<1>1. /\ pc = "run" /\ verb = "run" /\ result = << >> /\ exit = "none" /\ ~created
      /\ machine = << >>
  BY DEF LoadFile, CommandInv, Route, Routed, Opened, SizedAt
<1>2. CASE FileRefused
  <2>1. UsageCaused
    BY <1>1, <1>2 DEF UsageCaused
  <2> QED
    BY <1>1, <1>2, <2>1, EndKeeps DEF LoadFile
<1>3. CASE ~FileRefused
  <2>1. /\ tier' = Overlaid /\ pc' = "force-roundtrip" /\ UNCHANGED started
        /\ UNCHANGED <<flow, config, machine, totals, created, pipeline, result, exit>>
    BY <1>3 DEF LoadFile
  <2>2. argv' = argv /\ env' = env /\ files' = files /\ build' = build /\ verb' = verb
    BY <2>1 DEF started
  <2>3. pc' \in Settling /\ pc' \notin SizedAt \cup Opened \cup Routed
    BY <2>1 DEF Settling, SizedAt, Opened, Routed
  <2>4. CommandType'
    BY <2>1, <2>2, <2>3 DEF CommandInv, CommandType
  <2>5. Route'
    BY <1>1, <2>1, <2>2, <2>3 DEF Route
  <2>6. \A k \in FileKey : ~(Rank(k) < Rank(pc'))
    <3>1. Rank(pc') = 1
      BY <2>1, RankValues
    <3>2. \A k \in FileKey : Rank(k) \in Nat /\ Rank(k) >= 1
      BY KnobNames, RankValues
    <3> QED
      BY <3>1, <3>2
  <2>7. Overlaid' = Overlaid /\ ReadKnob' = ReadKnob
    BY <2>1, AskedStays
  <2>8. Settled'
    BY <2>1, <2>6, <2>7 DEF Settled, ReadKnob
  <2>9. Sized' /\ Held'
    BY <2>1, <2>3 DEF Sized, Held
  <2>10. UsageHasCause' /\ BootstrapHasCause' /\ ExitSaysWhy'
    BY <1>1, <2>1 DEF UsageHasCause, BootstrapHasCause, ExitSaysWhy
  <2> QED
    BY <2>4, <2>5, <2>8, <2>9, <2>10 DEF CommandInv
<1>4. QED
  BY <1>2, <1>3

\* A step onwards that changes nothing else, between two places before the pools are
\* sized or two after the stream is open.
LEMMA PlainKeeps ==
    ASSUME CommandInv, UNCHANGED started,
           UNCHANGED <<flow, tier, config, machine, totals, created, result, exit>>,
           pc \in Settling, pc' \in Settling, result = << >>,
           pc \in Opened <=> pc' \in Opened, pc \in SizedAt <=> pc' \in SizedAt,
           pc' \notin {"metastore", "index", "flush"},
           pc' \in {"start", "loop"} => pipeline' \in Pipeline,
           pc' = "loop" => ~Unholdable /\ pipeline' = pipeline,
           \A k \in ReadKnob : Rank(k) < Rank(pc') => Rank(k) < Rank(pc)
    PROVE  CommandInv'
<1>1. /\ Settled' /\ UsageHasCause' /\ BootstrapHasCause' /\ ExitSaysWhy'
      /\ created' \in BOOLEAN => CommandType'
      /\ verb' = verb /\ verb = "run" /\ exit = "none" /\ build' = build
  BY AdvanceKeeps
<1>2. CommandType'
  BY <1>1 DEF CommandInv, CommandType
<1>3. pc' \notin {"typing", "select", "ended"} \cup Routed /\ pc # "ended"
  BY DEF Settling, SizedAt, Opened, Routed
<1>4. Route'
  BY <1>1, <1>3 DEF CommandInv, Route
<1>5. Sized'
  BY AskedStays DEF CommandInv, Sized
<1>6. pc' = "loop" => ~Unholdable'
  BY DEF Unholdable, Remote, PlacedNodes
<1>7. Held'
  BY <1>6 DEF Held
<1>8. QED
  BY <1>1, <1>2, <1>4, <1>5, <1>7 DEF CommandInv

\* Every knob's step, each in its turn.
LEMMA ResolvesKeep ==
    ASSUME CommandInv,
           \/ ResolveForceRoundtrip \/ ResolveExecutor \/ ResolveMaxPods
           \/ ResolveStore \/ ResolvePins \/ ResolveHeadroom
           \/ ResolveDurations \/ ResolveFailureMode \/ ResolveLogFormat
           \/ ResolveMetastore
    PROVE  CommandInv'
<1> DEFINE turns == {<<"force-roundtrip", "executor">>,
                   <<"executor", "max-pods">>,
                   <<"max-pods", "available">>,
                   <<"store", "compute-threads">>,
                   <<"compute-threads", "blocking-threads">>,
                   <<"blocking-threads", "memory">>,
                   <<"memory", "headroom">>,
                   <<"headroom", "capacity">>,
                   <<"grace", "teardown-deadline">>,
                   <<"teardown-deadline", "failure-mode">>,
                   <<"failure-mode", "log-format">>,
                   <<"log-format", "sink">>,
                   <<"metastore", "index">>}
<1>1. \E t \in turns : Resolve(t[1], t[2])
  BY DEF ResolveForceRoundtrip, ResolveExecutor, ResolveMaxPods, ResolveStore, ResolvePins,
         ResolveHeadroom, ResolveDurations, ResolveFailureMode, ResolveLogFormat,
         ResolveMetastore
<1>2. ASSUME NEW t \in turns
      PROVE  /\ t[1] \in FileKey /\ t[2] \in Settling
             /\ t[1] \in Opened <=> t[2] \in Opened
             /\ t[1] \in SizedAt <=> t[2] \in SizedAt
             /\ t[2] \notin {"start", "loop", "flush"}
             /\ t[1] = "metastore" \/ t[2] \notin {"metastore", "index"}
  BY KnobNames DEF Settling, SizedAt, Opened
<1>3. ASSUME NEW t \in turns, NEW j \in FileKey, Rank(j) < Rank(t[2])
      PROVE  j = t[1] \/ Rank(j) < Rank(t[1])
  BY <1>3, KnobNames, RankValues
<1>4. ASSUME NEW t \in turns, Resolve(t[1], t[2]) PROVE CommandInv'
  BY <1>2, <1>3, <1>4, ResolveKeeps
<1>5. QED
  BY <1>1, <1>4

\* The machine and its limits are read.
LEMMA AvailableKeeps ==
    ASSUME CommandInv, EnsureAvailable
    PROVE  CommandInv'
<1>1. /\ pc = "available" /\ pc \in Settling /\ pc \notin Opened /\ pc \notin SizedAt
      /\ ~created /\ result = << >> /\ machine = << >>
  BY DEF EnsureAvailable, CommandInv, Route, Settling, SizedAt, Opened
<1>2. CASE Remote /\ "k8s" \notin build
  <2>1. "executor" \in ReadKnob /\ Rank("executor") < Rank(pc)
    BY <1>1, KnobNames, RankValues DEF ReadKnob
  <2>2. Asked("executor") = "k8s"
    BY <1>1, <1>2, <2>1 DEF CommandInv, Settled, Honoured, Remote
  <2>3. BootCaused
    BY <1>1, <1>2, <2>2 DEF BootCaused
  <2>4. End("bootstrap failure")
    BY <1>2 DEF EnsureAvailable
  <2> QED
    BY <1>1, <2>3, <2>4, EndKeeps
<1>3. CASE ~(Remote /\ "k8s" \notin build)
  <2>1. /\ pc' = "flags" /\ UNCHANGED started
        /\ UNCHANGED <<flow, tier, config, machine, totals, created, pipeline, result, exit>>
    BY <1>3 DEF EnsureAvailable, GoTo, settled
  <2>2. pc' \in Settling /\ pc' \notin Opened /\ pc' \notin SizedAt
    BY <2>1 DEF Settling, SizedAt, Opened
  <2>3. \A k \in ReadKnob : Rank(k) < Rank(pc') => Rank(k) < Rank(pc)
    BY <1>1, <2>1, KnobNames, RankValues DEF ReadKnob
  <2>4. pc' \notin {"metastore", "index", "start", "loop", "flush"}
    BY <2>1
  <2> QED
    BY <1>1, <2>1, <2>2, <2>3, <2>4, PlainKeeps
<1>4. QED
  BY <1>2, <1>3

\* A flag is parsed, one knob after another.
LEMMA ParseFlagsKeeps ==
    ASSUME CommandInv, ParseFlags
    PROVE  CommandInv'
<1>1. /\ pc = "flags" /\ pc \in Settling /\ pc \notin Opened /\ pc \notin SizedAt
      /\ ~created /\ result = << >> /\ machine = << >>
  BY DEF ParseFlags, CommandInv, Route, Settling, SizedAt, Opened
<1> DEFINE flags == Durations \cup Pins \cup {"store", "failure-mode", "headroom", "log-format"}
<1>2. CASE \E k \in flags : Given(k) /\ ~ReadsAs(k, FlagText(k))
  <2>1. PICK k \in flags : Given(k) /\ ~ReadsAs(k, FlagText(k))
    BY <1>2
  <2>2. k \in Knob /\ k \in ReadKnob
    BY DEF ReadKnob, FileKey, Knob, Strings, Toggles, Durations, Pins
  <2>3. tier = Overlaid
    BY <1>1 DEF CommandInv, Settled
  <2>4. Asked(k) = FlagText(k)
    BY <2>1, <2>2, <2>3, SettingIsAsked DEF CommandInv, Setting
  <2>5. FlagText(k) # "default"
    BY <2>1, FlagTextIsText DEF CommandInv, CommandType
  <2>6. Unreadable(k)
    BY <2>1, <2>4, <2>5 DEF Unreadable
  <2>7. UsageCaused
    BY <1>1, <2>2, <2>6 DEF UsageCaused
  <2>8. End("invalid usage")
    BY <1>2 DEF ParseFlags
  <2> QED
    BY <1>1, <2>7, <2>8, EndKeeps
<1>3. CASE ~ \E k \in flags : Given(k) /\ ~ReadsAs(k, FlagText(k))
  <2>1. /\ pc' = "store" /\ UNCHANGED started
        /\ UNCHANGED <<flow, tier, config, machine, totals, created, pipeline, result, exit>>
    BY <1>3 DEF ParseFlags, GoTo, settled
  <2>2. pc' \in Settling /\ pc' \notin Opened /\ pc' \notin SizedAt
    BY <2>1 DEF Settling, SizedAt, Opened
  <2>3. \A k \in ReadKnob : Rank(k) < Rank(pc') => Rank(k) < Rank(pc)
    BY <1>1, <2>1, KnobNames, RankValues DEF ReadKnob
  <2>4. pc' \notin {"metastore", "index", "start", "loop", "flush"}
    BY <2>1
  <2> QED
    BY <1>1, <2>1, <2>2, <2>3, <2>4, PlainKeeps
<1>4. QED
  BY <1>2, <1>3

\* The capacity is settled from the pins, the machine and the headroom.
LEMMA CapacityKeeps ==
    ASSUME CommandInv, DetectCapacity
    PROVE  CommandInv'
<1>1. /\ pc = "capacity" /\ pc \in Settling /\ pc \notin Opened /\ pc \notin SizedAt
      /\ ~created /\ result = << >> /\ machine = << >>
  BY DEF DetectCapacity, CommandInv, Route, Settling, SizedAt, Opened
<1>2. /\ pc' = "grace" /\ UNCHANGED started
      /\ UNCHANGED <<flow, tier, config, created, pipeline, result, exit>>
  BY DEF DetectCapacity
<1>3. \A k \in SizingKnob \cup {"max-pods"} : config[k] = Asked(k)
  <2>1. \A k \in SizingKnob \cup {"max-pods"} : k \in ReadKnob /\ Rank(k) < Rank(pc)
    BY <1>1, KnobNames, RankValues DEF SizingKnob, Pins, ReadKnob
  <2> QED
    BY <1>1, <2>1 DEF CommandInv, Settled, Honoured
<1> DEFINE slots == IF config["max-pods"] = "default" THEN Plenty ELSE Number[config["max-pods"]]
           pin == [p \in DOMAIN PinOf |->
                      IF config[PinOf[p]] = "default" THEN Absent ELSE Number[config[PinOf[p]]]]
<1>4. slots = AskedSlots
  BY <1>3 DEF AskedSlots
<1>5. pin = AskedPin
  <2>1. \A p \in DOMAIN PinOf : config[PinOf[p]] = Asked(PinOf[p])
    BY <1>3 DEF PinOf, Pool, SizingKnob, Pins
  <2> QED
    BY <2>1 DEF AskedPin
<1>6. config["headroom"] = Asked("headroom")
  BY <1>3 DEF SizingKnob
<1>7. (\A k \in SizingKnob : config[k] = "default") <=> ~SizingAsked
  BY <1>3 DEF SizingAsked
<1>8. IF \A k \in SizingKnob : config[k] = "default"
        THEN totals' = Unconstrained(slots) /\ UNCHANGED machine
        ELSE \E m \in Machine :
                /\ machine' = m
                /\ totals' = Detected(m, pin, Percent(config["headroom"]), slots)
  BY DEF DetectCapacity
<1>9. \/ ~SizingAsked /\ machine' = << >> /\ totals' = Unconstrained(AskedSlots)
      \/ /\ SizingAsked
         /\ machine' \in Machine
         /\ totals' = Detected(machine', AskedPin, Percent(Asked("headroom")), AskedSlots)
  <2> HIDE DEF slots, pin
  <2>1. CASE \A k \in SizingKnob : config[k] = "default"
    BY <1>1, <1>4, <1>7, <1>8, <2>1
  <2>2. CASE ~ \A k \in SizingKnob : config[k] = "default"
    BY <1>4, <1>5, <1>6, <1>7, <1>8, <2>2
  <2> QED
    BY <2>1, <2>2
<1>10. /\ \A k : Asked(k)' = Asked(k)
       /\ AskedPin' = AskedPin /\ AskedSlots' = AskedSlots /\ SizingAsked' = SizingAsked
  BY <1>2, AskedStays
<1>11. Sized'
  BY <1>9, <1>10 DEF Sized
<1>12. pc' \in Settling /\ pc' \in SizedAt /\ pc' \notin Opened /\ pc' \notin Routed
  BY <1>2 DEF Settling, SizedAt, Opened, Routed
<1>13. \A k \in ReadKnob : Rank(k) < Rank(pc') => Rank(k) < Rank(pc)
  BY <1>1, <1>2, KnobNames, RankValues DEF ReadKnob
<1>14. /\ Settled' /\ UsageHasCause' /\ BootstrapHasCause' /\ ExitSaysWhy'
       /\ created' \in BOOLEAN => CommandType'
       /\ verb' = verb /\ verb = "run" /\ exit = "none" /\ build' = build
  BY <1>1, <1>2, <1>12, <1>13, AdvanceKeeps
<1>15. CommandType'
  BY <1>2, <1>14 DEF CommandInv, CommandType
<1>16. Route' /\ Held'
  BY <1>1, <1>2, <1>12, <1>14 DEF Route, Held
<1>17. QED
  BY <1>11, <1>14, <1>15, <1>16 DEF CommandInv

\* The event stream is opened.
LEMMA OpenSinkKeeps ==
    ASSUME CommandInv, OpenSink
    PROVE  CommandInv'
<1>1. /\ pc = "sink" /\ pc \in Settling /\ pc \notin Opened /\ pc \in SizedAt
      /\ ~created /\ result = << >> /\ exit = "none" /\ verb = "run"
  BY DEF OpenSink, CommandInv, Route, Settling, SizedAt, Opened
<1>2. CASE End("sink failure")
  BY <1>1, <1>2, EndKeeps
<1>3. CASE ~End("sink failure")
  <2>1. /\ created' = TRUE
        /\ pc' = IF "metastore" \in build THEN "metastore" ELSE "assemble"
        /\ UNCHANGED started
        /\ UNCHANGED <<flow, tier, config, machine, totals, pipeline, result, exit>>
    BY <1>3 DEF OpenSink, settled
  <2>2. /\ pc' \in Settling /\ pc' \in SizedAt /\ pc' \in Opened /\ pc' \notin Routed
        /\ pc' \notin {"typing", "select", "ended", "start", "loop", "flush"}
    BY <2>1 DEF Settling, SizedAt, Opened, Routed
  <2>3. \A k \in ReadKnob : Rank(k) < Rank(pc') => Rank(k) < Rank(pc)
    <3>1. CASE "metastore" \in build
      BY <1>1, <2>1, <3>1, KnobNames, RankValues DEF ReadKnob
    <3>2. CASE "metastore" \notin build
      BY <1>1, <2>1, <3>2, KnobNames, RankValues DEF ReadKnob
    <3> QED
      BY <3>1, <3>2
  <2>4. /\ Settled' /\ UsageHasCause' /\ BootstrapHasCause' /\ ExitSaysWhy'
        /\ created' \in BOOLEAN => CommandType'
        /\ verb' = verb /\ build' = build
    BY <1>1, <2>1, <2>2, <2>3, AdvanceKeeps
  <2>5. Route'
    BY <1>1, <2>1, <2>2, <2>4 DEF Route
  <2>6. Sized'
    BY <1>1, <2>1, AskedStays DEF CommandInv, Sized
  <2>7. Held'
    BY <2>2 DEF Held
  <2> QED
    BY <2>1, <2>4, <2>5, <2>6, <2>7 DEF CommandInv
<1>4. QED
  BY <1>2, <1>3

\* The index is opened.
LEMMA OpenIndexKeeps ==
    ASSUME CommandInv, OpenIndex
    PROVE  CommandInv'
<1>1. /\ pc = "index" /\ pc \in Settling /\ pc \in Opened /\ pc \in SizedAt
      /\ created /\ result = << >>
  BY DEF OpenIndex, CommandInv, Route, Settling, SizedAt, Opened
<1>2. CASE End("sink failure")
  BY <1>1, <1>2, EndKeeps
<1>3. CASE GoTo("assemble")
  <2>1. /\ pc' = "assemble" /\ UNCHANGED started
        /\ UNCHANGED <<flow, tier, config, machine, totals, created, pipeline, result, exit>>
    BY <1>3 DEF GoTo, settled
  <2>2. pc' \in Settling /\ pc' \in Opened /\ pc' \in SizedAt
    BY <2>1 DEF Settling, SizedAt, Opened
  <2>3. \A k \in ReadKnob : Rank(k) < Rank(pc') => Rank(k) < Rank(pc)
    BY <1>1, <2>1, KnobNames, RankValues DEF ReadKnob
  <2>4. pc' \notin {"metastore", "index", "start", "loop", "flush"}
    BY <2>1
  <2> QED
    BY <1>1, <2>1, <2>2, <2>3, <2>4, PlainKeeps
<1>4. QED
  BY <1>2, <1>3 DEF OpenIndex

\* The pipeline is assembled.
LEMMA AssembleKeeps ==
    ASSUME CommandInv, Assemble
    PROVE  CommandInv'
<1>1. /\ pc = "assemble" /\ pc \in Settling /\ pc \in Opened /\ pc \in SizedAt
      /\ created /\ result = << >>
  BY DEF Assemble, CommandInv, Route, Settling, SizedAt, Opened
<1>2. CASE End("assembly failure")
  BY <1>1, <1>2, EndKeeps
<1>3. CASE ~End("assembly failure")
  <2>1. /\ pc' = "start" /\ UNCHANGED started /\ pipeline' \in Pipeline
        /\ UNCHANGED <<flow, tier, config, machine, totals, created, result, exit>>
    BY <1>3 DEF Assemble, settled
  <2>2. pc' \in Settling /\ pc' \in Opened /\ pc' \in SizedAt
    BY <2>1 DEF Settling, SizedAt, Opened
  <2>3. \A k \in ReadKnob : Rank(k) < Rank(pc') => Rank(k) < Rank(pc)
    BY <1>1, <2>1, KnobNames, RankValues DEF ReadKnob
  <2>4. pc' \notin {"metastore", "index", "loop", "flush"}
    BY <2>1
  <2> QED
    BY <1>1, <2>1, <2>2, <2>3, <2>4, PlainKeeps
<1>4. QED
  BY <1>2, <1>3

\* What concludes the run leaves the settings and the pools as they are.
LEMMA ConcludeKeeps ==
    ASSUME CommandInv, pc \in {"start", "loop"}, NEW outcome, NEW origin,
           Conclude(outcome, origin, "flush"),
           \/ outcome = "bootstrap-failed" /\ origin = "none" /\ Unholdable
           \/ /\ outcome \in {"succeeded", "failed", "cancelled"}
              /\ origin \in {"none", "external-interrupt", "failure-under-stop"}
              /\ origin = "failure-under-stop" => outcome = "failed"
    PROVE  CommandInv'
<1>1. /\ pc \in Settling /\ pc \in Opened /\ pc \in SizedAt
      /\ created /\ pc # "ended"
  BY DEF CommandInv, Route, Settling, SizedAt, Opened
<1>2. /\ pc' = "flush" /\ UNCHANGED started
      /\ result' = [outcome |-> outcome, origin |-> origin]
      /\ UNCHANGED <<flow, tier, config, machine, totals, created, pipeline, exit>>
  BY DEF Conclude, settled
<1>3. pc' \in Settling /\ pc' \in Opened /\ pc' \in SizedAt /\ pc' \notin Routed
  BY <1>2 DEF Settling, SizedAt, Opened, Routed
<1>4. \A k \in ReadKnob : Rank(k) < Rank(pc') => Rank(k) < Rank(pc)
  <2>1. \A k \in ReadKnob : Rank(k) < 20 /\ Rank(k) \in Nat
    BY KnobNames, RankValues DEF ReadKnob
  <2>2. Rank(pc) >= 20 /\ Rank(pc) \in Nat
    BY RankValues
  <2> QED
    BY <2>1, <2>2
<1>5. /\ Settled' /\ UsageHasCause' /\ BootstrapHasCause' /\ ExitSaysWhy'
      /\ created' \in BOOLEAN => CommandType'
      /\ verb' = verb /\ verb = "run" /\ exit = "none"
  BY <1>1, <1>2, <1>3, <1>4, AdvanceKeeps
<1>6. CommandType'
  BY <1>2, <1>5 DEF CommandInv, CommandType
<1>7. Route'
  BY <1>1, <1>2, <1>3, <1>5 DEF Route
<1>8. Sized'
  BY <1>1, <1>2, AskedStays DEF CommandInv, Sized
<1>9. Unholdable => Unholdable'
  BY <1>2 DEF Unholdable, Remote, PlacedNodes
<1>10. pipeline' \in Pipeline
  BY <1>2 DEF CommandInv, Held
<1>11. Held'
  BY <1>2, <1>9, <1>10 DEF Held
<1>12. QED
  BY <1>5, <1>6, <1>7, <1>8, <1>11 DEF CommandInv

\* The run starts, or is refused for what does not fit.
LEMMA StartRunKeeps ==
    ASSUME CommandInv, StartRun
    PROVE  CommandInv'
<1>1. /\ pc = "start" /\ pc \in Settling /\ pc \in Opened /\ pc \in SizedAt
      /\ result = << >>
  BY DEF StartRun, CommandInv, Route, Settling, SizedAt, Opened
<1>2. CASE Unholdable
  <2>1. Conclude("bootstrap-failed", "none", "flush")
    BY <1>2 DEF StartRun, Unholdable
  <2> QED
    BY <1>1, <1>2, <2>1, ConcludeKeeps
<1>3. CASE ~Unholdable
  <2>1. GoTo("loop")
    BY <1>3 DEF StartRun, Unholdable
  <2>2. /\ pc' = "loop" /\ UNCHANGED started
        /\ UNCHANGED <<flow, tier, config, machine, totals, created, pipeline, result, exit>>
    BY <2>1 DEF GoTo, settled
  <2>3. pc' \in Settling /\ pc' \in Opened /\ pc' \in SizedAt
    BY <2>2 DEF Settling, SizedAt, Opened
  <2>4. \A k \in ReadKnob : Rank(k) < Rank(pc') => Rank(k) < Rank(pc)
    BY <1>1, <2>2, KnobNames, RankValues DEF ReadKnob
  <2>5. pipeline' \in Pipeline
    BY <1>1, <2>2 DEF CommandInv, Held
  <2>6. pc' \notin {"metastore", "index", "flush"}
    BY <2>2
  <2> QED
    BY <1>1, <1>3, <2>2, <2>3, <2>4, <2>5, <2>6, PlainKeeps
<1>4. QED
  BY <1>2, <1>3

\* The run ends.
LEMMA RunLoopKeeps ==
    ASSUME CommandInv, RunLoopEnds
    PROVE  CommandInv'
<1>1. PICK outcome \in {"succeeded", "failed", "cancelled"},
           origin \in {"none", "external-interrupt", "failure-under-stop"} :
         /\ origin = "failure-under-stop" => outcome = "failed"
         /\ Conclude(outcome, origin, "flush")
  BY DEF RunLoopEnds
<1>2. pc \in {"start", "loop"}
  BY DEF RunLoopEnds
<1>3. QED
  BY <1>1, <1>2, ConcludeKeeps

\* The index is flushed behind the run.
LEMMA FlushKeeps ==
    ASSUME CommandInv, FlushAndExit
    PROVE  CommandInv'
<1>1. pc = "flush"
  BY DEF FlushAndExit
<1>2. CASE result = [outcome |-> "bootstrap-failed", origin |-> "none"] /\ Unholdable
  <2>1. result.outcome = "bootstrap-failed"
    BY <1>2
  <2>2. End("bootstrap failure")
    BY <2>1 DEF FlushAndExit
  <2>3. BootCaused
    BY <1>1, <1>2, UnholdableCaused
  <2>4. ExitTells("bootstrap failure")
    BY DEF ExitTells
  <2> QED
    BY <2>2, <2>3, <2>4, EndKeeps
<1>3. ASSUME NEW outcome \in {"succeeded", "failed", "cancelled"},
             NEW origin \in {"none", "external-interrupt", "failure-under-stop"},
             result = [outcome |-> outcome, origin |-> origin],
             origin = "failure-under-stop" => outcome = "failed"
      PROVE  CommandInv'
  <2>1. result.outcome = outcome /\ result.origin = origin /\ outcome # "bootstrap-failed"
    BY <1>3
  <2>2. PICK flushed \in BOOLEAN :
           End(CodeOf(Shutdown!SelectShutdownExit(outcome, origin, flushed)))
    BY <2>1 DEF FlushAndExit
  <2> DEFINE shutdown == Shutdown!SelectShutdownExit(outcome, origin, flushed)
             code == CodeOf(shutdown)
  <2>3. shutdown = IF outcome = "failed" \/ origin = "failure-under-stop" THEN "run-failure"
                   ELSE IF ~flushed THEN "sink-failure"
                   ELSE IF origin = "external-interrupt" \/ outcome = "cancelled"
                     THEN "cancelled" ELSE "success"
    BY DEF Shutdown!SelectShutdownExit
  <2> HIDE DEF shutdown
  <2>4. /\ shutdown = "run-failure" => code = "run failure"
        /\ shutdown = "sink-failure" => code = "sink failure"
        /\ shutdown \in {"cancelled", "success"} => code = shutdown
    BY DEF CodeOf
  <2>5. code \in {"run failure", "sink failure", "cancelled", "success"}
    BY <2>3, <2>4
  <2>6. ExitTells(code)
    <3>1. code = "success" => outcome = "succeeded" /\ origin = "none"
      BY <2>3, <2>4
    <3>2. code = "run failure" => outcome = "failed"
      BY <1>3, <2>3, <2>4
    <3>3. code = "cancelled" => outcome # "failed"
      BY <2>3, <2>4
    <3> QED
      BY <1>3, <2>1, <3>1, <3>2, <3>3 DEF ExitTells
  <2>7. End(code)
    BY <2>2 DEF shutdown
  <2> QED
    BY <2>5, <2>6, <2>7, EndKeeps
<1>4. QED
  BY <1>1, <1>2, <1>3 DEF CommandInv, Held

-----------------------------------------------------------------------------
(* The command line: the theorem.                                           *)

\* An empty command line satisfies the invariant.
LEMMA CommandInitHolds ==
    CommandInit => CommandInv
<1> SUFFICES ASSUME CommandInit PROVE CommandInv
  OBVIOUS
<1>1. pc = "typing" /\ exit = "none" /\ result = << >> /\ created = FALSE
      /\ flow = "none" /\ machine = << >>
  BY DEF CommandInit
<1>2. pc \notin Settling /\ pc \notin SizedAt /\ pc \notin Opened /\ pc \notin Routed
  BY <1>1 DEF Settling, SizedAt, Opened, Routed
<1>3. CommandType
  BY EmptySeq DEF CommandInit, CommandType
<1>4. Route
  BY <1>1, <1>2 DEF Route
<1>5. Settled /\ Sized /\ Held
  BY <1>1, <1>2 DEF Settled, Sized, Held
<1>6. QED
  BY <1>1, <1>3, <1>4, <1>5, NotEnded DEF CommandInv

\* Every step of the command keeps the invariant.
LEMMA CommandStepHolds ==
    ASSUME CommandInv, [CommandNext]_commandVars
    PROVE  CommandInv'
<1>1. ASSUME UNCHANGED commandVars PROVE CommandInv'
  <2>1. /\ UNCHANGED started
        /\ argv' = argv /\ verb' = verb /\ env' = env /\ files' = files /\ build' = build
        /\ UNCHANGED <<pc, flow, tier, config, machine, totals, created, pipeline, result, exit>>
    BY <1>1 DEF commandVars, started, settled
  <2>2. /\ \A k : Asked(k)' = Asked(k)
        /\ \A k : Unreadable(k)' = Unreadable(k)
        /\ FileRefused' = FileRefused /\ ReadKnob' = ReadKnob /\ Overlaid' = Overlaid
        /\ AskedPin' = AskedPin /\ AskedSlots' = AskedSlots /\ SizingAsked' = SizingAsked
    BY <2>1, AskedStays
  <2>3. CommandType' /\ Route'
    BY <2>1 DEF CommandInv, CommandType, Route
  <2>4. Settled'
    <3>1. \A k : Honoured(k)' = Honoured(k)
      BY <2>1, <2>2 DEF Honoured
    <3> QED
      BY <2>1, <2>2, <3>1 DEF CommandInv, Settled
  <2>5. Sized'
    BY <2>1, <2>2 DEF CommandInv, Sized
  <2>6. Held'
    BY <2>1 DEF CommandInv, Held, Unholdable, Remote, PlacedNodes
  <2>7. \A p : Offer(p)' = Offer(p)
    BY <2>1, <2>2 DEF Offer
  <2>8. UsageHasCause'
    BY <2>1, <2>2 DEF CommandInv, UsageHasCause
  <2>9. BootstrapHasCause'
    BY <2>1, <2>2, <2>7 DEF CommandInv, BootstrapHasCause
  <2>10. ExitSaysWhy'
    BY <2>1 DEF CommandInv, ExitSaysWhy
  <2> QED
    BY <2>3, <2>4, <2>5, <2>6, <2>8, <2>9, <2>10 DEF CommandInv
<1>2. ASSUME CommandNext PROVE CommandInv'
  BY <1>2, TypeKeeps, ParseKeeps, SelectKeeps, AnswerKeeps, LoadFileKeeps, ResolvesKeep,
     AvailableKeeps, ParseFlagsKeeps, CapacityKeeps, OpenSinkKeeps, OpenIndexKeeps,
     AssembleKeeps, StartRunKeeps, RunLoopKeeps, FlushKeeps DEF CommandNext
<1>3. QED
  BY <1>1, <1>2

\* A run that enters the loop has every node where the machine can hold it.
LEMMA LoopFits ==
    ASSUME CommandInv, pc = "loop"
    PROVE  FitsMachine /\ NoEmptyPool
<1>1. /\ \A k \in SizingKnob \cup {"max-pods"} : ~Unreadable(k) /\ ~OutOfRange(k, Asked(k))
      /\ Remote <=> Asked("executor") = "k8s"
      /\ pc \in SizedAt
  BY AllHonoured
<1>2. pipeline \in Pipeline /\ TooBig(pipeline, Remote, totals) = {}
  BY DEF CommandInv, Held, Unholdable
<1>3. DOMAIN PinOf = Pool \ {"remote"}
  BY DEF PinOf
<1>4. ASSUME NEW n \in DOMAIN pipeline, NEW p \in DOMAIN PinOf
      PROVE  \/ Asked("executor") = "k8s" /\ pipeline[n].placed
             \/ pipeline[n].cost[p] <= Offer(p)
             \/ Asked(PinOf[p]) = "default" /\ pipeline[n].cost[p] = 1
  <2>1. SUFFICES ASSUME ~(Remote /\ pipeline[n].placed)
                 PROVE  \/ pipeline[n].cost[p] <= Offer(p)
                        \/ Asked(PinOf[p]) = "default" /\ pipeline[n].cost[p] = 1
    BY <1>1
  <2>2. DemandOn(pipeline[n], Remote, p) = pipeline[n].cost[p]
    BY <1>3, <2>1 DEF DemandOn
  <2>3. <<n, p>> \notin TooBig(pipeline, Remote, totals) /\ p \in Pool
    BY <1>2, <1>3
  <2>4. ~(pipeline[n].cost[p] > totals[p])
    BY <2>2, <2>3 DEF TooBig
  <2>5. pipeline[n].cost[p] \in Nat
    BY <1>2, CostsBounded, AmountAssumption
  <2>6. /\ totals[p] \in Nat /\ Offer(p) \in Nat
        /\ totals[p] <= Offer(p) \/ (Asked(PinOf[p]) = "default" /\ totals[p] = 1)
    BY <1>1, TotalsFacts DEF CommandInv
  <2> QED
    BY <2>4, <2>5, <2>6
<1>5. \A p \in DOMAIN PinOf : totals[p] = 0 => Asked(PinOf[p]) = "0"
  BY <1>1, TotalsFacts DEF CommandInv
<1>6. QED
  BY <1>4, <1>5 DEF FitsMachine, NoEmptyPool

\* What the invariant says when the command is over is the property.
LEMMA CommandInvSuffices ==
    CommandInv => RunsAsAsked
<1> SUFFICES ASSUME CommandInv PROVE RunsAsAsked
  OBVIOUS
<1>1. SettingsHonoured
  BY AllHonoured DEF SettingsHonoured, Honoured
<1>2. FitsMachine /\ NoEmptyPool
  BY LoopFits DEF FitsMachine, NoEmptyPool
<1>3. QED
  BY <1>1, <1>2 DEF CommandInv, RunsAsAsked

\* RunsAsAsked, for every command line, environment, file, build, machine and pipeline:
\* a run begins with every knob as the strongest place that sets it says, holds no node
\* its machine cannot, is refused only for a cause in what it was given, leaves nothing
\* behind when refused as invalid usage, and exits as its loop ended (the resolvers of
\* config.rs, detect of limits.rs, the bootstrap check and the exit selection).
THEOREM CommandRunsAsAsked ==
    CommandSpec => []RunsAsAsked
<1>1. CommandInit => CommandInv
  BY CommandInitHolds
<1>2. CommandInv /\ [CommandNext]_commandVars => CommandInv'
  BY CommandStepHolds
<1>3. CommandInv => RunsAsAsked
  BY CommandInvSuffices
<1>4. QED
  BY <1>1, <1>2, <1>3, PTL DEF CommandSpec
=============================================================================
