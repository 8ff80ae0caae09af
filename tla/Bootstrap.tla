------------------------------ MODULE Bootstrap ------------------------------
(***************************************************************************)
(* The capacity a run starts with, and the nodes it can never admit        *)
(* (crates/core: limits.rs, the totals and costs of admission.rs).  A      *)
(* machine is what the probe reads of it: two generations of control       *)
(* groups, each with a memory limit and a processor quota over a period,   *)
(* the cores and the memory of the host.  Absent stands for every file     *)
(* that gives no number: missing, empty, "max", -1 or garbage.             *)
(*                                                                         *)
(* Amounts are small here; that a quotient of more than 32 bits counts as  *)
(* absent, and that a fraction of memory is rounded, is left out.          *)
(***************************************************************************)
EXTENDS Naturals

CONSTANTS
    Machine,        \* machines: [v2, v1 : [memory, quota, period], cores, ram]
    Pipeline,       \* pipelines: node -> [cost : per pool, placed]
    Absent,         \* no number: a model value
    Plenty,         \* the total of a pool that is not constrained
    Sentinel,       \* at and above it, a first-generation limit is none
    FallbackMemory  \* the memory of a host that does not tell

Pool == {"memory", "blocking", "compute", "remote"}

Amount == Nat \cup {Absent}

ASSUME AmountAssumption ==
    /\ Absent \notin Nat
    /\ Plenty \in Nat \ {0} /\ Sentinel \in Nat /\ FallbackMemory \in Nat

Group == [memory : Amount, quota : Amount, period : Amount]

ASSUME MachineAssumption ==
    Machine \subseteq [v2 : Group, v1 : Group, cores : Nat, ram : Amount]

\* A pool that is not constrained holds any node.
ASSUME PipelineAssumption ==
    \A nodesOf \in Pipeline : \A n \in DOMAIN nodesOf :
       nodesOf[n] \in [cost : [Pool \ {"remote"} -> 0..Plenty], placed : BOOLEAN]

------------------------------------------------------------------------------
(* The limits in force: the second generation's, the first's, the host's. *)

\* Whole processors only; a period of zero is no quota.
Threads(group) ==
    IF Absent \in {group.quota, group.period} \/ group.period = 0 THEN Absent
    ELSE group.quota \div group.period

FirstMemory(group) ==
    IF group.memory # Absent /\ group.memory >= Sentinel THEN Absent ELSE group.memory

InForce(v2, v1, host) ==
    IF v2 # Absent THEN v2 ELSE IF v1 # Absent THEN v1 ELSE host

HostMemory(m) == IF m.ram = Absent THEN FallbackMemory ELSE m.ram

Limit(m, p) ==
    IF p = "memory" THEN InForce(m.v2.memory, FirstMemory(m.v1), HostMemory(m))
                    ELSE InForce(Threads(m.v2), Threads(m.v1), m.cores)

------------------------------------------------------------------------------
(* The totals *)

\* What headroom leaves is rounded down, and is one unit at the least.
Kept(limit, percent) ==
    LET left == (limit * (100 - percent)) \div 100
    IN  IF left = 0 THEN 1 ELSE left

\* A pin is taken as it is.  Slots on the cluster are set, never detected.
Detected(m, pin, percent, slots) ==
    [p \in Pool |-> IF p = "remote" THEN slots
                    ELSE IF pin[p] # Absent THEN pin[p]
                    ELSE Kept(Limit(m, p), percent)]

Unconstrained(slots) == [p \in Pool |-> IF p = "remote" THEN slots ELSE Plenty]

------------------------------------------------------------------------------
(* The demands *)

\* A node that will run elsewhere costs one slot there and nothing here.
DemandOn(node, honoured, p) ==
    IF node.placed /\ honoured THEN (IF p = "remote" THEN 1 ELSE 0)
    ELSE IF p = "remote" THEN 0 ELSE node.cost[p]

\* The nodes that could wait for ever, each with a pool too small for it.
TooBig(nodesOf, honoured, totals) ==
    {d \in (DOMAIN nodesOf) \X Pool :
        DemandOn(nodesOf[d[1]], honoured, d[2]) > totals[d[2]]}

PlacedNodes(nodesOf) == {n \in DOMAIN nodesOf : nodesOf[n].placed}
==============================================================================
