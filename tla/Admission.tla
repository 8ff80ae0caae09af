------------------------------ MODULE Admission ------------------------------
(***************************************************************************)
(* The admission ledger (crates/core/src/admission.rs): the capacity       *)
(* pools, the permits that draw on them and the live zombies.  Every       *)
(* operation runs under the ledger's mutex, so each is one step; a permit  *)
(* is dropped by whichever thread finishes the attempt.                    *)
(*                                                                         *)
(* A node holds at most one permit at a time: its driver admits it for an  *)
(* attempt and a retry waits for the previous permit to come back.         *)
(***************************************************************************)
EXTENDS Nodes, Sequences, SequencesExt

CONSTANTS Pool,       \* memory, blocking threads, compute threads, remote slots
          Capacity,   \* PoolCapacities: the total of every pool
          Cost        \* PoolCost: what a node's declared cost asks of a pool

ASSUME PoolAssumption ==
    Capacity \in [Pool -> Nat] /\ Cost \in [Node -> [Pool -> Nat]]

VARIABLES free,      \* Inner.remaining_*: capacity not charged
          permits,   \* the nodes whose attempt holds a permit
          zombies    \* Inner.zombies: nodes marked, in registration order

ledger == <<free, permits, zombies>>

InitLedger ==
    /\ free = Capacity
    /\ permits = {}
    /\ zombies = << >>

\* The all-or-nothing test, and the test against an empty machine.
Fits(n)       == \A p \in Pool : Cost[n][p] <= free[p]
CanEverFit(n) == \A p \in Pool : Cost[n][p] <= Capacity[p]

Charge(n) ==
    /\ free' = [p \in Pool |-> free[p] - Cost[n][p]]
    /\ permits' = permits \cup {n}

\* try_admit that returns a permit; a refusal changes nothing.
TryAdmit(n) ==
    /\ n \notin permits
    /\ Fits(n)
    /\ Charge(n)
    /\ UNCHANGED zombies

\* Mutant: the deadline gives the permit back at once.
ReleaseAtDeadline(n) ==
    /\ free' = [p \in Pool |-> free[p] + Cost[n][p]]
    /\ permits' = permits \ {n}
    /\ zombies' = Append(zombies, n)

\* Register the running attempt as a zombie; its permit stays charged.
MarkZombie(n) ==
    /\ n \in permits
    /\ zombies' = Append(zombies, n)
    /\ UNCHANGED <<free, permits>>

\* Mutant: the release forgets to credit the pool.
LeakCredit(p, n) == free[p]

\* Credit saturates at the total, so a double release could not over-credit.
Credit(p, n) == IF free[p] + Cost[n][p] > Capacity[p] THEN Capacity[p]
                ELSE free[p] + Cost[n][p]

\* Mutant: the zombie record outlives its permit.
DropPermitOnly(n) ==
    /\ n \in permits
    /\ free' = [p \in Pool |-> Credit(p, n)]
    /\ permits' = permits \ {n}
    /\ UNCHANGED zombies

\* Permit's Drop: give the cost back and clear the node's first zombie record.
DropPermit(n) ==
    /\ n \in permits
    /\ free' = [p \in Pool |-> Credit(p, n)]
    /\ permits' = permits \ {n}
    /\ zombies' = RemoveFirst(zombies, n)

\* ZombieObserver: a retry after a timeout may start only when this is false.
HasLiveZombie == zombies # << >>
=============================================================================
