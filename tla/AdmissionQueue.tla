--------------------------- MODULE AdmissionQueue ----------------------------
(***************************************************************************)
(* The admission controller as its clients see it: the ledger, the waiting *)
(* queue of offered nodes and the output residency that the memory pool's  *)
(* counted figure adds in (crates/core/src/admission.rs).                  *)
(*                                                                         *)
(* poll_admissions holds the mutex while it admits one waiter after        *)
(* another; here that is Poll, AdmitNext until no waiter fits, PollDone,   *)
(* with every other operation shut out in between.                         *)
(***************************************************************************)
EXTENDS Admission

CONSTANTS Memory,     \* the pool that output residency is counted against
          Residency,  \* the bytes a node's output keeps resident
          Direct,     \* nodes that call try_admit instead of queueing
          Stream      \* nodes that ask again after every attempt

ASSUME MemoryAssumption == Memory \in Pool /\ Residency \in [Node -> Nat]

VARIABLES waiters,    \* Inner.waiters, oldest first
          polling,    \* the mutex is held by poll_admissions
          resident,   \* ResidencyLedger.current
          leases,     \* the nodes whose output slot holds a lease
          asked       \* the nodes that asked before

vars == <<ledger, waiters, polling, resident, leases, asked>>

Init ==
    /\ InitLedger
    /\ waiters = << >>
    /\ polling = FALSE
    /\ resident = 0
    /\ leases = {}
    /\ asked = {}

Waiting == {waiters[i] : i \in DOMAIN waiters}

\* A node asks for one attempt at a time; outside Stream it asks once.
MayAsk(n) == n \notin permits \cup Waiting /\ (n \in asked => n \in Stream)

Offer(n) ==
    /\ ~polling
    /\ n \notin Direct /\ MayAsk(n)
    /\ waiters' = Append(waiters, n)
    /\ asked' = asked \cup {n}
    /\ UNCHANGED <<ledger, polling, resident, leases>>

Admit(n) ==
    /\ ~polling
    /\ n \in Direct /\ MayAsk(n)
    /\ TryAdmit(n)
    /\ asked' = asked \cup {n}
    /\ UNCHANGED <<waiters, polling, resident, leases>>

Poll ==
    /\ ~polling
    /\ polling' = TRUE
    /\ UNCHANGED <<ledger, waiters, resident, leases, asked>>

\* Mutant: only the oldest waiter is looked at.
OldestOnly == {i \in DOMAIN waiters : i = 1 /\ Fits(waiters[i])}

\* next_admissible: the oldest waiter when it fits, else the first that does.
NextAdmissible == {i \in DOMAIN waiters :
                     /\ Fits(waiters[i])
                     /\ \A j \in 1..(i - 1) : ~Fits(waiters[j])}

AdmitNext ==
    /\ polling
    /\ \E i \in NextAdmissible : /\ Charge(waiters[i])
                                 /\ waiters' = RemoveAt(waiters, i)
    /\ UNCHANGED <<zombies, polling, resident, leases, asked>>

PollDone ==
    /\ polling
    /\ NextAdmissible = {}
    /\ polling' = FALSE
    /\ UNCHANGED <<ledger, waiters, resident, leases, asked>>

\* The attempt's deadline passed and its closure is still running.
TimeOut(n) ==
    /\ ~polling
    /\ \A i \in DOMAIN zombies : zombies[i] # n
    /\ MarkZombie(n)
    /\ UNCHANGED <<waiters, polling, resident, leases, asked>>

\* The attempt returned: its permit drops.
Return(n) ==
    /\ ~polling
    /\ DropPermit(n)
    /\ UNCHANGED <<waiters, polling, resident, leases, asked>>

\* A running attempt produced its value: transfer_residency, not refused
\* whatever the pool holds, until the slot lets the lease go.
Produce(n) ==
    /\ n \in permits \ leases
    /\ leases' = leases \cup {n}
    /\ resident' = resident + Residency[n]
    /\ UNCHANGED <<ledger, waiters, polling, asked>>

ReleaseOutput(n) ==
    /\ n \in leases
    /\ leases' = leases \ {n}
    /\ resident' = resident - Residency[n]
    /\ UNCHANGED <<ledger, waiters, polling, asked>>

Counted(p) == Capacity[p] - free[p] + (IF p = Memory THEN resident ELSE 0)

Next ==
    \/ \E n \in Node : Offer(n) \/ Admit(n) \/ TimeOut(n) \/ Return(n)
                       \/ Produce(n) \/ ReleaseOutput(n)
    \/ Poll \/ AdmitNext \/ PollDone

Spec == Init /\ [][Next]_vars

\* A client polls after a release, closures return, and slots are let go.
FairSpec == /\ Spec
            /\ WF_vars(AdmitNext) /\ WF_vars(PollDone)
            /\ SF_vars(NextAdmissible # {} /\ Poll)
            /\ \A n \in Node : SF_vars(Return(n))
-----------------------------------------------------------------------------
(* Properties                                                               *)

TypeOK ==
    /\ free \in [Pool -> Nat]
    /\ permits \subseteq Node
    /\ zombies \in Seq(Node)
    /\ waiters \in Seq(Node)
    /\ polling \in BOOLEAN
    /\ resident \in Nat
    /\ leases \subseteq Node
    /\ asked \subseteq Node

Draw(p)      == [n \in Node |-> Cost[n][p]]

\* The ledgers are exact at every instant, live zombies included: what is free
\* and what the held permits draw add up to the total in every pool at once,
\* and the residency is what the held leases pin.  So nothing is over-admitted,
\* leaked or held in part, and the saturation in release hides no wrong credit.
ExactAccounting ==
    /\ \A p \in Pool :
         free[p] + Cardinality(Tokens(permits, Draw(p))) = Capacity[p]
    /\ resident = Cardinality(Tokens(leases, Residency))

\* A zombie record stands for an attempt that still holds its permit, one
\* record for one permit: a report never shows a cost already given back.
ZombiesAreHeld ==
    /\ \A i \in DOMAIN zombies : zombies[i] \in permits
    /\ \A i, j \in DOMAIN zombies : zombies[i] = zombies[j] => i = j

\* The books of the controller at every instant: the ledgers, and the report
\* of the zombies (acquire, release, ZombieTable).
AdmissionBooks == ExactAccounting /\ ZombiesAreHeld

\* A waiter holds nothing and waits once.
WaitersHoldNothing ==
    /\ \A i \in DOMAIN waiters : waiters[i] \notin permits
    /\ \A i, j \in DOMAIN waiters : waiters[i] = waiters[j] => i = j

\* No two-pool deadlock: with no permit out, every waiter that could ever fit
\* fits now, because a waiter holds nothing while it waits.
EmptyMachineAdmits ==
    permits = {} => \A n \in Waiting : CanEverFit(n) => Fits(n)

\* "Counted cost never exceeds capacity", residency of the outputs included.
CountedWithinCapacity == \A p \in Pool : Counted(p) <= Capacity[p]

\* A waiter that could ever fit is admitted.
WaiterServed == \A n \in Node :
                  (n \in Waiting /\ CanEverFit(n)) ~> n \in permits
=============================================================================
