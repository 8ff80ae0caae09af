--------------------------- MODULE ResourceProofs ----------------------------
(***************************************************************************)
(* Proofs about what a run's nodes share: the admission controller's pools *)
(* and permits, for every set of nodes and pools and every cost; and the   *)
(* output slots and their leases, for every wiring and every choice of     *)
(* owners, leases and retained values.                                     *)
(***************************************************************************)
EXTENDS AdmissionQueue, OutputSlot, CommonLemmas

-----------------------------------------------------------------------------
(* The admission controller: what a pool is asked *)

\* What a pool is asked by every node is a function like Residency.
LEMMA DrawType ==
    ASSUME NEW p \in Pool
    PROVE  Draw(p) \in [Node -> Nat] /\ \A n \in Node : Draw(p)[n] = Cost[n][p]
BY PoolAssumption DEF Draw

-----------------------------------------------------------------------------
(* The pools.                                                               *)

PoolsExact == \A p \in Pool :
                free[p] + Cardinality(Tokens(permits, Draw(p))) = Capacity[p]

\* Charging a node that fits keeps every pool exact and none below zero.
LEMMA ChargeIsExact ==
    ASSUME free \in [Pool -> Nat], permits \subseteq Node, PoolsExact,
           NEW n \in Node, n \notin permits, Fits(n), Charge(n)
    PROVE  /\ free' \in [Pool -> Nat]
           /\ permits' \subseteq Node
           /\ PoolsExact'
<1>1. ASSUME NEW p \in Pool
      PROVE  /\ free[p] - Cost[n][p] \in Nat
             /\ (free[p] - Cost[n][p])
                  + Cardinality(Tokens(permits \cup {n}, Draw(p))) = Capacity[p]
  <2>1. Draw(p) \in [Node -> Nat] /\ Draw(p)[n] = Cost[n][p]
    BY DrawType
  <2>2. Cost[n][p] <= free[p] /\ free[p] + Cardinality(Tokens(permits, Draw(p))) = Capacity[p]
    BY DEF Fits, PoolsExact
  <2>3. PICK f \in [Node -> Nat] : f = Draw(p)
    BY <2>1
  <2>4. QED
    BY <2>1, <2>2, <2>3, ChargeIsPaired
<1>2. free' = [p \in Pool |-> free[p] - Cost[n][p]] /\ permits' = permits \cup {n}
  BY DEF Charge
<1>3. free' \in [Pool -> Nat] /\ permits' \subseteq Node
  BY <1>1, <1>2
<1>4. PoolsExact'
  BY <1>1, <1>2 DEF PoolsExact, Tokens, Draw
<1>5. QED
  BY <1>3, <1>4

\* Dropping a held permit gives back exactly what it drew: the saturation at
\* the total is never reached.
LEMMA DropIsExact ==
    ASSUME free \in [Pool -> Nat], permits \subseteq Node, PoolsExact,
           NEW n \in Node, DropPermit(n)
    PROVE  /\ free' \in [Pool -> Nat]
           /\ permits' \subseteq Node
           /\ PoolsExact'
<1>1. n \in permits
  BY DEF DropPermit
<1>2. ASSUME NEW p \in Pool
      PROVE  /\ Credit(p, n) \in Nat
             /\ Credit(p, n)
                  + Cardinality(Tokens(permits \ {n}, Draw(p))) = Capacity[p]
  <2>1. PICK f \in [Node -> Nat] : f = Draw(p) /\ f[n] = Cost[n][p]
    BY DrawType
  <2>2. free[p] \in Nat /\ free[p] + Cardinality(Tokens(permits, f)) = Capacity[p]
    BY <2>1 DEF PoolsExact
  <2>3. Credit(p, n) = IF free[p] + f[n] > Capacity[p] THEN Capacity[p] ELSE free[p] + f[n]
    BY <2>1 DEF Credit
  <2>4. QED
    BY <1>1, <2>1, <2>2, <2>3, CreditIsPaired
<1>3. free' = [p \in Pool |-> Credit(p, n)] /\ permits' = permits \ {n}
  BY DEF DropPermit
<1>4. free' \in [Pool -> Nat] /\ permits' \subseteq Node
  BY <1>2, <1>3
<1>5. PoolsExact'
  BY <1>2, <1>3 DEF PoolsExact, Tokens, Draw
<1>6. QED
  BY <1>4, <1>5

-----------------------------------------------------------------------------
(* The invariant.                                                           *)

IInv == TypeOK /\ ExactAccounting /\ ZombiesAreHeld /\ WaitersHoldNothing

\* Dropping a permit takes its zombie record with it, and only that one.
LEMMA DropKeepsZombies ==
    ASSUME TypeOK, ZombiesAreHeld, NEW n \in Node, DropPermit(n)
    PROVE  zombies' \in Seq(Node) /\ ZombiesAreHeld'
<1>1. /\ zombies \in Seq(Node) /\ DOMAIN zombies = 1..Len(zombies)
      /\ zombies' = RemoveFirst(zombies, n) /\ permits' = permits \ {n}
  BY DEF TypeOK, DropPermit
<1>2. \/ /\ \A i \in 1..Len(zombies) : zombies[i] # n
         /\ zombies' = zombies
      \/ \E i \in 1..Len(zombies) :
           zombies[i] = n /\ zombies' = RemoveAt(zombies, i)
  BY <1>1, RemoveFirstIsRemoveAt
<1>3. CASE /\ \A i \in 1..Len(zombies) : zombies[i] # n
           /\ zombies' = zombies
  BY <1>1, <1>3 DEF ZombiesAreHeld
<1>4. CASE \E i \in 1..Len(zombies) :
             zombies[i] = n /\ zombies' = RemoveAt(zombies, i)
  <2>1. PICK i \in 1..Len(zombies) :
               zombies[i] = n /\ zombies' = RemoveAt(zombies, i)
    BY <1>4
  <2>2. Distinct(zombies)
    BY DEF ZombiesAreHeld, Distinct
  <2>3. /\ zombies' \in Seq(Node) /\ Distinct(zombies')
        /\ \A k \in DOMAIN zombies' :
             zombies'[k] # n /\ \E j \in DOMAIN zombies : zombies'[k] = zombies[j]
    BY <1>1, <2>1, <2>2, RemoveAtDistinct
  <2>4. QED
    BY <1>1, <2>3 DEF ZombiesAreHeld, Distinct
<1>5. QED
  BY <1>2, <1>3, <1>4

\* The initial state.
LEMMA InitHolds == Init => IInv
<1> SUFFICES ASSUME Init PROVE IInv
  OBVIOUS
<1>1. \A f : Cardinality(Tokens({}, f)) = 0
  <2>1. \A f : Tokens({}, f) = {}
    BY DEF Tokens
  <2>2. QED
    BY <2>1, FS_EmptySet
<1>2. \A p \in Pool : Capacity[p] \in Nat /\ Capacity[p] + 0 = Capacity[p]
  BY PoolAssumption
<1>3. /\ free = Capacity /\ permits = {} /\ zombies = << >> /\ waiters = << >>
      /\ polling = FALSE /\ resident = 0 /\ leases = {} /\ asked = {}
  BY DEF Init, InitLedger
<1>4. ExactAccounting
  <2>1. ASSUME NEW p \in Pool
        PROVE  free[p] + Cardinality(Tokens(permits, Draw(p))) = Capacity[p]
    BY <1>1, <1>2, <1>3
  <2>2. resident = Cardinality(Tokens(leases, Residency))
    BY <1>1, <1>3
  <2>3. QED
    BY <2>1, <2>2 DEF ExactAccounting
<1>5. ZombiesAreHeld /\ WaitersHoldNothing
  BY <1>3 DEF ZombiesAreHeld, WaitersHoldNothing
<1>6. TypeOK
  <2>1. << >> \in Seq(Node)
    BY EmptySeq
  <2>2. free \in [Pool -> Nat] /\ FALSE \in BOOLEAN /\ resident \in Nat
    BY <1>3, PoolAssumption
  <2>3. QED
    BY <1>3, <2>1, <2>2, Zenon DEF TypeOK
<1>7. QED
  BY <1>4, <1>5, <1>6 DEF IInv

\* Every step.
LEMMA StepKeeps == IInv /\ [Next]_vars => IInv'
<1> SUFFICES ASSUME IInv, [Next]_vars PROVE IInv'
  OBVIOUS
<1>1. /\ free \in [Pool -> Nat] /\ permits \subseteq Node /\ PoolsExact
      /\ zombies \in Seq(Node) /\ waiters \in Seq(Node) /\ polling \in BOOLEAN
      /\ resident \in Nat /\ leases \subseteq Node /\ asked \subseteq Node
      /\ resident = Cardinality(Tokens(leases, Residency))
      /\ ZombiesAreHeld /\ WaitersHoldNothing
  BY DEF IInv, TypeOK, ExactAccounting, PoolsExact
<1> DEFINE PoolsOK == /\ free \in [Pool -> Nat] /\ permits \subseteq Node
                      /\ PoolsExact
                      /\ zombies \in Seq(Node) /\ ZombiesAreHeld
           QueueOK == /\ waiters \in Seq(Node) /\ WaitersHoldNothing
                      /\ polling \in BOOLEAN /\ asked \subseteq Node
           OutputOK == /\ resident \in Nat /\ leases \subseteq Node
                       /\ resident = Cardinality(Tokens(leases, Residency))
<1>2. ASSUME PoolsOK', QueueOK', OutputOK' PROVE IInv'
  BY <1>2 DEF IInv, TypeOK, ExactAccounting, PoolsExact
<1>3. ASSUME UNCHANGED ledger PROVE PoolsOK'
  BY <1>1, <1>3 DEF ledger, PoolsExact, ZombiesAreHeld
<1>4. ASSUME NEW n \in Node, n \notin permits, Fits(n), Charge(n), UNCHANGED zombies
      PROVE  PoolsOK'
  <2>1. ZombiesAreHeld'
    BY <1>1, <1>4 DEF ZombiesAreHeld, Charge
  <2>2. QED
    BY <1>1, <1>4, <2>1, ChargeIsExact
<1>5. ASSUME UNCHANGED <<resident, leases>> PROVE OutputOK'
  BY <1>1, <1>5
<1>6. ASSUME UNCHANGED <<waiters, polling, asked>>, permits' \subseteq permits
      PROVE  QueueOK'
  BY <1>1, <1>6 DEF WaitersHoldNothing
<1> HIDE DEF PoolsOK, QueueOK, OutputOK
<1>7. ASSUME NEW n \in Node, Offer(n) PROVE IInv'
  <2>1. /\ waiters' = Append(waiters, n) /\ asked' = asked \cup {n}
        /\ n \notin permits /\ \A i \in DOMAIN waiters : waiters[i] # n
        /\ UNCHANGED <<ledger, polling, resident, leases>> /\ permits' = permits
    BY <1>7 DEF Offer, MayAsk, Waiting, ledger
  <2>2. Distinct(waiters)
    BY <1>1 DEF WaitersHoldNothing, Distinct
  <2>3. /\ waiters' \in Seq(Node) /\ Distinct(waiters')
        /\ \A k \in DOMAIN waiters' :
             waiters'[k] = n \/ \E j \in DOMAIN waiters : waiters'[k] = waiters[j]
    BY <1>1, <2>1, <2>2, AppendDistinct
  <2>4. QueueOK'
    BY <1>1, <2>1, <2>3 DEF QueueOK, WaitersHoldNothing, Distinct
  <2>5. QED
    BY <1>2, <1>3, <1>5, <2>1, <2>4
<1>8. ASSUME NEW n \in Node, Admit(n) PROVE IInv'
  <2>1. /\ n \notin permits /\ Fits(n) /\ Charge(n) /\ UNCHANGED zombies
        /\ \A i \in DOMAIN waiters : waiters[i] # n
        /\ asked' = asked \cup {n} /\ permits' = permits \cup {n}
        /\ UNCHANGED <<waiters, polling, resident, leases>>
    BY <1>8 DEF Admit, TryAdmit, MayAsk, Waiting, Charge
  <2>2. QueueOK'
    BY <1>1, <2>1 DEF QueueOK, WaitersHoldNothing
  <2>3. QED
    BY <1>2, <1>4, <1>5, <2>1, <2>2
<1>9. ASSUME Poll \/ PollDone PROVE IInv'
  <2>1. /\ UNCHANGED <<ledger, waiters, resident, leases, asked>>
        /\ polling' \in BOOLEAN /\ permits' = permits
    BY <1>9 DEF Poll, PollDone, ledger
  <2>2. QueueOK'
    BY <1>1, <2>1 DEF QueueOK, WaitersHoldNothing
  <2>3. QED
    BY <1>2, <1>3, <1>5, <2>1, <2>2
<1>10. ASSUME AdmitNext PROVE IInv'
  <2>1. PICK i \in DOMAIN waiters :
          /\ Fits(waiters[i]) /\ Charge(waiters[i])
          /\ waiters' = RemoveAt(waiters, i)
          /\ UNCHANGED <<zombies, polling, resident, leases, asked>>
    BY <1>10 DEF AdmitNext, NextAdmissible
  <2>2. /\ waiters[i] \in Node /\ waiters[i] \notin permits
        /\ permits' = permits \cup {waiters[i]} /\ i \in 1..Len(waiters)
    BY <1>1, <2>1 DEF WaitersHoldNothing, Charge
  <2>3. Distinct(waiters)
    BY <1>1 DEF WaitersHoldNothing, Distinct
  <2>4. /\ waiters' \in Seq(Node) /\ Distinct(waiters')
        /\ \A k \in DOMAIN waiters' :
             /\ waiters'[k] # waiters[i]
             /\ \E j \in DOMAIN waiters : waiters'[k] = waiters[j]
    BY <1>1, <2>1, <2>2, <2>3, RemoveAtDistinct
  <2>5. QueueOK'
    BY <1>1, <2>1, <2>2, <2>4 DEF QueueOK, WaitersHoldNothing, Distinct
  <2>6. QED
    BY <1>2, <1>4, <1>5, <2>1, <2>2, <2>5
<1>11. ASSUME NEW n \in Node, TimeOut(n) PROVE IInv'
  <2>1. /\ n \in permits /\ zombies' = Append(zombies, n)
        /\ \A i \in DOMAIN zombies : zombies[i] # n
        /\ UNCHANGED <<free, permits, waiters, polling, resident, leases, asked>>
    BY <1>11 DEF TimeOut, MarkZombie
  <2>2. Distinct(zombies)
    BY <1>1 DEF ZombiesAreHeld, Distinct
  <2>3. /\ zombies' \in Seq(Node) /\ Distinct(zombies')
        /\ \A k \in DOMAIN zombies' :
             zombies'[k] = n \/ \E j \in DOMAIN zombies : zombies'[k] = zombies[j]
    BY <1>1, <2>1, <2>2, AppendDistinct
  <2>4. PoolsOK'
    <3>1. ZombiesAreHeld'
      BY <1>1, <2>1, <2>3 DEF ZombiesAreHeld, Distinct
    <3>2. PoolsExact'
      BY <1>1, <2>1 DEF PoolsExact
    <3>3. QED
      BY <1>1, <2>1, <2>3, <3>1, <3>2 DEF PoolsOK
  <2>5. QED
    BY <1>2, <1>5, <1>6, <2>1, <2>4
<1>12. ASSUME NEW n \in Node, Return(n) PROVE IInv'
  <2>1. /\ DropPermit(n) /\ permits' = permits \ {n}
        /\ UNCHANGED <<waiters, polling, resident, leases, asked>>
    BY <1>12 DEF Return, DropPermit
  <2>2. PoolsOK'
    BY <1>1, <2>1, DropIsExact, DropKeepsZombies DEF IInv, PoolsOK
  <2>3. QED
    BY <1>2, <1>5, <1>6, <2>1, <2>2
<1>13. ASSUME NEW n \in Node, Produce(n) PROVE IInv'
  <2>1. /\ n \notin leases /\ leases' = leases \cup {n}
        /\ resident' = resident + Residency[n] /\ Residency[n] \in Nat
        /\ UNCHANGED <<ledger, waiters, polling, asked>> /\ permits' = permits
    BY <1>13, MemoryAssumption DEF Produce, ledger
  <2>2. Cardinality(Tokens(leases', Residency))
          = Cardinality(Tokens(leases, Residency)) + Residency[n]
    BY <1>1, <2>1, TokensAdd, MemoryAssumption
  <2>3. OutputOK'
    BY <1>1, <2>1, <2>2 DEF OutputOK
  <2>4. QED
    BY <1>2, <1>3, <1>6, <2>1, <2>3
<1>14. ASSUME NEW n \in Node, ReleaseOutput(n) PROVE IInv'
  <2>1. /\ n \in leases /\ leases' = leases \ {n}
        /\ resident' = resident - Residency[n] /\ Residency[n] \in Nat
        /\ UNCHANGED <<ledger, waiters, polling, asked>> /\ permits' = permits
    BY <1>14, MemoryAssumption DEF ReleaseOutput, ledger
  <2>2. Cardinality(Tokens(leases, Residency))
          = Cardinality(Tokens(leases', Residency)) + Residency[n]
    BY <1>1, <2>1, TokensRemove, MemoryAssumption
  <2>3. Cardinality(Tokens(leases', Residency)) \in Nat
    <3>1. leases' \in SUBSET Node
      BY <1>1, <2>1
    <3>2. QED
      BY <3>1, TokensCount, MemoryAssumption
  <2>4. resident' = Cardinality(Tokens(leases', Residency))
    BY <1>1, <2>1, <2>2, <2>3
  <2>5. OutputOK'
    BY <1>1, <2>1, <2>3, <2>4 DEF OutputOK
  <2>6. QED
    BY <1>2, <1>3, <1>6, <2>1, <2>5
<1>15. ASSUME UNCHANGED vars PROVE IInv'
  <2>1. UNCHANGED <<ledger, waiters, polling, resident, leases, asked>>
        /\ permits' = permits
    BY <1>15 DEF vars, ledger
  <2>2. QED
    BY <1>2, <1>3, <1>5, <1>6, <2>1
<1>16. QED
  BY <1>7, <1>8, <1>9, <1>10, <1>11, <1>12, <1>13, <1>14, <1>15 DEF Next

\* The inductive invariant holds throughout: typing, exact books, one zombie
\* record per held permit, no waiter that holds a permit.
THEOREM InvariantHolds == Spec => []IInv
<1>1. Init => IInv
  BY InitHolds
<1>2. IInv /\ [Next]_vars => IInv'
  BY StepKeeps
<1>3. QED
  BY <1>1, <1>2, PTL DEF Spec

\* The state stays well-typed; in particular no pool is ever charged below
\* zero, where the code's unsigned subtraction would panic.
THEOREM LedgerTyped == Spec => []TypeOK
<1>1. IInv => TypeOK
  BY DEF IInv
<1>2. QED
  BY <1>1, InvariantHolds, PTL

\* The pools and the residency ledger are exact in every reachable state of
\* every configuration, with any number of zombies, and a zombie record never
\* outlives its permit.
THEOREM LedgerExact == Spec => []AdmissionBooks
<1>1. IInv => AdmissionBooks
  BY DEF IInv, AdmissionBooks
<1>2. QED
  BY <1>1, InvariantHolds, PTL

\* A node in the waiting queue never holds a permit, and is there once.
THEOREM WaitersAreIdle == Spec => []WaitersHoldNothing
<1>1. IInv => WaitersHoldNothing
  BY DEF IInv
<1>2. QED
  BY <1>1, InvariantHolds, PTL

\* All-or-nothing acquisition never leaves waiters facing an empty machine.
THEOREM NoTwoPoolDeadlock == Spec => []EmptyMachineAdmits
<1>1. ASSUME IInv PROVE EmptyMachineAdmits
  <2> SUFFICES ASSUME permits = {}, NEW n \in Waiting, CanEverFit(n), NEW p \in Pool
               PROVE  Cost[n][p] <= free[p]
    BY DEF EmptyMachineAdmits, Fits
  <2>1. Tokens({}, Draw(p)) = {} /\ Cardinality({}) = 0
    BY FS_EmptySet DEF Tokens
  <2>2. free[p] + 0 = Capacity[p] /\ free[p] \in Nat
    BY <1>1, <2>1 DEF IInv, TypeOK, ExactAccounting
  <2>3. QED
    BY <2>2 DEF CanEverFit
<1>2. QED
  BY <1>1, InvariantHolds, PTL

-----------------------------------------------------------------------------
(* The output slots *)

\* The three counters of a slot count what happened to it.
SlotCounted(s) ==
    /\ open[s] = Cardinality(Inside(s))
    /\ returned[s] = Cardinality(Back(s))
    /\ ended[s] = Cardinality(AtEnd(s))

\* Leases are entered by consumers that lease, on slots that were filled, and
\* are alive only while their closure runs; whoever holds an Arc may read.
LeasesSound ==
    /\ \A n, s \in Node : <<n, s>> \in entered =>
         n \in Leasing /\ s \in Inputs[n] /\ content[s] # "empty"
    /\ \A n, s \in Node : <<n, s>> \in held => Live(n)
    /\ \A n, s \in Node : <<n, s>> \in arcs => Reads(n, s)
    /\ \A n \in Node : Live(n) => \A s \in Inputs[n] : content[s] # "empty"

\* Why a value may be gone: the run is over, or its owner took it, or every
\* consumer came and returned.
GoneSound == \A s \in Node : content[s] = "released" =>
    \/ RunOver
    \/ \E n \in Owner : s \in Inputs[n]
    \/ Consumers(s) = Back(s)

\* The ledger counts the bytes of the values in the slots.
LedgerTrue == /\ current = Cardinality(Bytes) /\ current <= peak
              /\ \A s \in Node : freed[s] <=> content[s] = "released"

SlotInv ==
    /\ SlotTypes
    /\ \A s \in Node : SlotCounted(s)
    /\ LedgerTrue
    /\ LeasesSound /\ GoneSound /\ NothingKeptTooLong
-----------------------------------------------------------------------------
\* Any set of nodes has a number of members, no more than the set around it.
LEMMA NodeSets ==
    ASSUME NEW S \in SUBSET Node
    PROVE  /\ IsFiniteSet(S) /\ Cardinality(S) \in Nat
           /\ \A T \in SUBSET S : /\ Cardinality(T) <= Cardinality(S)
                                  /\ Cardinality(T) = Cardinality(S) => T = S
<1>1. IsFiniteSet(S)
  BY NodeAssumption, FS_Subset
<1>2. QED
  BY <1>1, FS_Subset, FS_CardinalityType

\* One node more, one node less.
LEMMA OneMore ==
    ASSUME NEW S \in SUBSET Node, NEW n \in Node, n \notin S
    PROVE  Cardinality(S \cup {n}) = Cardinality(S) + 1
  BY NodeSets, FS_AddElement

\* A set of nodes without one of its members is smaller by one.
LEMMA OneLess ==
    ASSUME NEW S \in SUBSET Node, NEW n \in S
    PROVE  Cardinality(S \ {n}) = Cardinality(S) - 1
  BY NodeSets, FS_RemoveElement

\* Nothing has happened to any slot at the start.
LEMMA SlotInitHolds == SlotInit => SlotInv
<1> SUFFICES ASSUME SlotInit PROVE SlotInv
  OBVIOUS
<1>1. SlotTypes
  BY DEF SlotInit, SlotTypes
<1>2. ASSUME NEW s \in Node PROVE SlotCounted(s)
  <2>1. Inside(s) = {} /\ Back(s) = {} /\ AtEnd(s) = {}
    BY DEF SlotInit, Inside, Back, AtEnd
  <2>2. QED
    BY <2>1, FS_EmptySet DEF SlotInit, SlotCounted
<1>5. LedgerTrue
  <2>1. Resident = {} /\ Bytes = {}
    BY DEF SlotInit, Resident, Bytes, Tokens
  <2>2. QED
    BY <2>1, FS_EmptySet DEF SlotInit, LedgerTrue
<1>3. LeasesSound /\ GoneSound /\ NothingKeptTooLong
  BY DEF SlotInit, LeasesSound, GoneSound, NothingKeptTooLong, Live, Back
<1>4. QED
  BY <1>1, <1>2, <1>3, <1>5 DEF SlotInv

\* A step that touches no lease leaves the counters true.
LEMMA SameCounts ==
    ASSUME \A s \in Node : SlotCounted(s),
           UNCHANGED <<open, ended, returned, entered, held, marked>>
    PROVE  (\A s \in Node : SlotCounted(s))'
<1>1. ASSUME NEW s \in Node
      PROVE  Inside(s)' = Inside(s) /\ Back(s)' = Back(s) /\ AtEnd(s)' = AtEnd(s)
  BY DEF Inside, Back, AtEnd
<1>2. QED
  BY <1>1 DEF SlotCounted

\* The ledger follows when a value leaves its slot.
LEMMA GiveBackKeepsLedger ==
    ASSUME SlotInv, NEW s \in Node, content[s] = "filled", GiveBack(s),
           content' = [content EXCEPT ![s] = "released"]
    PROVE  /\ LedgerTrue' /\ current' \in Nat /\ peak' \in Nat
           /\ freed' \in [Node -> BOOLEAN]
<1>1. s \in Resident /\ Resident \in SUBSET Node /\ OutputBytes \in [Node -> Nat]
  BY SlotAssumption DEF Resident
<1>2. Resident' = Resident \ {s}
  BY DEF Resident, SlotInv, SlotTypes
<1>3. Cardinality(Bytes) = Cardinality(Bytes') + OutputBytes[s]
  BY <1>1, <1>2, TokensRemove DEF Bytes
<1>4. Cardinality(Bytes') \in Nat
  BY <1>1, <1>2, TokensCount DEF Bytes
<1>5. current' = current - OutputBytes[s] /\ peak' = peak
  BY DEF GiveBack, SlotInv, LedgerTrue, SlotTypes
<1>6. current = Cardinality(Bytes) /\ current <= peak /\ peak \in Nat /\ OutputBytes[s] \in Nat
  BY <1>1 DEF SlotInv, LedgerTrue, SlotTypes
<1>7. current' = Cardinality(Bytes') /\ current' <= peak'
  BY <1>3, <1>4, <1>5, <1>6
<1>8. freed' \in [Node -> BOOLEAN] /\ \A t \in Node : freed'[t] <=> content'[t] = "released"
  BY DEF GiveBack, SlotInv, LedgerTrue, SlotTypes
<1>9. QED
  BY <1>4, <1>5, <1>6, <1>7, <1>8 DEF LedgerTrue

\* And when a value comes into its slot.
LEMMA FillKeepsLedger ==
    ASSUME SlotInv, NEW s \in Node, Fill(s)
    PROVE  LedgerTrue' /\ current' \in Nat /\ peak' \in Nat
<1>1. s \notin Resident /\ Resident \in SUBSET Node /\ OutputBytes \in [Node -> Nat]
  BY SlotAssumption DEF Resident, Fill, MayFill
<1>2. Resident' = Resident \cup {s}
  BY DEF Resident, Fill, SlotInv, SlotTypes
<1>3. Cardinality(Bytes') = Cardinality(Bytes) + OutputBytes[s]
  BY <1>1, <1>2, TokensAdd DEF Bytes
<1>4. current = Cardinality(Bytes) /\ current \in Nat /\ peak \in Nat /\ OutputBytes[s] \in Nat
  BY <1>1 DEF SlotInv, LedgerTrue, SlotTypes
<1>5. current' = Cardinality(Bytes') /\ current' <= peak' /\ current' \in Nat /\ peak' \in Nat
  BY <1>3, <1>4 DEF Fill
<1>6. \A t \in Node : freed'[t] <=> content'[t] = "released"
  BY DEF Fill, MayFill, SlotInv, LedgerTrue, SlotTypes
<1>7. QED
  BY <1>5, <1>6 DEF LedgerTrue

\* The drop of a lease adds its consumer to those that are back and at the end.
LEMMA DropCounts ==
    ASSUME SlotInv, NEW n \in Node, NEW s \in Node, DropLease(n, s)
    PROVE  /\ (\A t \in Node : SlotCounted(t))'
           /\ Back(s)' = Back(s) \cup {n} /\ Inside(s)' = Inside(s) \ {n}
           /\ \A t \in Node \ {s} : Back(t)' = Back(t)
           /\ returned'[s] = returned[s] + 1
<1>1. <<n, s>> \in held /\ <<n, s>> \in entered
  BY DEF DropLease, SlotInv, SlotTypes
<1>2. /\ held' = held \ {<<n, s>>} /\ entered' = entered /\ marked' = marked
      /\ \A t \in Node \ {s} : /\ open'[t] = open[t] /\ returned'[t] = returned[t]
                               /\ ended'[t] = ended[t]
  BY DEF DropLease, SlotInv, SlotTypes
<1>3. /\ Inside(s)' = Inside(s) \ {n} /\ n \in Inside(s)
      /\ Back(s)' = Back(s) \cup {n} /\ n \notin Back(s)
      /\ AtEnd(s)' = AtEnd(s) \cup {n} /\ (n \in AtEnd(s) <=> <<n, s>> \in marked)
  BY <1>1, <1>2 DEF Inside, Back, AtEnd, SlotInv, SlotTypes
<1>4. ASSUME NEW t \in Node \ {s}
      PROVE  Inside(t)' = Inside(t) /\ Back(t)' = Back(t) /\ AtEnd(t)' = AtEnd(t)
  BY <1>2 DEF Inside, Back, AtEnd
<1>5. /\ Inside(s) \in SUBSET Node /\ Back(s) \in SUBSET Node /\ AtEnd(s) \in SUBSET Node
  BY DEF Inside, Back, AtEnd
<1>6. SlotCounted(s) /\ Cardinality(Inside(s)) \in Nat
  BY <1>5, NodeSets DEF SlotInv
<1>7. Cardinality(Inside(s)') = open[s] - 1 /\ open[s] > 0
  <2>1. Cardinality(Inside(s) \ {n}) = Cardinality(Inside(s)) - 1
    BY <1>3, <1>5, OneLess
  <2>2. Cardinality(Inside(s) \ {n}) \in Nat
    BY <1>5, NodeSets
  <2>3. QED
    BY <1>3, <1>6, <2>1, <2>2 DEF SlotCounted
<1>8. Cardinality(Back(s)') = returned[s] + 1
  BY <1>3, <1>5, <1>6, OneMore DEF SlotCounted
<1>9. Cardinality(AtEnd(s)') = IF <<n, s>> \in marked THEN ended[s] ELSE ended[s] + 1
  <2>1. CASE <<n, s>> \in marked
    <3>1. AtEnd(s)' = AtEnd(s)
      BY <1>3, <2>1
    <3>2. QED
      BY <3>1, <2>1, <1>6 DEF SlotCounted
  <2>2. CASE <<n, s>> \notin marked
    BY <1>3, <1>5, <1>6, <2>2, OneMore DEF SlotCounted
  <2>3. QED
    BY <2>1, <2>2
<1>10. /\ open'[s] = open[s] - 1 /\ returned'[s] = returned[s] + 1
       /\ ended'[s] = IF <<n, s>> \in marked THEN ended[s] ELSE ended[s] + 1
  BY <1>7 DEF DropLease, SlotInv, SlotTypes
<1>11. SlotCounted(s)'
  BY <1>7, <1>8, <1>9, <1>10 DEF SlotCounted
<1>12. ASSUME NEW t \in Node \ {s} PROVE SlotCounted(t)'
  BY <1>2, <1>4 DEF SlotCounted, SlotInv
<1>13. QED
  BY <1>3, <1>4, <1>10, <1>11, <1>12

\* Everyone back means the counts that try_release asks for are reached.
LEMMA AllBackReleases ==
    ASSUME SlotInv, NEW n \in Node, NEW s \in Node \ Retained, DropLease(n, s),
           content[s] = "filled", Consumers(s) = Back(s)'
    PROVE  content'[s] = "released"
<1>1. /\ SlotCounted(s)' /\ Inside(s)' = Inside(s) \ {n} /\ returned'[s] = returned[s] + 1
  BY DropCounts
<1>2. /\ Inside(s)' \in SUBSET Node /\ Back(s)' \in SUBSET Node /\ AtEnd(s)' \in SUBSET Node
  BY DEF Inside, Back, AtEnd
<1>3. Inside(s)' = {}
  <2>1. ASSUME NEW m \in Inside(s)' PROVE FALSE
    <3>1. m \in Node /\ <<m, s>> \in held' /\ <<m, s>> \in entered /\ <<m, s>> \in held
      BY <1>1 DEF Inside, DropLease, SlotInv, SlotTypes
    <3>2. m \in Consumers(s)
      BY <3>1 DEF SlotInv, LeasesSound, Consumers
    <3>3. QED
      BY <3>1, <3>2 DEF Back
  <2>2. QED
    BY <2>1
<1>4. Back(s)' \subseteq AtEnd(s)'
  BY DEF Back, AtEnd
<1>5. /\ open'[s] = 0 /\ returned'[s] = Total(s) /\ ended'[s] >= Total(s)
  <2>1. Cardinality(Back(s)') <= Cardinality(AtEnd(s)') /\ Cardinality(AtEnd(s)') \in Nat
    BY <1>2, <1>4, NodeSets
  <2>2. Cardinality(Back(s)') \in Nat
    BY <1>2, NodeSets
  <2>3. Cardinality(Inside(s)') = 0
    BY <1>3, FS_EmptySet
  <2>4. QED
    BY <1>1, <2>1, <2>2, <2>3 DEF SlotCounted, Total
<1> DEFINE e == IF <<n, s>> \in marked THEN ended[s] ELSE ended[s] + 1
           r == returned[s] + 1
           o == IF open[s] > 0 THEN open[s] - 1 ELSE 0
<1>6. e = ended'[s] /\ r = returned'[s] /\ o = open'[s]
  BY DEF DropLease, SlotInv, SlotTypes
<1>7. Total(s) \in Nat
  <2>1. Consumers(s) \in SUBSET Node
    BY DEF Consumers
  <2>2. QED
    BY <2>1, NodeSets DEF Total
<1>8. Releases(s, e, r, o)
  BY <1>5, <1>6, <1>7 DEF Releases
<1>9. QED
  BY <1>8 DEF DropLease, SlotInv, SlotTypes

\* A drop that releases is the drop of the last consumer.
LEMMA ReleaseIsLast ==
    ASSUME SlotInv, NEW n \in Node, NEW s \in Node, DropLease(n, s),
           content[s] = "filled", content'[s] # "filled"
    PROVE  Consumers(s) = Back(s)'
<1> DEFINE e == IF <<n, s>> \in marked THEN ended[s] ELSE ended[s] + 1
           r == returned[s] + 1
           o == IF open[s] > 0 THEN open[s] - 1 ELSE 0
<1>1. Releases(s, e, r, o)
  BY DEF DropLease
<1>2. r >= Total(s)
  BY <1>1 DEF Releases
<1>3. SlotCounted(s)' /\ returned'[s] = r /\ Back(s)' = Back(s) \cup {n}
  BY DropCounts
<1>4. Back(s)' \in SUBSET Consumers(s)
  BY DEF Back, Consumers, DropLease, SlotInv, LeasesSound
<1>5. Consumers(s) \in SUBSET Node
  BY DEF Consumers
<1>6. /\ Cardinality(Back(s)') <= Total(s) /\ Total(s) \in Nat
      /\ Cardinality(Back(s)') = Total(s) => Back(s)' = Consumers(s)
  BY <1>4, <1>5, NodeSets DEF Total
<1>7. Cardinality(Back(s)') = r
  BY <1>3 DEF SlotCounted
<1>8. r \in Nat
  BY DEF SlotInv, SlotTypes
<1>9. QED
  BY <1>2, <1>6, <1>7, <1>8

\* What the drop of a lease leaves true.
LEMMA DropKeeps ==
    ASSUME SlotInv, NEW n \in Node, NEW s \in Node, DropLease(n, s)
    PROVE  SlotInv'
<1>1. /\ (\A t \in Node : SlotCounted(t))' /\ Back(s)' = Back(s) \cup {n}
      /\ \A t \in Node \ {s} : Back(t)' = Back(t)
  BY DropCounts
<1>2. /\ \A t \in Node \ {s} : content'[t] = content[t]
      /\ content'[s] = content[s] \/ (content[s] = "filled" /\ content'[s] = "released")
      /\ content' \in [Node -> {"empty", "filled", "released"}]
  BY DEF DropLease, Releases, GiveBack, SlotInv, SlotTypes
<1>8. /\ LedgerTrue' /\ current' \in Nat /\ peak' \in Nat
      /\ freed' \in [Node -> BOOLEAN]
  <2>1. CASE UNCHANGED <<content, freed, residency>>
    <3>1. Bytes' = Bytes
      BY <2>1 DEF Bytes, Resident
    <3>2. QED
      BY <2>1, <3>1 DEF residency, SlotInv, LedgerTrue, SlotTypes
  <2>2. CASE /\ content[s] = "filled" /\ GiveBack(s)
             /\ content' = [content EXCEPT ![s] = "released"]
    BY <2>2, GiveBackKeepsLedger
  <2>3. QED
    BY <2>1, <2>2 DEF DropLease, Releases
<1>3. SlotTypes'
  <2>1. open' \in [Node -> Nat] /\ ended' \in [Node -> Nat] /\ returned' \in [Node -> Nat]
    BY DEF DropLease, SlotInv, SlotTypes
  <2>2. current' \in Nat /\ peak' \in Nat /\ freed' \in [Node -> BOOLEAN]
    BY <1>8 DEF SlotInv, SlotTypes
  <2>3. QED
    BY <1>2, <2>1, <2>2 DEF DropLease, SlotInv, SlotTypes
<1>4. LeasesSound'
  <2>1. \A t \in Node : content[t] # "empty" => content'[t] # "empty"
    BY <1>2
  <2>2. /\ phase' = phase /\ entered' = entered /\ arcs' = arcs
        /\ held' = held \ {<<n, s>>} /\ <<n, s>> \notin arcs
    BY DEF DropLease
  <2>3. ASSUME NEW m \in Node, NEW t \in Node, <<m, t>> \in arcs PROVE Reads(m, t)'
    <3>1. Reads(m, t) /\ <<m, t>> # <<n, s>>
      BY <2>2, <2>3 DEF SlotInv, LeasesSound
    <3>2. QED
      BY <2>2, <3>1 DEF Reads, Live
  <2>4. Inputs \in [Node -> SUBSET Node]
    BY SlotAssumption
  <2>5. QED
    BY <2>1, <2>2, <2>3, <2>4 DEF SlotInv, LeasesSound, Live
<1>5. GoneSound'
  <2>1. ASSUME NEW t \in Node, content'[t] = "released"
        PROVE  RunOver' \/ (\E m \in Owner : t \in Inputs[m]) \/ (Consumers(t) = Back(t))'
    <3>1. CASE t = s /\ content[s] = "filled"
      BY <2>1, <3>1, ReleaseIsLast DEF Consumers
    <3>2. CASE content[t] = "released" /\ RunOver
      BY <3>2 DEF RunOver, DropLease
    <3>3. CASE content[t] = "released" /\ Consumers(t) = Back(t)
      <4>1. n \in Consumers(s)
        BY DEF DropLease, SlotInv, SlotTypes, LeasesSound, Consumers
      <4>2. Back(t)' = Consumers(t)
        BY <1>1, <3>3, <4>1
      <4>3. Consumers(t)' = Consumers(t)
        BY DEF Consumers
      <4>4. QED
        BY <4>2, <4>3
    <3>4. QED
      BY <1>2, <2>1, <3>1, <3>2, <3>3 DEF SlotInv, GoneSound
  <2>2. QED
    BY <2>1 DEF GoneSound
<1>6. NothingKeptTooLong'
  <2>1. ASSUME NEW t \in Node \ Retained, Consumers(t) # {}, Consumers(t) = Back(t)'
        PROVE  content'[t] # "filled"
    <3>1. CASE t = s
      BY <1>2, <2>1, <3>1, AllBackReleases
    <3>2. CASE t # s
      BY <1>1, <1>2, <2>1, <3>2 DEF SlotInv, NothingKeptTooLong
    <3>3. QED
      BY <3>1, <3>2
  <2>2. Consumers(s)' = Consumers(s)
    BY DEF Consumers
  <2>3. QED
    BY <2>1 DEF NothingKeptTooLong, Consumers
<1>7. QED
  BY <1>1, <1>3, <1>4, <1>5, <1>6, <1>8 DEF SlotInv

\* A lease is entered by a consumer that was in none.
LEMMA EnterKeeps ==
    ASSUME SlotInv, NEW n \in Node, NEW s \in Node, Enter(n, s)
    PROVE  SlotInv'
<1>1. /\ Inside(s)' = Inside(s) \cup {n} /\ n \notin Inside(s)
      /\ Back(s)' = Back(s) /\ AtEnd(s)' = AtEnd(s)
  BY DEF Enter, Inside, Back, AtEnd, SlotInv, SlotTypes
<1>2. ASSUME NEW t \in Node \ {s}
      PROVE  Inside(t)' = Inside(t) /\ Back(t)' = Back(t) /\ AtEnd(t)' = AtEnd(t)
  BY DEF Enter, Inside, Back, AtEnd
<1>3. Inside(s) \in SUBSET Node
  BY DEF Inside
<1>4. Cardinality(Inside(s) \cup {n}) = Cardinality(Inside(s)) + 1
  BY <1>1, <1>3, OneMore
<1>5. (\A t \in Node : SlotCounted(t))'
  <2>1. SlotCounted(s)'
    BY <1>1, <1>4 DEF Enter, SlotCounted, SlotInv, SlotTypes
  <2>2. ASSUME NEW t \in Node \ {s} PROVE SlotCounted(t)'
    BY <1>2 DEF Enter, SlotCounted, SlotInv, SlotTypes
  <2>3. QED
    BY <2>1, <2>2
<1>6. SlotTypes' /\ LedgerTrue'
  BY DEF Enter, SlotInv, SlotTypes, LedgerTrue, residency, Bytes, Resident
<1>7. LeasesSound'
  BY DEF Enter, SlotInv, SlotTypes, LeasesSound, Reads, Live
<1>8. GoneSound' /\ NothingKeptTooLong'
  <2>1. \A t \in Node : Back(t)' = Back(t)
    BY <1>1, <1>2
  <2>2. QED
    BY <2>1 DEF Enter, SlotInv, GoneSound, NothingKeptTooLong, RunOver, Consumers
<1>9. QED
  BY <1>5, <1>6, <1>7, <1>8 DEF SlotInv

\* A mark counts its consumer as ended, once.
LEMMA MarkCounts ==
    ASSUME SlotInv, NEW n \in Node, NEW s \in Node, <<n, s>> \in held,
           marked' = marked \cup {<<n, s>>}, UNCHANGED <<open, returned, entered, held>>,
           ended' = IF <<n, s>> \in marked THEN ended ELSE [ended EXCEPT ![s] = @ + 1]
    PROVE  (\A t \in Node : SlotCounted(t) /\ Back(t) = {m \in Node : <<m, t>> \in entered \ held})'
<1>1. /\ AtEnd(s)' = AtEnd(s) \cup {n} /\ (n \in AtEnd(s) <=> <<n, s>> \in marked)
      /\ Back(s)' = Back(s) /\ Inside(s)' = Inside(s)
  BY DEF AtEnd, Back, Inside
<1>2. ASSUME NEW t \in Node \ {s}
      PROVE  Inside(t)' = Inside(t) /\ Back(t)' = Back(t) /\ AtEnd(t)' = AtEnd(t)
  BY DEF Inside, Back, AtEnd
<1>3. AtEnd(s) \in SUBSET Node
  BY DEF AtEnd
<1>4. Cardinality(AtEnd(s)') = IF <<n, s>> \in marked THEN ended[s] ELSE ended[s] + 1
  <2>1. CASE <<n, s>> \in marked
    <3>1. AtEnd(s)' = AtEnd(s)
      BY <1>1, <2>1
    <3>2. QED
      BY <2>1, <3>1 DEF SlotInv, SlotCounted
  <2>2. CASE <<n, s>> \notin marked
    <3>1. Cardinality(AtEnd(s) \cup {n}) = Cardinality(AtEnd(s)) + 1
      BY <1>1, <1>3, <2>2, OneMore
    <3>2. QED
      BY <1>1, <2>2, <3>1 DEF SlotInv, SlotCounted
  <2>3. QED
    BY <2>1, <2>2
<1>5. SlotCounted(s)'
  BY <1>1, <1>4 DEF SlotInv, SlotCounted, SlotTypes
<1>6. ASSUME NEW t \in Node \ {s} PROVE SlotCounted(t)'
  BY <1>2 DEF SlotInv, SlotCounted, SlotTypes
<1>7. QED
  BY <1>5, <1>6 DEF Back

\* The owner takes the value: it alone consumes the slot, so no Arc is alive.
LEMMA TakeKeeps ==
    ASSUME SlotInv, NEW n \in Node, NEW s \in Node, Take(n, s)
    PROVE  SlotInv'
<1>1. s \in Inputs[n] /\ n \in Owner /\ Consumers(s) = {n}
  BY SlotAssumption DEF Take, SlotInv, SlotTypes, LeasesSound
<1>2. ~\E m \in Node : <<m, s>> \in arcs
  BY <1>1 DEF SlotInv, LeasesSound, Reads, Consumers
<1>3. /\ content[s] = "filled" /\ content' = [content EXCEPT ![s] = "released"]
      /\ GiveBack(s) /\ marked' = marked \cup {<<n, s>>} /\ <<n, s>> \in held
      /\ ended' = ended \/ ended' = [ended EXCEPT ![s] = @ + 1]
      /\ UNCHANGED <<open, returned, phase, entered, held, arcs>>
  BY <1>2 DEF Take, TakenFrees
<1>4. (\A t \in Node : SlotCounted(t))'
  BY <1>2, MarkCounts DEF Take
<1>5. /\ LedgerTrue' /\ current' \in Nat /\ peak' \in Nat
      /\ freed' \in [Node -> BOOLEAN]
  BY <1>3, GiveBackKeepsLedger
<1>6. SlotTypes'
  <2>0. SlotTypes
    BY DEF SlotInv
  <2>1. content' \in [Node -> {"empty", "filled", "released"}] /\ ended' \in [Node -> Nat]
    BY <1>3, <2>0 DEF SlotTypes
  <2>2. marked' \subseteq entered
    BY <1>3, <2>0 DEF SlotTypes
  <2>3. QED
    BY <2>0, <1>3, <1>5, <2>1, <2>2 DEF SlotTypes
<1>7. LeasesSound'
  <2>1. \A t \in Node : content[t] # "empty" => content'[t] # "empty"
    BY <1>3 DEF SlotInv, SlotTypes
  <2>2. UNCHANGED <<phase, entered, held, arcs>>
    BY <1>3
  <2>3. Inputs \in [Node -> SUBSET Node]
    BY SlotAssumption
  <2>4. QED
    BY <2>1, <2>2, <2>3 DEF SlotInv, LeasesSound, Reads, Live
<1>8. GoneSound' /\ NothingKeptTooLong'
  <2>1. \A t \in Node : Back(t)' = Back(t)
    BY DEF Take, Back
  <2>2. QED
    BY <1>1, <1>3, <2>1 DEF SlotInv, SlotTypes, GoneSound, NothingKeptTooLong, RunOver, Consumers
<1>9. QED
  BY <1>4, <1>5, <1>6, <1>7, <1>8 DEF SlotInv

\* The driver marks a consumer terminal for one slot.
LEMMA MarkKeeps ==
    ASSUME SlotInv, NEW n \in Node, NEW s \in Node, MarkTerminal(n, s)
    PROVE  SlotInv'
<1>1. (\A t \in Node : SlotCounted(t))'
  BY MarkCounts DEF MarkTerminal
<1>2. SlotTypes' /\ LedgerTrue'
  BY DEF MarkTerminal, SlotInv, SlotTypes, LedgerTrue, residency, Bytes, Resident
<1>3. LeasesSound'
  BY DEF MarkTerminal, SlotInv, SlotTypes, LeasesSound, Reads, Live
<1>4. GoneSound' /\ NothingKeptTooLong'
  <2>1. \A t \in Node : Back(t)' = Back(t)
    BY DEF MarkTerminal, Back
  <2>2. ~RunOver
    BY DEF MarkTerminal, RunOver
  <2>3. QED
    BY <2>1, <2>2 DEF MarkTerminal, SlotInv, GoneSound, NothingKeptTooLong, Consumers
<1>5. QED
  BY <1>1, <1>2, <1>3, <1>4 DEF SlotInv

\* The steps that touch neither leases nor counters.
LEMMA OthersKeep ==
    ASSUME SlotInv, NEW n \in Node,
           Fill(n) \/ Start(n) \/ NeverRuns(n) \/ LetGo(n) \/ Returns(n) \/ Redeem(n)
               \/ \E s \in Node : Read(n, s)
    PROVE  SlotInv'
<1>1. UNCHANGED <<open, ended, returned, entered, held, marked>>
  BY DEF Fill, Start, NeverRuns, LetGo, Returns, Redeem, Read, slots, grants
<1>2. (\A t \in Node : SlotCounted(t))' /\ \A t \in Node : Back(t)' = Back(t)
  BY <1>1, SameCounts DEF SlotInv, Back
<1>3. Inputs \in [Node -> SUBSET Node]
  BY SlotAssumption
<1>4. CASE Fill(n)
  <2>1. SlotTypes' /\ LedgerTrue'
    BY <1>4, FillKeepsLedger DEF Fill, SlotInv, SlotTypes, grants
  <2>2. \A t \in Node : /\ content[t] # "empty" => content'[t] # "empty"
                        /\ content'[t] = "released" => content[t] = "released"
                        /\ content'[t] = "filled" => content[t] = "filled" \/ t = n
    BY <1>4 DEF Fill, SlotInv, SlotTypes
  <2>3. LeasesSound'
    BY <1>3, <1>4, <2>2 DEF Fill, grants, SlotInv, LeasesSound, Reads, Live
  <2>4. GoneSound'
    BY <1>2, <1>4, <2>2 DEF Fill, SlotInv, GoneSound, RunOver, Consumers
  <2>5. NothingKeptTooLong'
    <3>1. Back(n) = {}
      BY <1>4 DEF Fill, MayFill, Back, SlotInv, SlotTypes, LeasesSound
    <3>2. QED
      BY <1>2, <2>2, <3>1 DEF SlotInv, NothingKeptTooLong, Consumers
  <2>6. QED
    BY <1>2, <2>1, <2>3, <2>4, <2>5 DEF SlotInv
<1>5. CASE Redeem(n)
  <2>1. SlotTypes' /\ LedgerTrue'
    BY <1>5, GiveBackKeepsLedger DEF Redeem, SlotInv, SlotTypes, grants
  <2>2. LeasesSound'
    BY <1>3, <1>5 DEF Redeem, grants, SlotInv, SlotTypes, LeasesSound, Reads, Live
  <2>3. GoneSound' /\ NothingKeptTooLong'
    BY <1>2, <1>5 DEF Redeem, SlotInv, SlotTypes, GoneSound, NothingKeptTooLong, RunOver, Consumers
  <2>4. QED
    BY <1>2, <2>1, <2>2, <2>3 DEF SlotInv
<1>6. CASE UNCHANGED <<slots, residency>> /\ ~Fill(n) /\ ~Redeem(n)
  <2>1. SlotTypes' /\ LedgerTrue'
    BY <1>6 DEF Start, NeverRuns, LetGo, Returns, Read, SlotInv, SlotTypes, LedgerTrue, slots,
                residency, grants, Bytes, Resident
  <2>2. LeasesSound'
    <3>1. CASE Start(n) \/ NeverRuns(n)
      BY <1>3, <3>1 DEF Start, NeverRuns, slots, grants, SlotInv, SlotTypes, LeasesSound,
                        Reads, Live
    <3>2. CASE LetGo(n)
      BY <3>2 DEF LetGo, slots, SlotInv, LeasesSound, Reads, Live
    <3>3. CASE Returns(n)
      <4>1. \A s \in Node : <<n, s>> \notin held /\ <<n, s>> \notin arcs
        BY <3>3 DEF Returns, SlotInv, SlotTypes, LeasesSound
      <4>2. \A m \in Node : m # n => phase'[m] = phase[m]
        BY <3>3 DEF Returns, SlotInv, SlotTypes
      <4>3. /\ phase' \in [Node -> {"idle", "running", "zombie", "done", "never"}]
            /\ phase'[n] = "done"
        BY <3>3 DEF Returns, SlotInv, SlotTypes
      <4>4. UNCHANGED <<content, entered, held, arcs>>
        BY <3>3 DEF Returns, slots, grants
      <4>5. QED
        BY <4>1, <4>2, <4>3, <4>4 DEF SlotInv, LeasesSound, Reads, Live
    <3>4. CASE \E s \in Node : Read(n, s)
      BY <3>4 DEF Read, slots, SlotInv, LeasesSound, Reads, Live
    <3>5. QED
      BY <1>6, <3>1, <3>2, <3>3, <3>4
  <2>3. GoneSound' /\ NothingKeptTooLong'
    <3>1. RunOver => RunOver'
      BY DEF RunOver, Start, NeverRuns, LetGo, Returns, Read, Fill, Redeem, Reads, Live, slots,
             grants, SlotInv, SlotTypes
    <3>2. content' = content
      BY <1>6 DEF slots
    <3>3. QED
      BY <1>2, <3>1, <3>2 DEF SlotInv, GoneSound, NothingKeptTooLong, Consumers
  <2>4. QED
    BY <1>2, <2>1, <2>2, <2>3 DEF SlotInv
<1>7. QED
  BY <1>4, <1>5, <1>6 DEF Start, NeverRuns, LetGo, Returns, Read
-----------------------------------------------------------------------------
\* Typing, true counters, a true ledger, sound leases and a reason for every
\* value that is gone, in every reachable state.
THEOREM SlotsInvariant == SlotSpec => []SlotInv
<1>1. SlotInit => SlotInv
  BY SlotInitHolds
<1>2. SlotInv /\ [SlotNext]_slotVars => SlotInv'
  <2> SUFFICES ASSUME SlotInv, [SlotNext]_slotVars PROVE SlotInv'
    OBVIOUS
  <2>1. CASE UNCHANGED slotVars
    <3>1. (\A t \in Node : SlotCounted(t))'
      BY <2>1, SameCounts DEF slotVars, slots, grants, SlotInv
    <3>2. SlotTypes' /\ LedgerTrue' /\ LeasesSound' /\ GoneSound' /\ NothingKeptTooLong'
      BY <2>1 DEF slotVars, slots, grants, residency, SlotInv, SlotTypes, LedgerTrue, LeasesSound,
                  GoneSound, NothingKeptTooLong, Bytes, Resident, Reads, Live, RunOver, Back, Consumers
    <3>3. QED
      BY <3>1, <3>2 DEF SlotInv
  <2>2. CASE SlotNext
    <3>1. PICK n \in Node :
            \/ Fill(n) \/ Start(n) \/ NeverRuns(n) \/ LetGo(n) \/ Returns(n) \/ Redeem(n)
            \/ \E s \in Node : Enter(n, s) \/ Read(n, s) \/ Take(n, s)
                               \/ MarkTerminal(n, s) \/ DropLease(n, s)
      BY <2>2 DEF SlotNext
    <3>2. CASE \E s \in Node : Enter(n, s) \/ Take(n, s) \/ MarkTerminal(n, s) \/ DropLease(n, s)
      BY <3>2, EnterKeeps, TakeKeeps, MarkKeeps, DropKeeps
    <3>3. QED
      BY <3>1, <3>2, OthersKeep
  <2>3. QED
    BY <2>1, <2>2
<1>3. QED
  BY <1>1, <1>2, PTL DEF SlotSpec

\* The counters and the ledger of slot.rs are exact: every lease, return and
\* end is counted once, every byte once, and none is given back twice.
THEOREM SlotBooksExact == SlotSpec => []SlotBooks
<1>1. SlotInv => SlotBooks
  BY DEF SlotInv, SlotBooks, SlotCounted, LedgerTrue
<1>2. QED
  BY <1>1, SlotsInvariant, PTL

\* try_release never takes a value from a consumer that may still read it, a
\* zombie that was marked terminal long ago included.
THEOREM NeverReleasedUnderAReader == SlotSpec => []InputStaysThere
<1>1. SlotInv => InputStaysThere
  <2> SUFFICES ASSUME SlotInv PROVE InputStaysThere
    OBVIOUS
  <2>1. ASSUME NEW n \in Node, NEW s \in Node, Reads(n, s) PROVE content[s] = "filled"
    <3>1. content[s] # "empty" /\ content[s] \in {"empty", "filled", "released"}
      BY <2>1 DEF Reads, SlotInv, LeasesSound, SlotTypes
    <3>2. ASSUME content[s] = "released" PROVE FALSE
      <4>1. ~RunOver
        BY <2>1 DEF Reads, RunOver, Live
      <4>2. ASSUME NEW m \in Owner, s \in Inputs[m] PROVE FALSE
        <5>1. n \in Consumers(s) /\ Consumers(s) = {m}
          BY <2>1, <4>2, SlotAssumption DEF Reads, Consumers
        <5>2. QED
          BY <2>1, <5>1 DEF Reads
      <4>3. Consumers(s) # Back(s)
        BY <2>1 DEF Reads, Consumers, Back, SlotInv, LeasesSound
      <4>4. QED
        BY <3>2, <4>1, <4>2, <4>3 DEF SlotInv, GoneSound
    <3>3. QED
      BY <3>1, <3>2
  <2>2. ASSUME NEW a \in arcs PROVE content[a[2]] = "filled"
    <3>1. PICK n \in Node, s \in Node : a = <<n, s>>
      BY DEF SlotInv, SlotTypes
    <3>2. QED
      BY <2>1, <3>1 DEF SlotInv, LeasesSound
  <2>3. QED
    BY <2>1, <2>2 DEF InputStaysThere
<1>2. QED
  BY <1>1, SlotsInvariant, PTL

\* A value whose consumers all came and returned does not stay.
THEOREM ReclaimedInTime == SlotSpec => []NothingKeptTooLong
<1>1. SlotInv => NothingKeptTooLong
  BY DEF SlotInv
<1>2. QED
  BY <1>1, SlotsInvariant, PTL
=============================================================================
