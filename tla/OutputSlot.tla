------------------------------ MODULE OutputSlot -----------------------------
(***************************************************************************)
(* Output slots and the residency ledger (crates/core/src/slot.rs): every  *)
(* node owns a once-writable slot, its consumers hold leases on it while   *)
(* they run, and the value and its counted bytes go when every consumer    *)
(* has ended and its closure has returned.  Each operation holds the mutex *)
(* of one slot and is one step; consumers run on threads of their own.     *)
(***************************************************************************)
EXTENDS Nodes, Integers

CONSTANTS Inputs,       \* Inputs[n]: the nodes whose output n consumes
          Retained,     \* nodes whose value is kept to the end of the run
          OutputBytes,  \* the declared output residency, in bytes
          Owner,        \* consumers that take their input by value
          Leasing       \* consumers that enter a lease; the others read and clone

Consumers(s) == {n \in Node : s \in Inputs[n]}

\* Registration takes handles of earlier nodes; ownership needs a sole
\* consumer; run_flow's wiring neither takes nor leases.
ASSUME SlotAssumption ==
    /\ Inputs \in [Node -> SUBSET Node]
    /\ Retained \subseteq Node
    /\ OutputBytes \in [Node -> Nat]
    /\ Leasing \subseteq Node
    /\ Owner \subseteq Leasing
    /\ \A n \in Owner : \A s \in Inputs[n] : Consumers(s) = {n} /\ s \notin Retained

VARIABLES content,    \* Inner.content: "empty", "filled" or "released"
          open,       \* Inner.open_leases
          ended,      \* Inner.terminal_count
          returned,   \* Inner.returned_count
          freed,      \* Inner.residency_released
          current,    \* ResidencyLedger.current, one ledger for the run
          peak,       \* ResidencyLedger.peak
          phase,      \* the node's runner: idle, running, zombie, done, never
          entered,    \* <<n, s>>: n has entered a lease on s
          held,       \* <<n, s>>: that lease is alive
          marked,     \* <<n, s>>: ConsumerLease.marked_terminal
          arcs        \* <<n, s>>: n holds an Arc to the value of s

slots     == <<content, open, ended, returned, freed>>
residency == <<current, peak>>
grants    == <<entered, held, marked, arcs>>
slotVars  == <<slots, residency, phase, grants>>

SlotInit ==
    /\ content = [s \in Node |-> "empty"]
    /\ open = [s \in Node |-> 0]
    /\ ended = [s \in Node |-> 0]
    /\ returned = [s \in Node |-> 0]
    /\ freed = [s \in Node |-> FALSE]
    /\ current = 0 /\ peak = 0
    /\ phase = [n \in Node |-> "idle"]
    /\ entered = {} /\ held = {} /\ marked = {} /\ arcs = {}

Total(s) == Cardinality(Consumers(s))
Live(n)  == phase[n] \in {"running", "zombie"}

\* Inner::reclaim's second half: the counted bytes go once.
GiveBack(s) ==
    /\ freed' = [freed EXCEPT ![s] = TRUE]
    /\ current' = IF freed[s] THEN current ELSE current - OutputBytes[s]
    /\ UNCHANGED peak

\* Mutant: the second fill replaces the value and is charged again.
MayFillAgain(s) == TRUE

\* A fill after the first is refused and the value handed back.
MayFill(s) == content[s] = "empty"

\* The attempt succeeded: its value and its residency move into the slot.
Fill(s) ==
    /\ phase[s] = "running"
    /\ MayFill(s)
    /\ content' = [content EXCEPT ![s] = "filled"]
    /\ current' = current + OutputBytes[s]
    /\ peak' = IF current + OutputBytes[s] > peak THEN current + OutputBytes[s] ELSE peak
    /\ UNCHANGED <<open, ended, returned, freed, phase, grants>>

\* A node starts when all its upstreams have succeeded; or it never runs.
Start(n) ==
    /\ phase[n] = "idle"
    /\ \A s \in Inputs[n] : content[s] # "empty"
    /\ phase' = [phase EXCEPT ![n] = "running"]
    /\ UNCHANGED <<slots, residency, grants>>

NeverRuns(n) ==
    /\ phase[n] = "idle"
    /\ phase' = [phase EXCEPT ![n] = "never"]
    /\ UNCHANGED <<slots, residency, grants>>

\* SlotRef::enter; the runner opens one lease per input for all its attempts.
Enter(n, s) ==
    /\ Live(n) /\ n \in Leasing /\ s \in Inputs[n] /\ <<n, s>> \notin entered
    /\ open' = [open EXCEPT ![s] = @ + 1]
    /\ entered' = entered \cup {<<n, s>>}
    /\ held' = held \cup {<<n, s>>}
    /\ UNCHANGED <<content, ended, returned, freed, residency, phase, marked, arcs>>

\* Who may read s now: a lease holder, or a runner without leases.
Reads(n, s) == /\ Live(n) /\ s \in Inputs[n]
               /\ n \in Leasing => <<n, s>> \in held
               /\ n \notin Owner

\* ConsumerLease::read, SlotRef::read: an Arc; on any other content a panic.
Read(n, s) ==
    /\ Reads(n, s) /\ content[s] = "filled"
    /\ arcs' = arcs \cup {<<n, s>>}
    /\ UNCHANGED <<slots, residency, phase, entered, held, marked>>

\* The attempt is over, perhaps failed and to be retried: its Arcs are gone,
\* the lease stays.
LetGo(n) ==
    /\ \E s \in Node : <<n, s>> \in arcs
    /\ arcs' = {a \in arcs : a[1] # n}
    /\ UNCHANGED <<slots, residency, phase, entered, held, marked>>

\* Mutant: taking the value forgets its residency.
TakeFrees(s) == UNCHANGED <<freed, residency>>

TakenFrees(s) == GiveBack(s)

\* ConsumerLease::take, whose own drop follows as DropLease.  The content goes
\* first: behind another live Arc the take panics with nothing else recorded.
Take(n, s) ==
    /\ Live(n) /\ n \in Owner /\ <<n, s>> \in held /\ content[s] = "filled"
    /\ content' = [content EXCEPT ![s] = "released"]
    /\ IF \E m \in Node : <<m, s>> \in arcs
       THEN UNCHANGED <<freed, residency, ended, marked>>
       ELSE /\ TakenFrees(s)
            /\ ended' = IF <<n, s>> \in marked THEN ended ELSE [ended EXCEPT ![s] = @ + 1]
            /\ marked' = marked \cup {<<n, s>>}
    /\ UNCHANGED <<open, returned, phase, entered, held, arcs>>

\* mark_terminal: the deadline decided the node, its closure runs on.
MarkTerminal(n, s) ==
    /\ <<n, s>> \in held \ marked
    /\ phase[n] \in {"running", "zombie"}
    /\ phase' = [phase EXCEPT ![n] = "zombie"]
    /\ ended' = [ended EXCEPT ![s] = @ + 1]
    /\ marked' = marked \cup {<<n, s>>}
    /\ UNCHANGED <<content, open, returned, freed, residency, entered, held, arcs>>

\* Mutant: released on the terminal decision, not on the closure's return.
ReleasesWhenEnded(s, e, r, o) == s \notin Retained /\ content[s] = "filled" /\ e >= Total(s)

\* Mutant: an own open lease keeps the value for ever.
ReleasesTooLate(s, e, r, o) == /\ s \notin Retained /\ content[s] = "filled"
                               /\ e >= Total(s) /\ r > Total(s) /\ o = 0

\* Inner::try_release, on the counts after the drop.
Releases(s, e, r, o) == /\ s \notin Retained /\ content[s] = "filled"
                        /\ e >= Total(s) /\ r >= Total(s) /\ o = 0

\* ConsumerLease's Drop: the closure returned.
DropLease(n, s) ==
    LET e == IF <<n, s>> \in marked THEN ended[s] ELSE ended[s] + 1
        r == returned[s] + 1
        o == IF open[s] > 0 THEN open[s] - 1 ELSE 0
    IN  /\ <<n, s>> \in held /\ <<n, s>> \notin arcs
        /\ held' = held \ {<<n, s>>}
        /\ ended' = [ended EXCEPT ![s] = e]
        /\ returned' = [returned EXCEPT ![s] = r]
        /\ open' = [open EXCEPT ![s] = o]
        /\ IF Releases(s, e, r, o)
           THEN content' = [content EXCEPT ![s] = "released"] /\ GiveBack(s)
           ELSE UNCHANGED <<content, freed, residency>>
        /\ UNCHANGED <<phase, entered, marked, arcs>>

\* The closure of n is over, its leases and Arcs are gone.
Returns(n) ==
    /\ Live(n)
    /\ n \in Leasing => \A s \in Inputs[n] : <<n, s>> \in entered \ held
    /\ \A a \in arcs : a[1] # n
    /\ phase' = [phase EXCEPT ![n] = "done"]
    /\ UNCHANGED <<slots, residency, grants>>

RunOver == \A n \in Node : phase[n] \in {"done", "never"}

\* RedemptionHandle::redeem after the run: a value still there moves out.
Redeem(s) ==
    /\ RunOver /\ content[s] = "filled"
    /\ content' = [content EXCEPT ![s] = "released"]
    /\ GiveBack(s)
    /\ UNCHANGED <<open, ended, returned, phase, grants>>

SlotNext == \E n \in Node :
    \/ Fill(n) \/ Start(n) \/ NeverRuns(n) \/ LetGo(n) \/ Returns(n) \/ Redeem(n)
    \/ \E s \in Node : Enter(n, s) \/ Read(n, s) \/ Take(n, s)
                       \/ MarkTerminal(n, s) \/ DropLease(n, s)

SlotSpec == SlotInit /\ [][SlotNext]_slotVars
-----------------------------------------------------------------------------
(* Properties                                                               *)

SlotTypes ==
    /\ content \in [Node -> {"empty", "filled", "released"}]
    /\ open \in [Node -> Nat] /\ ended \in [Node -> Nat] /\ returned \in [Node -> Nat]
    /\ freed \in [Node -> BOOLEAN]
    /\ current \in Nat /\ peak \in Nat
    /\ phase \in [Node -> {"idle", "running", "zombie", "done", "never"}]
    /\ entered \subseteq Node \X Node /\ held \subseteq entered
    /\ marked \subseteq entered /\ arcs \subseteq Node \X Node

\* The closures of consumers of s that have returned, and those that have ended.
Back(s)   == {n \in Node : <<n, s>> \in entered \ held}
AtEnd(s)  == {n \in Node : <<n, s>> \in marked \cup (entered \ held)}
Inside(s) == {n \in Node : <<n, s>> \in held}

\* One unit for every counted byte of the values in the slots.
Resident == {s \in Node : content[s] = "filled"}
Bytes    == Tokens(Resident, OutputBytes)

\* The books of all slots: the three counters are the numbers of leases alive,
\* closures returned and consumers ended; the ledger counts the bytes of the
\* values in the slots, each once however many consumers read it, none given
\* back twice; the peak covers it.
SlotBooks ==
    /\ SlotTypes
    /\ \A s \in Node : /\ open[s] = Cardinality(Inside(s))
                        /\ returned[s] = Cardinality(Back(s))
                        /\ ended[s] = Cardinality(AtEnd(s))
                        /\ freed[s] <=> content[s] = "released"
    /\ current = Cardinality(Bytes) /\ current <= peak

\* No value is released under a consumer that may still read it: a lease
\* holder, marked terminal or not, finds its input, and so does a reader
\* without a lease; the Arcs they hold are counted bytes.
InputStaysThere ==
    /\ \A n, s \in Node : Reads(n, s) => content[s] = "filled"
    /\ \A a \in arcs : content[a[2]] = "filled"

\* A value all of whose consumers came and returned is gone.
NothingKeptTooLong == \A s \in Node \ Retained :
    Consumers(s) # {} /\ Consumers(s) = Back(s) => content[s] # "filled"
=============================================================================
