---------------------------- MODULE RunDirectory -----------------------------
(***************************************************************************)
(* What invocations of one pipeline keep in their directories besides the  *)
(* event stream: the temp directory (crates/cli/src/temp.rs), created at   *)
(* the start, removed at the end, swept by the next invocation after a     *)
(* kill; and the scratch of one node (crates/core/src/scratch.rs), written *)
(* value by value and copied forward by a resume.  Processes are killed    *)
(* and the power fails at any moment; any file operation may fail.         *)
(*                                                                         *)
(* A node's attempts never overlap, so one scratch call is out at a time   *)
(* in an invocation.  A key is the sequence of its bytes.                  *)
(***************************************************************************)
EXTENDS Naturals, Sequences

CONSTANTS Invocation,   \* by the order of their starts
          ScratchKey,   \* the keys the node uses
          MaxWrites,    \* bound: values written
          MaxMishap,    \* bound: failed operations, kills and power losses
          Overlap       \* invocations may run at the same time

ASSUME DirectoryAssumption ==
    /\ Invocation \subseteq Nat \ {0} /\ ScratchKey \subseteq Seq(Nat)
    /\ MaxWrites \in Nat /\ MaxMishap \in Nat /\ Overlap \in BOOLEAN

VARIABLES
    process,   \* of an invocation: "unborn", "up", "ended", "killed"
    temp,      \* the invocations whose temp directory exists
    made,      \* those whose own attempt to create it succeeded
    stuck,     \* those whose directory a removal left in place
    sweep,     \* the directories the sweep of an invocation has still to visit
    swept,     \* the invocations whose sweep has read the pipeline's directory
    scratch,   \* the node's files in an invocation: name -> [value, firm]
    settled,   \* the same, as far as the directory itself is on the disk
    leftover,  \* the temporary files a write has left, by the name of their target
    op,        \* the scratch operation an invocation is in
    kept,      \* auxiliary: the values a read of a key may return
    writes, mishaps

dirs == <<temp, made, stuck, sweep, swept>>
files == <<scratch, settled, leftover>>
directoryVars == <<process, dirs, files, op, kept, writes, mishaps>>

------------------------------------------------------------------------------
(* Names and values *)

\* A file's name is its key in hexadecimal; the empty key has the name of one
\* zero byte.
EncodeKey(key) == IF key = << >> THEN << 0 >> ELSE key

Name == {EncodeKey(k) : k \in ScratchKey}

\* Nothing is under the name; or the file's bytes are not all there.
Absent == 0
Torn == MaxWrites + 1

Nothing == [value |-> Absent, firm |-> TRUE]
Empty == [n \in Name |-> Nothing]

Idle == [do |-> "none", key |-> << >>, value |-> Absent, synced |-> FALSE,
         from |-> 0, left |-> {}]

Goes(i, next) == op' = [op EXCEPT ![i] = next]
Doing(i, step) == process[i] = "up" /\ op[i].do = step

Mishap == mishaps < MaxMishap /\ mishaps' = mishaps + 1
NoMishap == UNCHANGED mishaps

Holds(i, n) == scratch[i][n] # Nothing

Named(i, n, file) == scratch' = [scratch EXCEPT ![i][n] = file]

Target(i) == EncodeKey(op[i].key)

\* A write on its way to the name n leaves its temporary file.
Debris(i, n) == [leftover EXCEPT ![i] = @ \cup {n}]

\* ScratchStore::get: what is under the key's name.
Get(i, key) == scratch[i][EncodeKey(key)].value

------------------------------------------------------------------------------
(* Invocations and their temp directories *)

\* bootstrap_temp_dir; a resume first copies the scratch of an earlier
\* invocation.  A directory that cannot be created does not stop the run.
Begin(i) ==
    /\ process[i] = "unborn"
    /\ \A j \in Invocation : /\ j < i => process[j] # "unborn"
                             /\ Overlap \/ process[j] # "up"
    /\ process' = [process EXCEPT ![i] = "up"]
    /\ \/ temp' = temp \cup {i} /\ made' = made \cup {i} /\ NoMishap
       \/ Mishap /\ UNCHANGED <<temp, made>>
    /\ \/ UNCHANGED op
       \/ \E j \in Invocation :
            /\ process[j] \in {"ended", "killed"}
            /\ Goes(i, [Idle EXCEPT !.do = "carry", !.from = j,
                                    !.left = {n \in Name : Holds(j, n)}])
    /\ UNCHANGED <<stuck, sweep, swept, files, kept, writes>>

\* Mutant: the sweep does not spare its own invocation.
SparesNobody(i) ==
    /\ process[i] = "up" /\ i \notin swept
    /\ swept' = swept \cup {i}
    /\ sweep' = [sweep EXCEPT ![i] = {j \in Invocation : process[j] # "unborn"}]
    /\ UNCHANGED <<process, temp, made, stuck, files, op, kept, writes, mishaps>>

\* reclaim_leftover_temp_dirs, on a thread of its own: the directory of the
\* pipeline is read once,
ListInvocations(i) ==
    /\ process[i] = "up" /\ i \notin swept
    /\ swept' = swept \cup {i}
    /\ sweep' = [sweep EXCEPT ![i] = {j \in Invocation \ {i} : process[j] # "unborn"}]
    /\ UNCHANGED <<process, temp, made, stuck, files, op, kept, writes, mishaps>>

\* and the temp directory of every other invocation is removed.
SweepOne(i, j) ==
    /\ process[i] = "up" /\ j \in sweep[i]
    /\ sweep' = [sweep EXCEPT ![i] = @ \ {j}]
    /\ \/ temp' = temp \ {j} /\ UNCHANGED stuck /\ NoMishap
       \/ j \in temp /\ Mishap /\ stuck' = stuck \cup {j} /\ UNCHANGED temp
    /\ UNCHANGED <<process, made, swept, files, op, kept, writes>>

\* finalize_shutdown: the own temp directory is removed; the sweep's thread ends
\* with the process.
EndInvocation(i) ==
    /\ process[i] = "up" /\ op[i] = Idle
    /\ process' = [process EXCEPT ![i] = "ended"]
    /\ \/ temp' = temp \ {i} /\ NoMishap
       \/ i \in temp /\ Mishap /\ UNCHANGED temp
    /\ sweep' = [sweep EXCEPT ![i] = {}]
    /\ UNCHANGED <<made, stuck, swept, files, op, kept, writes>>

------------------------------------------------------------------------------
(* Scratch: ScratchStore, over atomic_write *)

Writing == {"create", "sync", "rename"}

PutBegin(i, key) ==
    /\ Doing(i, "none") /\ writes < MaxWrites
    /\ writes' = writes + 1
    /\ Goes(i, [Idle EXCEPT !.do = "create", !.key = key, !.value = writes'])
    /\ UNCHANGED <<process, dirs, files, kept, mishaps>>

\* Mutant: the temporary file takes the name unsynced.
Unsynced(i) ==
    /\ Doing(i, "create") /\ Goes(i, [op[i] EXCEPT !.do = "rename"])
    /\ UNCHANGED <<process, dirs, files, kept, writes, mishaps>>

\* The bytes are written to a temporary file,
PutWrite(i) ==
    /\ Doing(i, "create") /\ Goes(i, [op[i] EXCEPT !.do = "sync"])
    /\ UNCHANGED <<process, dirs, files, kept, writes, mishaps>>

\* which is synced
PutSync(i) ==
    /\ Doing(i, "sync") /\ Goes(i, [op[i] EXCEPT !.do = "rename", !.synced = TRUE])
    /\ UNCHANGED <<process, dirs, files, kept, writes, mishaps>>

\* and then takes the name.
PutRename(i) ==
    /\ Doing(i, "rename") /\ Goes(i, [op[i] EXCEPT !.do = "settle"])
    /\ Named(i, Target(i), [value |-> op[i].value, firm |-> op[i].synced])
    /\ UNCHANGED <<process, dirs, settled, leftover, kept, writes, mishaps>>

\* The directory is synced, or not: nobody looks.
PutSettle(i) ==
    /\ Doing(i, "settle") /\ Goes(i, Idle)
    /\ \/ settled' = [settled EXCEPT ![i] = scratch[i]] /\ NoMishap
       \/ Mishap /\ UNCHANGED settled
    /\ kept' = [kept EXCEPT ![i][op[i].key] = {op[i].value}]
    /\ UNCHANGED <<process, dirs, scratch, leftover, writes>>

\* A step before the name is taken fails; the temporary file may stay.
PutFails(i) ==
    /\ process[i] = "up" /\ op[i].do \in Writing /\ Mishap
    /\ leftover' \in {leftover, Debris(i, Target(i))}
    /\ Goes(i, Idle)
    /\ UNCHANGED <<process, dirs, scratch, settled, kept, writes>>

RemoveKey(i, key) ==
    /\ Doing(i, "none") /\ Holds(i, EncodeKey(key))
    /\ \/ /\ Named(i, EncodeKey(key), Nothing) /\ NoMishap
          /\ kept' = [kept EXCEPT ![i][key] = {Absent}]
       \/ Mishap /\ UNCHANGED <<scratch, kept>>
    /\ UNCHANGED <<process, dirs, settled, leftover, op, writes>>

\* remove_on_success: the files go one by one, and the first that cannot be
\* removed ends it.
RemoveOnSuccess(i) ==
    /\ Doing(i, "none") /\ \E n \in Name : Holds(i, n)
    /\ Goes(i, [Idle EXCEPT !.do = "clear"])
    /\ kept' = [kept EXCEPT ![i] = [k \in ScratchKey |-> @[k] \cup {Absent}]]
    /\ UNCHANGED <<process, dirs, files, writes, mishaps>>

ClearOne(i) ==
    /\ Doing(i, "clear")
    /\ \/ /\ \E n \in Name : Holds(i, n) /\ Named(i, n, Nothing)
          /\ UNCHANGED <<leftover, op, kept>> /\ NoMishap
       \/ /\ \A n \in Name : ~Holds(i, n)
          /\ leftover' = [leftover EXCEPT ![i] = {}]
          /\ kept' = [kept EXCEPT ![i] = [k \in ScratchKey |-> {Absent}]]
          /\ Goes(i, Idle) /\ UNCHANGED scratch /\ NoMishap
       \/ Mishap /\ Goes(i, Idle) /\ UNCHANGED <<scratch, leftover, kept>>
    /\ UNCHANGED <<process, dirs, settled, writes>>

\* carry_forward: each file of the earlier invocation's scratch, except the
\* temporary ones, is written under its name in the new one's.
CarryOne(i) ==
    /\ Doing(i, "carry")
    /\ \E n \in op[i].left :
         /\ Named(i, n, scratch[op[i].from][n])
         /\ Goes(i, [op[i] EXCEPT !.left = @ \ {n}])
    /\ \/ settled' = [settled EXCEPT ![i] = scratch'[i]] /\ NoMishap
       \/ Mishap /\ UNCHANGED settled
    /\ UNCHANGED <<process, dirs, leftover, kept, writes>>

CarryDone(i) ==
    /\ Doing(i, "carry") /\ op[i].left = {} /\ Goes(i, Idle)
    /\ kept' = [kept EXCEPT ![i] = kept[op[i].from]]
    /\ UNCHANGED <<process, dirs, files, writes, mishaps>>

\* A carry that fails is the node's alone: the invocation goes on, with what
\* was copied so far.
CarryFails(i) ==
    /\ Doing(i, "carry") /\ Mishap /\ Goes(i, Idle)
    /\ leftover' \in {leftover} \cup {Debris(i, n) : n \in op[i].left}
    /\ kept' = [kept EXCEPT ![i] = [k \in ScratchKey |-> kept[op[i].from][k] \cup {Absent}]]
    /\ UNCHANGED <<process, dirs, scratch, settled, writes>>

------------------------------------------------------------------------------
(* Kills and power losses *)

\* What may be read under a key after the operation of i was cut off
CutOff(i, k) ==
    CASE op[i].do \in Writing \cup {"settle"} /\ k = op[i].key
                             -> kept[i][k] \cup {op[i].value}
      [] op[i].do = "carry"  -> kept[op[i].from][k] \cup {Absent}
      [] OTHER               -> kept[i][k]

Dies(i) ==
    /\ process' = [process EXCEPT ![i] = "killed"]
    /\ sweep' = [sweep EXCEPT ![i] = {}]
    /\ Goes(i, Idle)
    /\ leftover' \in CASE op[i].do \in {"sync", "rename"} -> {Debris(i, Target(i))}
                        [] op[i].do = "carry" -> {leftover} \cup {Debris(i, n) : n \in op[i].left}
                        [] OTHER -> {leftover}
    /\ UNCHANGED <<temp, made, stuck, swept, writes>>

Kill(i) ==
    /\ process[i] = "up" /\ Mishap /\ Dies(i)
    /\ kept' = [kept EXCEPT ![i] = [k \in ScratchKey |-> CutOff(i, k)]]
    /\ UNCHANGED <<scratch, settled>>

\* Of a file whose bytes were never synced, anything may be left.
Survives(file) == IF file.firm THEN file ELSE [value |-> Torn, firm |-> TRUE]

\* Every name leads to where it led now or when the directory was last synced.
PowerLoss(i) ==
    /\ process[i] = "up" /\ Mishap /\ Dies(i)
    /\ \E lost \in SUBSET Name :
         scratch' = [scratch EXCEPT ![i] = [n \in Name |->
                        Survives(IF n \in lost THEN settled[i][n] ELSE @[n])]]
    /\ settled' = [settled EXCEPT ![i] = scratch'[i]]
    /\ kept' = [kept EXCEPT ![i] = [k \in ScratchKey |->
                   CutOff(i, k) \cup {settled[i][EncodeKey(k)].value}]]

------------------------------------------------------------------------------

DirectoryInit ==
    /\ process = [i \in Invocation |-> "unborn"]
    /\ temp = {} /\ made = {} /\ stuck = {} /\ swept = {}
    /\ sweep = [i \in Invocation |-> {}]
    /\ scratch = [i \in Invocation |-> Empty] /\ settled = scratch
    /\ leftover = [i \in Invocation |-> {}]
    /\ op = [i \in Invocation |-> Idle]
    /\ kept = [i \in Invocation |-> [k \in ScratchKey |-> {Absent}]]
    /\ writes = 0 /\ mishaps = 0

ScratchNext(i) ==
    \/ \E key \in ScratchKey : PutBegin(i, key) \/ RemoveKey(i, key)
    \/ PutWrite(i) \/ PutSync(i) \/ PutRename(i) \/ PutSettle(i) \/ PutFails(i)
    \/ RemoveOnSuccess(i) \/ ClearOne(i)
    \/ CarryOne(i) \/ CarryDone(i) \/ CarryFails(i)

DirectoryNext ==
    \E i \in Invocation :
        \/ Begin(i) \/ ListInvocations(i) \/ EndInvocation(i)
        \/ \E j \in Invocation : SweepOne(i, j)
        \/ ScratchNext(i)
        \/ Kill(i) \/ PowerLoss(i)

DirectorySpec == DirectoryInit /\ [][DirectoryNext]_directoryVars

------------------------------------------------------------------------------
(* Properties *)

Reading(i) == process[i] # "unborn" /\ op[i].do # "carry"

\* A read of a key returns the value of its last finished write, in this
\* invocation or in the one it was resumed from, or nothing if that was a
\* removal; after a kill, of that or of the write that was cut off; never a part
\* of a value, not even after a power loss, nor the value of another key
\* (atomic_write, carry_forward, encode_key).
ScratchTells ==
    \A i \in Invocation, k \in ScratchKey :
        Reading(i) =>
            Get(i, k) \in kept[i][k] \cup
                          (IF op[i].do = "settle" /\ op[i].key = k THEN {op[i].value} ELSE {})

\* An invocation has the temp directory it created until it ends, whatever is
\* swept meanwhile; and when its sweep is done no other's is left, however the
\* others ended, but one whose removal failed (temp.rs).
TempIsConfined ==
    \A i \in Invocation : process[i] = "up" =>
        /\ i \in made => i \in temp
        /\ i \in swept /\ sweep[i] = {} => temp \subseteq stuck \cup {i}
==============================================================================
