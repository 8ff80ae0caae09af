---------------------------- MODULE StorageProofs ----------------------------
(***************************************************************************)
(* What processes share on disk.  The directories of a chain of            *)
(* invocations keep whole values and no other invocation's temporary       *)
(* files; the blob store answers what was so, under runs, a resume and the *)
(* reclaim beside each other, and the reclaim takes nothing an older run   *)
(* needs.                                                                  *)
(***************************************************************************)
EXTENDS RunDirectory, BlobReclaim, TLAPS

-----------------------------------------------------------------------------
(* Temp directories, of invocations one after the other *)

TempTypes ==
    /\ process \in [Invocation -> {"unborn", "up", "ended", "killed"}]
    /\ sweep \in [Invocation -> SUBSET Invocation]
    /\ temp \cup made \cup swept \subseteq {i \in Invocation : process[i] # "unborn"}

OneAtATime == \A i, j \in Invocation : process[i] = "up" /\ process[j] = "up" => i = j

\* Whatever directory is left beside its own, an invocation is yet to visit, or
\* has failed to remove.
Tidying ==
    \A i \in Invocation :
        /\ i \notin sweep[i]
        /\ process[i] = "up" /\ i \in made => i \in temp
        /\ process[i] = "up" /\ i \in swept => temp \subseteq stuck \cup {i} \cup sweep[i]

TempInv == TempTypes /\ OneAtATime /\ Tidying

\* No directory is there at the start.
LEMMA TempStarts == DirectoryInit => TempInv
  BY DEF DirectoryInit, TempInv, TempTypes, OneAtATime, Tidying

\* An invocation begins when no other is up: it knows of no directory yet.
LEMMA BeginTidies ==
    ASSUME TempInv, ~Overlap, NEW i \in Invocation, Begin(i)
    PROVE  TempInv'
<1>0. /\ process[i] = "unborn" /\ \A j \in Invocation : process[j] # "up"
      /\ process' = [process EXCEPT ![i] = "up"] /\ UNCHANGED <<stuck, sweep, swept>>
      /\ \/ temp' = temp \cup {i} /\ made' = made \cup {i}
         \/ UNCHANGED <<temp, made>>
  BY DEF Begin
<1>1. \A j \in Invocation : process'[j] = IF j = i THEN "up" ELSE process[j]
  BY <1>0 DEF TempInv, TempTypes
<1>2. TempTypes'
  BY <1>0, <1>1 DEF TempInv, TempTypes
<1>3. OneAtATime'
  BY <1>0, <1>1 DEF OneAtATime
<1>4. i \notin made /\ i \notin swept
  BY <1>0 DEF TempInv, TempTypes
<1>5. Tidying'
  BY <1>0, <1>1, <1>4 DEF TempInv, Tidying
<1>6. QED
  BY <1>2, <1>3, <1>5 DEF TempInv

\* The sweep lists every other invocation that has a directory.
LEMMA ListTidies ==
    ASSUME TempInv, NEW i \in Invocation, ListInvocations(i)
    PROVE  TempInv'
<1>0. /\ process[i] = "up" /\ swept' = swept \cup {i} /\ UNCHANGED <<process, temp, made, stuck>>
      /\ sweep' = [sweep EXCEPT ![i] = {j \in Invocation \ {i} : process[j] # "unborn"}]
  BY DEF ListInvocations
<1>1. \A j \in Invocation : sweep'[j] = IF j = i THEN {k \in Invocation \ {i} : process[k] # "unborn"}
                                       ELSE sweep[j]
  BY <1>0 DEF TempInv, TempTypes
<1>2. TempTypes' /\ OneAtATime'
  BY <1>0, <1>1 DEF TempInv, TempTypes, OneAtATime
<1>3. Tidying'
  BY <1>0, <1>1 DEF TempInv, TempTypes, Tidying
<1>4. QED
  BY <1>2, <1>3 DEF TempInv

\* One directory is removed, or stays and is known to have stayed.
LEMMA SweepTidies ==
    ASSUME TempInv, NEW i \in Invocation, NEW j \in Invocation, SweepOne(i, j)
    PROVE  TempInv'
<1>0. /\ process[i] = "up" /\ j \in sweep[i] /\ UNCHANGED <<process, made, swept>>
      /\ sweep' = [sweep EXCEPT ![i] = sweep[i] \ {j}]
      /\ \/ temp' = temp \ {j} /\ stuck' = stuck
         \/ stuck' = stuck \cup {j} /\ temp' = temp
  BY DEF SweepOne
<1>1. \A k \in Invocation : sweep'[k] = IF k = i THEN sweep[i] \ {j} ELSE sweep[k]
  BY <1>0 DEF TempInv, TempTypes
<1>2. TempTypes' /\ OneAtATime'
  BY <1>0, <1>1 DEF TempInv, TempTypes, OneAtATime
<1>3. j # i /\ \A k \in Invocation : process[k] = "up" => k = i
  BY <1>0 DEF TempInv, OneAtATime, Tidying
<1>4. Tidying'
  BY <1>0, <1>1, <1>3 DEF TempInv, Tidying
<1>5. QED
  BY <1>2, <1>4 DEF TempInv

\* An invocation that ends or dies takes its own directory along or leaves it.
LEMMA LeavingTidies ==
    ASSUME TempInv, NEW i \in Invocation, NEW end \in {"ended", "killed"},
           process[i] = "up",
           process' = [process EXCEPT ![i] = end], sweep' = [sweep EXCEPT ![i] = {}],
           temp' \in {temp, temp \ {i}}, UNCHANGED <<made, stuck, swept>>
    PROVE  TempInv'
<1>1. \A j \in Invocation : /\ process'[j] = IF j = i THEN end ELSE process[j]
                            /\ sweep'[j] = IF j = i THEN {} ELSE sweep[j]
  BY DEF TempInv, TempTypes
<1>2. TempTypes' /\ OneAtATime'
  BY <1>1 DEF TempInv, TempTypes, OneAtATime
<1>3. \A j \in Invocation : process'[j] # "up"
  BY <1>1 DEF TempInv, OneAtATime
<1>4. Tidying'
  BY <1>1, <1>3 DEF TempInv, Tidying
<1>5. QED
  BY <1>2, <1>4 DEF TempInv

\* Every step of the invocations keeps the invariant when they do not overlap.
LEMMA TempSteps == ~Overlap /\ TempInv /\ [DirectoryNext]_directoryVars => TempInv'
<1> SUFFICES ASSUME ~Overlap, TempInv, [DirectoryNext]_directoryVars PROVE TempInv'
  OBVIOUS
<1>1. CASE UNCHANGED <<process, dirs>>
  BY <1>1 DEF dirs, TempInv, TempTypes, OneAtATime, Tidying
<1>2. CASE UNCHANGED directoryVars
  BY <1>1, <1>2 DEF directoryVars
<1>3. ASSUME NEW i \in Invocation,
             \/ Begin(i) \/ ListInvocations(i) \/ EndInvocation(i)
             \/ \E j \in Invocation : SweepOne(i, j)
      PROVE  TempInv'
  <2>1. CASE Begin(i)
    BY <2>1, BeginTidies
  <2>2. CASE ListInvocations(i)
    BY <2>2, ListTidies
  <2>3. CASE EndInvocation(i)
    BY <2>3, LeavingTidies DEF EndInvocation
  <2>4. CASE \E j \in Invocation : SweepOne(i, j)
    BY <2>4, SweepTidies
  <2>5. QED
    BY <1>3, <2>1, <2>2, <2>3, <2>4
<1>4. ASSUME NEW i \in Invocation, Kill(i) \/ PowerLoss(i)
      PROVE  TempInv'
  <2>1. /\ process[i] = "up" /\ process' = [process EXCEPT ![i] = "killed"]
        /\ sweep' = [sweep EXCEPT ![i] = {}] /\ UNCHANGED <<temp, made, stuck, swept>>
    BY <1>4 DEF Kill, PowerLoss, Dies, Doing
  <2>2. QED
    BY <2>1, LeavingTidies
<1>5. ASSUME NEW i \in Invocation, ScratchNext(i)
      PROVE  UNCHANGED <<process, dirs>>
  BY <1>5 DEF ScratchNext, PutBegin, PutWrite, PutSync, PutRename, PutSettle, PutFails, RemoveKey,
              RemoveOnSuccess, ClearOne, CarryOne, CarryDone, CarryFails
<1>6. QED
  BY <1>1, <1>2, <1>3, <1>4, <1>5 DEF DirectoryNext

\* The strengthened invariant of the temp directories.
THEOREM TempInvariant == ~Overlap => (DirectorySpec => []TempInv)
<1> SUFFICES ASSUME ~Overlap PROVE DirectorySpec => []TempInv
  OBVIOUS
<1>1. TempInv /\ [DirectoryNext]_directoryVars => TempInv'
  BY TempSteps
<1>2. QED
  BY <1>1, TempStarts, PTL DEF DirectorySpec

\* bootstrap_temp_dir and reclaim_leftover_temp_dirs: when invocations follow
\* one another, each keeps its own temp directory until it ends and, once its
\* sweep is done, no other's is left but one whose removal failed.
THEOREM EachKeepsItsTemp == ~Overlap => (DirectorySpec => []TempIsConfined)
<1> SUFFICES ASSUME ~Overlap PROVE DirectorySpec => []TempIsConfined
  OBVIOUS
<1>1. TempInv => TempIsConfined
  BY DEF TempInv, Tidying, TempIsConfined
<1>2. QED
  BY <1>1, TempInvariant, PTL

-----------------------------------------------------------------------------
(* Scratch *)

Doings == {"none", "create", "sync", "rename", "settle", "clear", "carry"}

Op == [do : Doings,
       key : ScratchKey \cup {<< >>}, value : Nat, synced : BOOLEAN,
       from : Nat, left : SUBSET Name]

Files == [Name -> [value : Nat, firm : BOOLEAN]]

ScratchTypes ==
    /\ process \in [Invocation -> {"unborn", "up", "ended", "killed"}]
    /\ op \in [Invocation -> Op] /\ writes \in Nat
    /\ scratch \in [Invocation -> Files] /\ settled \in [Invocation -> Files]
    /\ kept \in [Invocation -> [ScratchKey -> SUBSET Nat]]

\* What takes a name has been synced.
Firm(i) ==
    /\ \A n \in Name : scratch[i][n].firm /\ settled[i][n].firm
    /\ op[i].do = "rename" => op[i].synced

\* The operation under way
Underway(i) ==
    /\ process[i] # "up" => op[i] = Idle
    /\ process[i] = "unborn" =>
          scratch[i] = Empty /\ settled[i] = Empty /\ \A k \in ScratchKey : kept[i][k] = {Absent}
    /\ op[i].do \in {"create", "sync", "rename", "settle"} => op[i].key \in ScratchKey
    /\ op[i].do = "settle" => scratch[i][Target(i)].value = op[i].value
    /\ op[i].do = "clear" => \A k \in ScratchKey : Absent \in kept[i][k]

\* A carry copies the files of an invocation that is gone.
Carrying(i) ==
    op[i].do = "carry" =>
        LET j == op[i].from IN
        /\ j \in Invocation /\ process[j] \in {"ended", "killed"}
        /\ \A n \in Name : /\ scratch[i][n] \in {Nothing, scratch[j][n]}
                           /\ settled[i][n] \in {Nothing, scratch[j][n]}
                           /\ n \notin op[i].left => scratch[i][n] = scratch[j][n]

\* What may be read now, with the value of a write that only has to settle
MayRead(i, k) == kept[i][k] \cup (IF op[i].do = "settle" /\ op[i].key = k THEN {op[i].value} ELSE {})

Tells1(i) == Reading(i) => \A k \in ScratchKey : Get(i, k) \in MayRead(i, k)

InvocationInv(i) == Firm(i) /\ Underway(i) /\ Carrying(i) /\ Tells1(i)

ScratchInv == ScratchTypes /\ \A i \in Invocation : InvocationInv(i)

\* No two keys have one name.
NoClash == ~({<< >>, << 0 >>} \subseteq ScratchKey)

\* encode_key: every key has a name, and its own.
LEMMA NamesOfKeys ==
    ASSUME NoClash, NEW k \in ScratchKey, NEW l \in ScratchKey
    PROVE  EncodeKey(k) \in Name /\ (EncodeKey(k) = EncodeKey(l) => k = l)
  BY DEF NoClash, EncodeKey, Name

\* A step of one invocation, before it is gone, concerns it alone.
LEMMA OneAlone ==
    ASSUME ScratchInv, NEW i \in Invocation, process[i] \in {"unborn", "up"},
           \A j \in Invocation \ {i} :
               /\ process'[j] = process[j] /\ op'[j] = op[j] /\ kept'[j] = kept[j]
               /\ scratch'[j] = scratch[j] /\ settled'[j] = settled[j],
           ScratchTypes', InvocationInv(i)'
    PROVE  ScratchInv'
<1> SUFFICES ASSUME NEW j \in Invocation, j # i PROVE InvocationInv(j)'
  BY DEF ScratchInv
<1>1. InvocationInv(j)
  BY DEF ScratchInv
<1>2. Firm(j)' /\ Underway(j)'
  BY <1>1 DEF InvocationInv, Firm, Underway, Target
<1>3. Tells1(j)'
  BY <1>1 DEF InvocationInv, Tells1, MayRead, Reading, Get
<1>4. Carrying(j)'
  <2> SUFFICES ASSUME op[j].do = "carry" PROVE Carrying(j)'
    BY DEF Carrying
  <2>1. op[j].from \in Invocation \ {i}
    BY <1>1 DEF InvocationInv, Carrying
  <2>2. QED
    BY <1>1, <2>1 DEF InvocationInv, Carrying
<1>5. QED
  BY <1>2, <1>3, <1>4 DEF InvocationInv

\* The operation of an invocation becomes another.
LEMMA OpGoes ==
    ASSUME ScratchInv, NEW i \in Invocation, NEW next \in Op, Goes(i, next)
    PROVE  /\ op' \in [Invocation -> Op] /\ op'[i] = next
           /\ \A j \in Invocation \ {i} : op'[j] = op[j]
  BY DEF ScratchInv, ScratchTypes, Goes

\* A step between operations that touches no file and forgets no value.
LEMMA FilesStay ==
    ASSUME ScratchInv, NEW i \in Invocation, process[i] = "up", NEW next \in Op, Goes(i, next),
           UNCHANGED <<process, scratch, settled>>, writes' \in Nat,
           op[i].do \notin {"settle", "carry"},
           next.do \in {"none", "create", "sync", "rename", "clear"},
           next.do \in {"create", "sync", "rename"} => next.key \in ScratchKey,
           next.do = "rename" => next.synced,
           kept' \in [Invocation -> [ScratchKey -> SUBSET Nat]],
           \A j \in Invocation \ {i} : kept'[j] = kept[j],
           \A k \in ScratchKey : kept[i][k] \subseteq kept'[i][k],
           next.do = "clear" => \A k \in ScratchKey : Absent \in kept'[i][k]
    PROVE  ScratchInv'
<1>1. /\ op' \in [Invocation -> Op] /\ op'[i] = next
      /\ \A j \in Invocation \ {i} : op'[j] = op[j]
  BY OpGoes
<1>2. ScratchTypes'
  BY <1>1 DEF ScratchInv, ScratchTypes
<1>3. InvocationInv(i)
  BY DEF ScratchInv
<1>4. Firm(i)' /\ Underway(i)' /\ Carrying(i)'
  BY <1>1, <1>3 DEF InvocationInv, Firm, Underway, Carrying
<1>5. Tells1(i)'
  BY <1>1, <1>3 DEF InvocationInv, Tells1, MayRead, Reading, Get
<1>6. InvocationInv(i)'
  BY <1>4, <1>5 DEF InvocationInv
<1>7. QED
  BY <1>1, <1>2, <1>6, OneAlone

\* The operations that may begin
LEMMA OpBegins ==
    /\ Idle \in Op /\ Idle.do = "none"
    /\ LET r == [Idle EXCEPT !.do = "clear"] IN r \in Op /\ r.do = "clear"
<1>1. {} \in SUBSET Name /\ Absent \in Nat
  BY DEF Absent
<1>2. Idle \in Op /\ Idle.do = "none"
  BY <1>1 DEF Op, Doings, Idle
<1>3. LET r == [Idle EXCEPT !.do = "clear"] IN r \in Op /\ r.do = "clear"
  BY <1>1 DEF Op, Doings, Idle
<1>4. QED
  BY <1>2, <1>3

\* An operation goes on.
LEMMA OpGoesOn ==
    ASSUME NEW o \in Op, NEW d \in Doings
    PROVE  /\ LET r == [o EXCEPT !.do = d] IN
              r \in Op /\ r.do = d /\ r.key = o.key /\ r.value = o.value
           /\ LET r == [o EXCEPT !.do = d, !.synced = TRUE] IN
              r \in Op /\ r.do = d /\ r.key = o.key /\ r.value = o.value /\ r.synced
           /\ \A n : LET r == [o EXCEPT !.left = @ \ {n}] IN
              r \in Op /\ r.do = o.do /\ r.from = o.from /\ r.left = o.left \ {n}
  BY DEF Op, Doings

\* The steps of a write before its file takes the name
LEMMA WritingKeeps ==
    ASSUME ScratchInv, NEW i \in Invocation,
           \/ \E key \in ScratchKey : PutBegin(i, key)
           \/ PutWrite(i) \/ PutSync(i) \/ PutFails(i)
    PROVE  ScratchInv'
<1>0. op[i] \in Op /\ kept \in [Invocation -> [ScratchKey -> SUBSET Nat]] /\ writes \in Nat
      /\ InvocationInv(i)
  BY DEF ScratchInv, ScratchTypes
<1>1. CASE \E key \in ScratchKey : PutBegin(i, key)
  <2>1. PICK key \in ScratchKey : PutBegin(i, key)
    BY <1>1
  <2>2. /\ process[i] = "up" /\ op[i].do = "none" /\ writes' = writes + 1
        /\ UNCHANGED <<process, scratch, settled, kept>>
        /\ Goes(i, [Idle EXCEPT !.do = "create", !.key = key, !.value = writes'])
    BY <2>1 DEF PutBegin, Doing, files
  <2>3. writes' \in Nat
    BY <1>0, <2>2
  <2>4. PICK v \in Nat : v = writes'
    BY <2>3
  <2> DEFINE next == [Idle EXCEPT !.do = "create", !.key = key, !.value = v]
  <2>5. next \in Op /\ next.do = "create" /\ next.key = key
    BY DEF Op, Doings, Idle, Absent
  <2>6. Goes(i, next)
    BY <2>2, <2>4
  <2> HIDE DEF next
  <2>7. /\ kept' \in [Invocation -> [ScratchKey -> SUBSET Nat]]
        /\ \A j \in Invocation \ {i} : kept'[j] = kept[j]
        /\ \A k \in ScratchKey : kept[i][k] \subseteq kept'[i][k]
    BY <1>0, <2>2
  <2>8. QED
    BY <2>2, <2>3, <2>5, <2>6, <2>7, FilesStay
<1>2. CASE PutWrite(i) \/ PutSync(i)
  <2>1. PICK next : /\ Goes(i, next) /\ next \in Op /\ next.do \in {"sync", "rename"}
                    /\ next.key = op[i].key /\ (next.do = "rename" => next.synced)
    <3>1. "sync" \in Doings /\ "rename" \in Doings
      BY DEF Doings
    <3>2. CASE PutWrite(i)
      <4> DEFINE next == [op[i] EXCEPT !.do = "sync"]
      <4>1. Goes(i, next) /\ next \in Op /\ next.do = "sync" /\ next.key = op[i].key
        BY <1>0, <3>1, <3>2, OpGoesOn, Zenon DEF PutWrite
      <4> HIDE DEF next
      <4>2. QED
        BY <4>1
    <3>3. CASE PutSync(i)
      <4> DEFINE next == [op[i] EXCEPT !.do = "rename", !.synced = TRUE]
      <4>1. Goes(i, next) /\ next \in Op /\ next.do = "rename" /\ next.key = op[i].key /\ next.synced
        BY <1>0, <3>1, <3>3, OpGoesOn, Zenon DEF PutSync
      <4> HIDE DEF next
      <4>2. QED
        BY <4>1
    <3>4. QED
      BY <1>2, <3>2, <3>3
  <2>2. op[i].do \in {"create", "sync"} /\ process[i] = "up"
    BY <1>2 DEF PutWrite, PutSync, Doing
  <2>3. op[i].key \in ScratchKey
    BY <1>0, <2>2 DEF InvocationInv, Underway
  <2>4. UNCHANGED <<process, scratch, settled, kept, writes>>
    BY <1>2 DEF PutWrite, PutSync, files
  <2>5. QED
    BY <1>0, <2>1, <2>2, <2>3, <2>4, FilesStay
<1>3. CASE PutFails(i)
  <2>1. Idle \in Op /\ Idle.do = "none"
    BY OpBegins
  <2>2. QED
    BY <1>0, <1>3, <2>1, FilesStay DEF PutFails, Writing
<1>4. QED
  BY <1>1, <1>2, <1>3

\* One name leads to another file.
LEMMA NamedFiles ==
    ASSUME ScratchInv, NEW i \in Invocation, NEW n \in Name,
           NEW file \in [value : Nat, firm : BOOLEAN], Named(i, n, file)
    PROVE  /\ scratch' \in [Invocation -> Files]
           /\ \A j \in Invocation \ {i} : scratch'[j] = scratch[j]
           /\ \A m \in Name : scratch'[i][m] = IF m = n THEN file ELSE scratch[i][m]
<1>1. scratch' = [scratch EXCEPT ![i] = [scratch[i] EXCEPT ![n] = file]]
  BY DEF Named
<1>2. scratch \in [Invocation -> Files] /\ scratch[i] \in Files
  BY DEF ScratchInv, ScratchTypes
<1>3. [scratch[i] EXCEPT ![n] = file] \in Files
  BY <1>2 DEF Files
<1>4. \A m \in Name : [scratch[i] EXCEPT ![n] = file][m] = IF m = n THEN file ELSE scratch[i][m]
  BY <1>2 DEF Files
<1>5. scratch'[i] = [scratch[i] EXCEPT ![n] = file]
  BY <1>1, <1>2
<1>6. QED
  BY <1>1, <1>2, <1>3, <1>4, <1>5

\* The file takes the name: its value may be read, and no other key's changes.
LEMMA RenameKeeps ==
    ASSUME ScratchInv, NoClash, NEW i \in Invocation, PutRename(i)
    PROVE  ScratchInv'
<1>0. /\ process[i] = "up" /\ op[i].do = "rename" /\ Goes(i, [op[i] EXCEPT !.do = "settle"])
      /\ Named(i, Target(i), [value |-> op[i].value, firm |-> op[i].synced])
      /\ UNCHANGED <<process, settled, kept, writes>>
  BY DEF PutRename, Doing
<1>1. op[i] \in Op /\ InvocationInv(i)
  BY DEF ScratchInv, ScratchTypes
<1>2. op[i].key \in ScratchKey /\ Target(i) \in Name /\ op[i].synced
  BY <1>0, <1>1, NamesOfKeys DEF InvocationInv, Firm, Underway, Target
<1> DEFINE next == [op[i] EXCEPT !.do = "settle"]
           file == [value |-> op[i].value, firm |-> op[i].synced]
<1>3. next \in Op /\ next.do = "settle" /\ next.key = op[i].key /\ next.value = op[i].value
  BY <1>1, OpGoesOn, Zenon DEF Doings
<1>4. file \in [value : Nat, firm : BOOLEAN] /\ file.value = op[i].value /\ file.firm
  BY <1>1, <1>2 DEF Op
<1>5. Goes(i, next) /\ Named(i, Target(i), file)
  BY <1>0
<1> HIDE DEF next, file
<1>6. /\ op' \in [Invocation -> Op] /\ op'[i] = next
      /\ \A j \in Invocation \ {i} : op'[j] = op[j]
  BY <1>3, <1>5, OpGoes
<1>7. /\ scratch' \in [Invocation -> Files]
      /\ \A j \in Invocation \ {i} : scratch'[j] = scratch[j]
      /\ \A m \in Name : scratch'[i][m] = IF m = Target(i) THEN file ELSE scratch[i][m]
  BY <1>2, <1>4, <1>5, NamedFiles
<1>8. Firm(i)'
  BY <1>0, <1>1, <1>3, <1>4, <1>6, <1>7 DEF InvocationInv, Firm
<1>9. Target(i)' = Target(i)
  BY <1>3, <1>6 DEF Target
<1>10. Underway(i)' /\ Carrying(i)'
  BY <1>0, <1>1, <1>2, <1>3, <1>4, <1>6, <1>7, <1>9 DEF InvocationInv, Underway, Carrying
<1>11. Tells1(i)'
  <2> SUFFICES ASSUME NEW k \in ScratchKey PROVE (Get(i, k) \in MayRead(i, k))'
    BY DEF Tells1
  <2>1. EncodeKey(k) \in Name
    BY NamesOfKeys
  <2>2. CASE k = op[i].key
    <3>1. Get(i, k)' = op[i].value
      BY <1>4, <1>7, <2>1, <2>2 DEF Get, Target
    <3>2. QED
      BY <1>3, <1>6, <2>2, <3>1 DEF MayRead
  <2>3. CASE k # op[i].key
    <3>1. Get(i, k)' = Get(i, k)
      BY <1>2, <1>7, <2>1, <2>3, NamesOfKeys DEF Get, Target
    <3>2. Get(i, k) \in kept[i][k]
      BY <1>0, <1>1 DEF InvocationInv, Tells1, MayRead, Reading
    <3>3. QED
      BY <1>0, <3>1, <3>2 DEF MayRead
  <2>4. QED
    BY <2>2, <2>3
<1>12. ScratchTypes' /\ InvocationInv(i)'
  BY <1>0, <1>6, <1>7, <1>8, <1>10, <1>11 DEF ScratchInv, ScratchTypes, InvocationInv
<1>13. QED
  BY <1>0, <1>6, <1>7, <1>12, OneAlone

\* The write is finished: its value is the one to be read.
LEMMA SettleKeeps ==
    ASSUME ScratchInv, NoClash, NEW i \in Invocation, PutSettle(i)
    PROVE  ScratchInv'
<1>0. /\ process[i] = "up" /\ op[i].do = "settle" /\ Goes(i, Idle)
      /\ settled' = [settled EXCEPT ![i] = scratch[i]] \/ settled' = settled
      /\ kept' = [kept EXCEPT ![i] = [kept[i] EXCEPT ![op[i].key] = {op[i].value}]]
      /\ UNCHANGED <<process, scratch, writes>>
  BY DEF PutSettle, Doing
<1>1. op[i] \in Op /\ InvocationInv(i) /\ ScratchTypes
  BY DEF ScratchInv, ScratchTypes
<1>2. op[i].key \in ScratchKey /\ op[i].value \in Nat
  BY <1>0, <1>1 DEF InvocationInv, Underway, Op
<1>3. Idle \in Op /\ Idle.do = "none"
  BY OpBegins
<1>4. /\ op' \in [Invocation -> Op] /\ op'[i] = Idle
      /\ \A j \in Invocation \ {i} : op'[j] = op[j]
  BY <1>0, <1>3, OpGoes
<1>5. /\ settled' \in [Invocation -> Files] /\ settled'[i] \in {settled[i], scratch[i]}
      /\ \A j \in Invocation \ {i} : settled'[j] = settled[j]
  BY <1>0, <1>1 DEF ScratchTypes
<1>6. /\ kept' \in [Invocation -> [ScratchKey -> SUBSET Nat]]
      /\ \A k \in ScratchKey : kept'[i][k] = IF k = op[i].key THEN {op[i].value} ELSE kept[i][k]
      /\ \A j \in Invocation \ {i} : kept'[j] = kept[j]
  BY <1>0, <1>1, <1>2 DEF ScratchTypes
<1>7. Firm(i)' /\ Underway(i)' /\ Carrying(i)'
  BY <1>0, <1>1, <1>3, <1>4, <1>5 DEF InvocationInv, Firm, Underway, Carrying
<1>8. Tells1(i)'
  <2> SUFFICES ASSUME NEW k \in ScratchKey PROVE (Get(i, k) \in MayRead(i, k))'
    BY DEF Tells1
  <2>1. CASE k = op[i].key
    BY <1>0, <1>1, <1>6, <2>1 DEF InvocationInv, Underway, Target, Get, MayRead
  <2>2. CASE k # op[i].key
    BY <1>0, <1>1, <1>6, <2>2 DEF InvocationInv, Tells1, Reading, Get, MayRead
  <2>3. QED
    BY <2>1, <2>2
<1>9. ScratchTypes' /\ InvocationInv(i)'
  BY <1>0, <1>1, <1>4, <1>5, <1>6, <1>7, <1>8 DEF ScratchTypes, InvocationInv
<1>10. QED
  BY <1>0, <1>4, <1>5, <1>6, <1>9, OneAlone

\* A name that leads nowhere reads as nothing.
LEMMA NothingReads == Nothing \in [value : Nat, firm : BOOLEAN] /\ Nothing.value = Absent /\ Nothing.firm
  BY DEF Nothing, Absent

\* A key is removed, or not.
LEMMA RemoveKeeps ==
    ASSUME ScratchInv, NoClash, NEW i \in Invocation, NEW key \in ScratchKey, RemoveKey(i, key)
    PROVE  ScratchInv'
<1>0. /\ process[i] = "up" /\ op[i].do = "none" /\ UNCHANGED <<process, settled, op, writes>>
      /\ \/ /\ Named(i, EncodeKey(key), Nothing)
            /\ kept' = [kept EXCEPT ![i] = [kept[i] EXCEPT ![key] = {Absent}]]
         \/ UNCHANGED <<scratch, kept>>
  BY DEF RemoveKey, Doing
<1>1. InvocationInv(i) /\ ScratchTypes /\ EncodeKey(key) \in Name
  BY NamesOfKeys DEF ScratchInv
<1>2. CASE Named(i, EncodeKey(key), Nothing) /\ kept' = [kept EXCEPT ![i] = [kept[i] EXCEPT ![key] = {Absent}]]
  <2>1. /\ scratch' \in [Invocation -> Files]
        /\ \A j \in Invocation \ {i} : scratch'[j] = scratch[j]
        /\ \A m \in Name : scratch'[i][m] = IF m = EncodeKey(key) THEN Nothing ELSE scratch[i][m]
    BY <1>1, <1>2, NamedFiles, NothingReads
  <2>2. /\ kept' \in [Invocation -> [ScratchKey -> SUBSET Nat]]
        /\ \A k \in ScratchKey : kept'[i][k] = IF k = key THEN {Absent} ELSE kept[i][k]
        /\ \A j \in Invocation \ {i} : kept'[j] = kept[j]
    BY <1>1, <1>2 DEF ScratchTypes, Absent
  <2>3. Firm(i)' /\ Underway(i)' /\ Carrying(i)'
    BY <1>0, <1>1, <2>1, NothingReads DEF InvocationInv, Firm, Underway, Carrying
  <2>4. Tells1(i)'
    <3> SUFFICES ASSUME NEW k \in ScratchKey PROVE Get(i, k)' \in kept'[i][k]
      BY DEF Tells1, MayRead
    <3>1. EncodeKey(k) \in Name /\ (EncodeKey(k) = EncodeKey(key) => k = key)
      BY NamesOfKeys
    <3>2. CASE k = key
      BY <2>1, <2>2, <3>1, <3>2, NothingReads DEF Get
    <3>3. CASE k # key
      BY <1>0, <1>1, <2>1, <2>2, <3>1, <3>3 DEF InvocationInv, Tells1, Reading, Get, MayRead
    <3>4. QED
      BY <3>2, <3>3
  <2>5. ScratchTypes' /\ InvocationInv(i)'
    BY <1>0, <1>1, <2>1, <2>2, <2>3, <2>4 DEF ScratchTypes, InvocationInv
  <2>6. QED
    BY <1>0, <2>1, <2>2, <2>5, OneAlone
<1>3. CASE UNCHANGED <<scratch, kept>>
  <2>1. ScratchTypes' /\ InvocationInv(i)'
    BY <1>0, <1>1, <1>3 DEF ScratchTypes, InvocationInv, Firm, Underway, Carrying, Tells1, MayRead, Reading,
                            Get, Target
  <2>2. QED
    BY <1>0, <1>3, <2>1, OneAlone
<1>4. QED
  BY <1>0, <1>2, <1>3

\* remove_on_success: from its beginning, nothing may be read of any key.
LEMMA ClearBegins ==
    ASSUME ScratchInv, NEW i \in Invocation, RemoveOnSuccess(i)
    PROVE  ScratchInv'
<1> DEFINE next == [Idle EXCEPT !.do = "clear"]
<1>0. /\ process[i] = "up" /\ op[i].do = "none" /\ Goes(i, next)
      /\ kept' = [kept EXCEPT ![i] = [k \in ScratchKey |-> kept[i][k] \cup {Absent}]]
      /\ UNCHANGED <<process, scratch, settled, writes>>
  BY DEF RemoveOnSuccess, Doing, files
<1>1. ScratchTypes
  BY DEF ScratchInv
<1>2. next \in Op /\ next.do = "clear"
  BY OpBegins
<1> HIDE DEF next
<1>3. /\ kept' \in [Invocation -> [ScratchKey -> SUBSET Nat]]
      /\ \A k \in ScratchKey : kept'[i][k] = kept[i][k] \cup {Absent}
      /\ \A j \in Invocation \ {i} : kept'[j] = kept[j]
  BY <1>0, <1>1 DEF ScratchTypes, Absent
<1>4. writes' \in Nat
  BY <1>0, <1>1 DEF ScratchTypes
<1>5. QED
  BY <1>0, <1>2, <1>3, <1>4, FilesStay

\* The files go one by one, until none is left or one cannot be removed.
LEMMA ClearKeeps ==
    ASSUME ScratchInv, NoClash, NEW i \in Invocation, ClearOne(i)
    PROVE  ScratchInv'
<1>0. /\ process[i] = "up" /\ op[i].do = "clear" /\ UNCHANGED <<process, settled, writes>>
      /\ \/ (\E n \in Name : Named(i, n, Nothing)) /\ UNCHANGED <<op, kept>>
         \/ /\ \A n \in Name : ~Holds(i, n)
            /\ kept' = [kept EXCEPT ![i] = [k \in ScratchKey |-> {Absent}]]
            /\ Goes(i, Idle) /\ UNCHANGED scratch
         \/ Goes(i, Idle) /\ UNCHANGED <<scratch, kept>>
  BY DEF ClearOne, Doing
<1>1. InvocationInv(i) /\ ScratchTypes
  BY DEF ScratchInv
<1>2. Idle \in Op /\ Idle.do = "none"
  BY OpBegins
<1>3. CASE (\E n \in Name : Named(i, n, Nothing)) /\ UNCHANGED <<op, kept>>
  <2>1. PICK n \in Name : Named(i, n, Nothing)
    BY <1>3
  <2>2. /\ scratch' \in [Invocation -> Files]
        /\ \A j \in Invocation \ {i} : scratch'[j] = scratch[j]
        /\ \A m \in Name : scratch'[i][m] = IF m = n THEN Nothing ELSE scratch[i][m]
    BY <2>1, NamedFiles, NothingReads
  <2>3. Firm(i)' /\ Underway(i)' /\ Carrying(i)'
    BY <1>0, <1>1, <1>3, <2>2, NothingReads DEF InvocationInv, Firm, Underway, Carrying
  <2>4. Tells1(i)'
    <3> SUFFICES ASSUME NEW k \in ScratchKey PROVE Get(i, k)' \in kept[i][k]
      BY <1>3 DEF Tells1, MayRead
    <3>1. EncodeKey(k) \in Name
      BY NamesOfKeys
    <3>2. Absent \in kept[i][k] /\ Get(i, k) \in kept[i][k]
      BY <1>0, <1>1 DEF InvocationInv, Underway, Tells1, Reading, MayRead
    <3>3. QED
      BY <2>2, <3>1, <3>2, NothingReads DEF Get
  <2>5. ScratchTypes' /\ InvocationInv(i)'
    BY <1>0, <1>1, <1>3, <2>2, <2>3, <2>4 DEF ScratchTypes, InvocationInv
  <2>6. QED
    BY <1>0, <1>3, <2>2, <2>5, OneAlone
<1>4. CASE /\ \A n \in Name : ~Holds(i, n)
           /\ kept' = [kept EXCEPT ![i] = [k \in ScratchKey |-> {Absent}]]
           /\ Goes(i, Idle) /\ UNCHANGED scratch
  <2>1. /\ op' \in [Invocation -> Op] /\ op'[i] = Idle
        /\ \A j \in Invocation \ {i} : op'[j] = op[j]
    BY <1>2, <1>4, OpGoes
  <2>2. /\ kept' \in [Invocation -> [ScratchKey -> SUBSET Nat]]
        /\ \A k \in ScratchKey : kept'[i][k] = {Absent}
        /\ \A j \in Invocation \ {i} : kept'[j] = kept[j]
    BY <1>1, <1>4 DEF ScratchTypes, Absent
  <2>3. Firm(i)' /\ Underway(i)' /\ Carrying(i)'
    BY <1>0, <1>1, <1>2, <1>4, <2>1 DEF InvocationInv, Firm, Underway, Carrying
  <2>4. Tells1(i)'
    <3> SUFFICES ASSUME NEW k \in ScratchKey PROVE Get(i, k)' \in kept'[i][k]
      BY DEF Tells1, MayRead
    <3>1. scratch[i][EncodeKey(k)] = Nothing
      BY <1>4, NamesOfKeys DEF Holds
    <3>2. QED
      BY <1>4, <2>2, <3>1, NothingReads DEF Get
  <2>5. ScratchTypes' /\ InvocationInv(i)'
    BY <1>0, <1>1, <1>4, <2>1, <2>2, <2>3, <2>4 DEF ScratchTypes, InvocationInv
  <2>6. QED
    BY <1>0, <1>4, <2>1, <2>2, <2>5, OneAlone
<1>5. CASE Goes(i, Idle) /\ UNCHANGED <<scratch, kept>>
  <2>1. /\ writes' \in Nat /\ kept' \in [Invocation -> [ScratchKey -> SUBSET Nat]]
        /\ \A j \in Invocation \ {i} : kept'[j] = kept[j]
        /\ \A k \in ScratchKey : kept[i][k] \subseteq kept'[i][k]
    BY <1>0, <1>1, <1>5 DEF ScratchTypes
  <2>2. QED
    BY <1>0, <1>2, <1>5, <2>1, FilesStay
<1>6. QED
  BY <1>0, <1>3, <1>4, <1>5

\* What a carry copies from is no longer written, and tells what it kept.
LEMMA CarriedFrom ==
    ASSUME ScratchInv, NoClash, NEW i \in Invocation, process[i] = "up", op[i].do = "carry",
           NEW j, j = op[i].from
    PROVE  /\ j \in Invocation /\ j # i
           /\ \A n \in Name : scratch[j][n] \in [value : Nat, firm : BOOLEAN] /\ scratch[j][n].firm
           /\ \A k \in ScratchKey : scratch[j][EncodeKey(k)].value \in kept[j][k]
<1>1. j \in Invocation /\ process[j] \in {"ended", "killed"}
  BY DEF ScratchInv, InvocationInv, Carrying
<1>2. InvocationInv(j) /\ ScratchTypes
  BY <1>1 DEF ScratchInv
<1>3. op[j] = Idle /\ Idle.do = "none"
  BY <1>1, <1>2, OpBegins DEF InvocationInv, Underway
<1>4. \A k \in ScratchKey : scratch[j][EncodeKey(k)].value \in kept[j][k]
  BY <1>1, <1>2, <1>3 DEF InvocationInv, Tells1, Reading, Get, MayRead
<1>5. \A n \in Name : scratch[j][n] \in [value : Nat, firm : BOOLEAN] /\ scratch[j][n].firm
  BY <1>1, <1>2 DEF InvocationInv, Firm, ScratchTypes, Files
<1>6. QED
  BY <1>1, <1>4, <1>5

\* An invocation begins without files, or with those it is to carry.
LEMMA BeginKeeps == ASSUME ScratchInv, NEW i \in Invocation, Begin(i) PROVE ScratchInv'
<1>0. /\ process[i] = "unborn" /\ process' = [process EXCEPT ![i] = "up"]
      /\ UNCHANGED <<scratch, settled, kept, writes>>
      /\ \/ UNCHANGED op
         \/ \E j \in Invocation :
              /\ process[j] \in {"ended", "killed"}
              /\ Goes(i, [Idle EXCEPT !.do = "carry", !.from = j,
                                      !.left = {n \in Name : Holds(j, n)}])
  BY DEF Begin, files
<1>1. InvocationInv(i) /\ ScratchTypes
  BY DEF ScratchInv
<1>2. \A j \in Invocation : process'[j] = IF j = i THEN "up" ELSE process[j]
  BY <1>0, <1>1 DEF ScratchTypes
<1>3. process' \in [Invocation -> {"unborn", "up", "ended", "killed"}]
  BY <1>0, <1>1 DEF ScratchTypes
<1>4. /\ op[i] = Idle /\ Idle.do = "none" /\ scratch[i] = Empty /\ settled[i] = Empty
      /\ \A k \in ScratchKey : kept[i][k] = {Absent}
  BY <1>0, <1>1, OpBegins DEF InvocationInv, Underway
<1>5. \A n \in Name : scratch[i][n] = Nothing /\ settled[i][n] = Nothing
  BY <1>4 DEF Empty
<1>6. CASE UNCHANGED op
  <2>1. Tells1(i)'
    <3> SUFFICES ASSUME NEW k \in ScratchKey PROVE Get(i, k)' \in kept[i][k]
      BY <1>0 DEF Tells1, MayRead
    <3>1. EncodeKey(k) \in Name
      BY DEF Name
    <3>2. QED
      BY <1>0, <1>4, <1>5, <3>1, NothingReads DEF Get
  <2>2. Firm(i)' /\ Underway(i)' /\ Carrying(i)'
    BY <1>0, <1>1, <1>2, <1>4, <1>6 DEF InvocationInv, Firm, Underway, Carrying
  <2>3. ScratchTypes' /\ InvocationInv(i)'
    BY <1>0, <1>1, <1>3, <1>6, <2>1, <2>2 DEF ScratchTypes, InvocationInv
  <2>4. QED
    BY <1>0, <1>2, <1>6, <2>3, OneAlone
<1>7. ASSUME NEW j \in Invocation, process[j] \in {"ended", "killed"},
             Goes(i, [Idle EXCEPT !.do = "carry", !.from = j, !.left = {n \in Name : Holds(j, n)}])
      PROVE  ScratchInv'
  <2> DEFINE left == {n \in Name : Holds(j, n)}
             next == [Idle EXCEPT !.do = "carry", !.from = j, !.left = left]
  <2>1. left \in SUBSET Name /\ j \in Nat /\ Goes(i, next)
    BY <1>7, DirectoryAssumption
  <2> HIDE DEF left
  <2>2. next \in Op /\ next.do = "carry" /\ next.from = j /\ next.left = left
    BY <2>1 DEF Op, Doings, Idle, Absent
  <2> HIDE DEF next
  <2>3. /\ op' \in [Invocation -> Op] /\ op'[i] = next
        /\ \A k \in Invocation \ {i} : op'[k] = op[k]
    BY <2>1, <2>2, OpGoes
  <2>4. j # i /\ \A n \in Name : n \notin left => scratch[j][n] = Nothing
    BY <1>0, <1>7 DEF left, Holds
  <2>5. Carrying(i)'
    BY <1>0, <1>2, <1>5, <1>7, <2>2, <2>3, <2>4 DEF Carrying
  <2>6. Firm(i)' /\ Underway(i)' /\ Tells1(i)'
    BY <1>0, <1>1, <1>2, <2>2, <2>3 DEF InvocationInv, Firm, Underway, Tells1, Reading
  <2>7. ScratchTypes' /\ InvocationInv(i)'
    BY <1>0, <1>1, <1>3, <2>3, <2>5, <2>6 DEF ScratchTypes, InvocationInv
  <2>8. QED
    BY <1>0, <1>2, <2>3, <2>7, OneAlone
<1>8. QED
  BY <1>0, <1>6, <1>7

\* carry_forward: one file
LEMMA CarryKeeps ==
    ASSUME ScratchInv, NoClash, NEW i \in Invocation, CarryOne(i)
    PROVE  ScratchInv'
<1> DEFINE j == op[i].from
<1>0. PICK n \in op[i].left :
         /\ Named(i, n, scratch[j][n]) /\ Goes(i, [op[i] EXCEPT !.left = @ \ {n}])
  BY DEF CarryOne
<1>1. /\ process[i] = "up" /\ op[i].do = "carry" /\ UNCHANGED <<process, kept, writes>>
      /\ settled' = [settled EXCEPT ![i] = scratch'[i]] \/ settled' = settled
  BY DEF CarryOne, Doing
<1>2. InvocationInv(i) /\ ScratchTypes /\ op[i] \in Op
  BY DEF ScratchInv, ScratchTypes
<1>3. /\ j \in Invocation /\ j # i
      /\ \A m \in Name : scratch[j][m] \in [value : Nat, firm : BOOLEAN] /\ scratch[j][m].firm
  BY <1>1, CarriedFrom
<1>4. process[j] \in {"ended", "killed"}
      /\ \A m \in Name : /\ scratch[i][m] \in {Nothing, scratch[j][m]}
                         /\ settled[i][m] \in {Nothing, scratch[j][m]}
                         /\ m \notin op[i].left => scratch[i][m] = scratch[j][m]
  BY <1>1, <1>2 DEF InvocationInv, Carrying
<1> DEFINE next == [op[i] EXCEPT !.left = @ \ {n}]
<1>5. next \in Op /\ next.do = "carry" /\ next.from = j /\ next.left = op[i].left \ {n}
  BY <1>1, <1>2 DEF Op
<1>6. n \in Name
  BY <1>2 DEF Op
<1>7. Goes(i, next)
  BY <1>0
<1> HIDE DEF next, j
<1>8. /\ op' \in [Invocation -> Op] /\ op'[i] = next
      /\ \A k \in Invocation \ {i} : op'[k] = op[k]
  BY <1>5, <1>7, OpGoes
<1>9. /\ scratch' \in [Invocation -> Files]
      /\ \A k \in Invocation \ {i} : scratch'[k] = scratch[k]
      /\ \A m \in Name : scratch'[i][m] = IF m = n THEN scratch[j][n] ELSE scratch[i][m]
  BY <1>0, <1>3, <1>6, NamedFiles
<1>10. /\ settled' \in [Invocation -> Files] /\ settled'[i] \in {settled[i], scratch'[i]}
       /\ \A k \in Invocation \ {i} : settled'[k] = settled[k]
  BY <1>1, <1>2, <1>9 DEF ScratchTypes
<1>11. \A m \in Name : scratch'[i][m].firm /\ settled'[i][m].firm
  BY <1>2, <1>3, <1>9, <1>10 DEF InvocationInv, Firm
<1>12. \A m \in Name : /\ scratch'[i][m] \in {Nothing, scratch[j][m]}
                       /\ settled'[i][m] \in {Nothing, scratch[j][m]}
                       /\ m \notin next.left => scratch'[i][m] = scratch[j][m]
  BY <1>4, <1>5, <1>9, <1>10
<1>13. scratch'[j] = scratch[j]
  BY <1>3, <1>9
<1>14. Carrying(i)'
  BY <1>1, <1>3, <1>4, <1>5, <1>8, <1>12, <1>13 DEF Carrying
<1>15. Firm(i)' /\ Underway(i)' /\ Tells1(i)'
  BY <1>1, <1>5, <1>8, <1>11 DEF Firm, Underway, Tells1, Reading
<1>16. ScratchTypes' /\ InvocationInv(i)'
  BY <1>1, <1>2, <1>8, <1>9, <1>10, <1>14, <1>15 DEF ScratchTypes, InvocationInv
<1>17. QED
  BY <1>1, <1>8, <1>9, <1>10, <1>16, OneAlone

\* carry_forward has copied every file: what was kept there is kept here.
LEMMA CarryEnds ==
    ASSUME ScratchInv, NoClash, NEW i \in Invocation, CarryDone(i)
    PROVE  ScratchInv'
<1> DEFINE j == op[i].from
<1>0. /\ process[i] = "up" /\ op[i].do = "carry" /\ op[i].left = {} /\ Goes(i, Idle)
      /\ kept' = [kept EXCEPT ![i] = kept[j]] /\ UNCHANGED <<process, scratch, settled, writes>>
  BY DEF CarryDone, Doing, files
<1>1. InvocationInv(i) /\ ScratchTypes
  BY DEF ScratchInv
<1>2. j \in Invocation /\ \A k \in ScratchKey : scratch[j][EncodeKey(k)].value \in kept[j][k]
  BY <1>0, CarriedFrom
<1>3. \A n \in Name : scratch[i][n] = scratch[j][n]
  BY <1>0, <1>1 DEF InvocationInv, Carrying
<1> HIDE DEF j
<1>4. Idle \in Op /\ Idle.do = "none"
  BY OpBegins
<1>5. /\ op' \in [Invocation -> Op] /\ op'[i] = Idle
      /\ \A k \in Invocation \ {i} : op'[k] = op[k]
  BY <1>0, <1>4, OpGoes
<1>6. /\ kept' \in [Invocation -> [ScratchKey -> SUBSET Nat]] /\ kept'[i] = kept[j]
      /\ \A k \in Invocation \ {i} : kept'[k] = kept[k]
  BY <1>0, <1>1, <1>2 DEF ScratchTypes
<1>7. Tells1(i)'
  <2> SUFFICES ASSUME NEW k \in ScratchKey PROVE Get(i, k)' \in kept'[i][k]
    BY DEF Tells1, MayRead
  <2>1. EncodeKey(k) \in Name
    BY DEF Name
  <2>2. QED
    BY <1>0, <1>2, <1>3, <1>6, <2>1 DEF Get
<1>8. Firm(i)' /\ Underway(i)' /\ Carrying(i)'
  BY <1>0, <1>1, <1>4, <1>5 DEF InvocationInv, Firm, Underway, Carrying
<1>9. ScratchTypes' /\ InvocationInv(i)'
  BY <1>0, <1>1, <1>5, <1>6, <1>7, <1>8 DEF ScratchTypes, InvocationInv
<1>10. QED
  BY <1>0, <1>5, <1>6, <1>9, OneAlone

\* Wherever an operation is cut off, what is there is among what may be read.
LEMMA CutOffTells ==
    ASSUME ScratchInv, NoClash, NEW i \in Invocation, process[i] = "up", NEW k \in ScratchKey
    PROVE  scratch[i][EncodeKey(k)].value \in CutOff(i, k) /\ CutOff(i, k) \subseteq Nat
<1>1. InvocationInv(i) /\ ScratchTypes /\ op[i] \in Op /\ op[i].value \in Nat
  BY DEF ScratchInv, ScratchTypes, Op
<1>2. CASE op[i].do = "carry"
  <2> DEFINE j == op[i].from
  <2>1. j \in Invocation /\ scratch[j][EncodeKey(k)].value \in kept[j][k]
    BY <1>2, CarriedFrom
  <2>2. CutOff(i, k) = kept[j][k] \cup {Absent}
    BY <1>2 DEF CutOff, Writing
  <2>3. scratch[i][EncodeKey(k)] \in {Nothing, scratch[j][EncodeKey(k)]}
    BY <1>1, <1>2 DEF InvocationInv, Carrying, Name
  <2>4. kept[j][k] \subseteq Nat
    BY <1>1, <2>1 DEF ScratchTypes
  <2>5. QED
    BY <2>1, <2>2, <2>3, <2>4, NothingReads DEF Absent
<1>3. CASE op[i].do # "carry"
  <2>1. Get(i, k) \in MayRead(i, k)
    BY <1>1, <1>3 DEF InvocationInv, Tells1, Reading
  <2>2. CutOff(i, k) = IF op[i].do \in Writing \cup {"settle"} /\ k = op[i].key
                       THEN kept[i][k] \cup {op[i].value} ELSE kept[i][k]
    BY <1>3 DEF CutOff
  <2>3. MayRead(i, k) \subseteq CutOff(i, k)
    BY <2>2 DEF MayRead
  <2>4. kept[i][k] \subseteq Nat
    BY <1>1 DEF ScratchTypes
  <2>5. QED
    BY <1>1, <2>1, <2>2, <2>3, <2>4 DEF Get
<1>4. QED
  BY <1>2, <1>3

\* The process is gone, or a carry has failed: the operation is forgotten, and
\* what is there may be read.
LEMMA GoneKeeps ==
    ASSUME ScratchInv, NEW i \in Invocation, process[i] = "up", NEW end \in {"up", "ended", "killed"},
           process' = [process EXCEPT ![i] = end], Goes(i, Idle), writes' = writes,
           scratch' \in [Invocation -> Files], settled' \in [Invocation -> Files],
           kept' \in [Invocation -> [ScratchKey -> SUBSET Nat]],
           \A j \in Invocation \ {i} :
               kept'[j] = kept[j] /\ scratch'[j] = scratch[j] /\ settled'[j] = settled[j],
           \A n \in Name : scratch'[i][n].firm /\ settled'[i][n].firm,
           \A k \in ScratchKey : scratch'[i][EncodeKey(k)].value \in kept'[i][k]
    PROVE  ScratchInv'
<1>1. Idle \in Op /\ Idle.do = "none"
  BY OpBegins
<1>2. /\ op' \in [Invocation -> Op] /\ op'[i] = Idle
      /\ \A j \in Invocation \ {i} : op'[j] = op[j]
  BY <1>1, OpGoes
<1>3. /\ process' \in [Invocation -> {"unborn", "up", "ended", "killed"}]
      /\ \A j \in Invocation : process'[j] = IF j = i THEN end ELSE process[j]
      /\ writes' \in Nat
  BY DEF ScratchInv, ScratchTypes
<1>4. Firm(i)' /\ Underway(i)' /\ Carrying(i)' /\ Tells1(i)'
  BY <1>1, <1>2, <1>3 DEF Firm, Underway, Carrying, Tells1, MayRead, Get
<1>5. ScratchTypes' /\ InvocationInv(i)'
  BY <1>2, <1>3, <1>4 DEF ScratchTypes, InvocationInv
<1>6. QED
  BY <1>2, <1>3, <1>5, OneAlone

\* An end, a kill or a failed carry leaves the files as they are.
LEMMA EndsKeep ==
    ASSUME ScratchInv, NoClash, NEW i \in Invocation,
           EndInvocation(i) \/ Kill(i) \/ CarryFails(i)
    PROVE  ScratchInv'
<1>1. InvocationInv(i) /\ ScratchTypes /\ \A n \in Name : scratch[i][n].firm /\ settled[i][n].firm
  BY DEF ScratchInv, InvocationInv, Firm
<1>2. CASE EndInvocation(i)
  <2>1. /\ process[i] = "up" /\ op[i] = Idle /\ process' = [process EXCEPT ![i] = "ended"]
        /\ UNCHANGED <<scratch, settled, op, kept, writes>>
    BY <1>2 DEF EndInvocation, files
  <2>2. Goes(i, Idle)
    BY <1>1, <2>1 DEF Goes, ScratchTypes
  <2>3. \A k \in ScratchKey : scratch[i][EncodeKey(k)].value \in kept[i][k]
    BY <1>1, <2>1, OpBegins DEF InvocationInv, Tells1, Reading, MayRead, Get
  <2>4. QED
    BY <1>1, <2>1, <2>2, <2>3, GoneKeeps DEF ScratchTypes
<1>3. CASE Kill(i)
  <2>1. /\ process[i] = "up" /\ process' = [process EXCEPT ![i] = "killed"] /\ Goes(i, Idle)
        /\ kept' = [kept EXCEPT ![i] = [k \in ScratchKey |-> CutOff(i, k)]]
        /\ UNCHANGED <<scratch, settled, writes>>
    BY <1>3 DEF Kill, Dies
  <2>2. \A k \in ScratchKey : scratch[i][EncodeKey(k)].value \in CutOff(i, k) /\ CutOff(i, k) \subseteq Nat
    BY <2>1, CutOffTells
  <2>3. /\ kept' \in [Invocation -> [ScratchKey -> SUBSET Nat]]
        /\ \A k \in ScratchKey : kept'[i][k] = CutOff(i, k)
        /\ \A j \in Invocation \ {i} : kept'[j] = kept[j]
    BY <1>1, <2>1, <2>2 DEF ScratchTypes
  <2>4. QED
    BY <1>1, <2>1, <2>2, <2>3, GoneKeeps DEF ScratchTypes
<1>4. CASE CarryFails(i)
  <2> DEFINE j == op[i].from
  <2>1. /\ process[i] = "up" /\ op[i].do = "carry" /\ Goes(i, Idle)
        /\ process' = [process EXCEPT ![i] = "up"]
        /\ kept' = [kept EXCEPT ![i] = [k \in ScratchKey |-> kept[j][k] \cup {Absent}]]
        /\ UNCHANGED <<scratch, settled, writes>>
    BY <1>1, <1>4 DEF CarryFails, Doing, ScratchTypes
  <2>2. \A k \in ScratchKey : /\ CutOff(i, k) = kept[j][k] \cup {Absent}
                             /\ scratch[i][EncodeKey(k)].value \in CutOff(i, k)
                             /\ CutOff(i, k) \subseteq Nat
    BY <2>1, CutOffTells DEF CutOff, Writing
  <2> HIDE DEF j
  <2>3. /\ kept' \in [Invocation -> [ScratchKey -> SUBSET Nat]]
        /\ \A k \in ScratchKey : kept'[i][k] = CutOff(i, k)
        /\ \A m \in Invocation \ {i} : kept'[m] = kept[m]
    BY <1>1, <2>1, <2>2 DEF ScratchTypes
  <2>4. /\ scratch' \in [Invocation -> Files] /\ settled' \in [Invocation -> Files]
        /\ \A m \in Invocation \ {i} : scratch'[m] = scratch[m] /\ settled'[m] = settled[m]
        /\ \A n \in Name : scratch'[i][n].firm /\ settled'[i][n].firm
    BY <1>1, <2>1 DEF ScratchTypes
  <2>5. \A k \in ScratchKey : scratch'[i][EncodeKey(k)].value \in kept'[i][k]
    BY <2>1, <2>2, <2>3
  <2>6. QED
    BY <2>1, <2>3, <2>4, <2>5, GoneKeeps
<1>5. QED
  BY <1>2, <1>3, <1>4

\* A power loss leaves under each name a synced file: the present one, or the
\* one it led to when the directory was last synced.
LEMMA PowerLossKeeps ==
    ASSUME ScratchInv, NoClash, NEW i \in Invocation, PowerLoss(i)
    PROVE  ScratchInv'
<1>1. InvocationInv(i) /\ ScratchTypes /\ \A n \in Name : scratch[i][n].firm /\ settled[i][n].firm
  BY DEF ScratchInv, InvocationInv, Firm
<1>2. /\ process[i] = "up" /\ process' = [process EXCEPT ![i] = "killed"] /\ Goes(i, Idle)
      /\ kept' = [kept EXCEPT ![i] = [k \in ScratchKey |->
                     CutOff(i, k) \cup {settled[i][EncodeKey(k)].value}]]
      /\ settled' = [settled EXCEPT ![i] = scratch'[i]] /\ writes' = writes
  BY DEF PowerLoss, Dies
<1>3. PICK lost \in SUBSET Name :
         scratch' = [scratch EXCEPT ![i] = [n \in Name |->
                        Survives(IF n \in lost THEN settled[i][n] ELSE scratch[i][n])]]
  BY DEF PowerLoss
<1>4. \A n \in Name : /\ scratch[i][n] \in [value : Nat, firm : BOOLEAN]
                      /\ settled[i][n] \in [value : Nat, firm : BOOLEAN]
  BY <1>1 DEF ScratchTypes, Files
<1>5. \A n \in Name : Survives(IF n \in lost THEN settled[i][n] ELSE scratch[i][n])
                       = IF n \in lost THEN settled[i][n] ELSE scratch[i][n]
  BY <1>1 DEF Survives
<1>6. \A n \in Name : scratch'[i][n] = IF n \in lost THEN settled[i][n] ELSE scratch[i][n]
  BY <1>1, <1>3, <1>5 DEF ScratchTypes
<1>7. [n \in Name |-> Survives(IF n \in lost THEN settled[i][n] ELSE scratch[i][n])] \in Files
  BY <1>4, <1>5 DEF Files
<1>8. /\ scratch' \in [Invocation -> Files] /\ scratch'[i] \in Files
      /\ \A j \in Invocation \ {i} : scratch'[j] = scratch[j]
  BY <1>1, <1>3, <1>7 DEF ScratchTypes
<1>9. /\ settled' \in [Invocation -> Files] /\ settled'[i] = scratch'[i]
      /\ \A j \in Invocation \ {i} : settled'[j] = settled[j]
  BY <1>1, <1>2, <1>8 DEF ScratchTypes
<1>10. \A k \in ScratchKey : /\ EncodeKey(k) \in Name /\ CutOff(i, k) \subseteq Nat
                             /\ scratch[i][EncodeKey(k)].value \in CutOff(i, k)
                             /\ settled[i][EncodeKey(k)].value \in Nat
  BY <1>2, <1>4, CutOffTells DEF Name
<1>11. /\ kept' \in [Invocation -> [ScratchKey -> SUBSET Nat]]
       /\ \A k \in ScratchKey : kept'[i][k] = CutOff(i, k) \cup {settled[i][EncodeKey(k)].value}
       /\ \A j \in Invocation \ {i} : kept'[j] = kept[j]
  BY <1>1, <1>2, <1>10 DEF ScratchTypes
<1>12. \A n \in Name : scratch'[i][n].firm /\ settled'[i][n].firm
  BY <1>1, <1>6, <1>9
<1>13. \A k \in ScratchKey : scratch'[i][EncodeKey(k)].value \in kept'[i][k]
  BY <1>6, <1>10, <1>11
<1>14. QED
  BY <1>2, <1>8, <1>9, <1>11, <1>12, <1>13, GoneKeeps

\* At the start there is nothing to read.
LEMMA ScratchStarts == DirectoryInit => ScratchInv
<1> SUFFICES ASSUME DirectoryInit PROVE ScratchInv
  OBVIOUS
<1>1. Idle \in Op /\ Idle.do = "none" /\ Nothing \in [value : Nat, firm : BOOLEAN] /\ Nothing.firm
  BY OpBegins, NothingReads
<1>2. Empty \in Files /\ \A n \in Name : Empty[n] = Nothing
  BY <1>1 DEF Empty, Files
<1>3. ScratchTypes
  BY <1>1, <1>2 DEF DirectoryInit, ScratchTypes, Absent
<1>4. \A i \in Invocation : InvocationInv(i)
  BY <1>1, <1>2 DEF DirectoryInit, InvocationInv, Firm, Underway, Carrying, Tells1, Reading
<1>5. QED
  BY <1>3, <1>4 DEF ScratchInv
\* Every step of the invocations keeps the invariant.
LEMMA ScratchSteps == NoClash /\ ScratchInv /\ [DirectoryNext]_directoryVars => ScratchInv'
<1> SUFFICES ASSUME NoClash, ScratchInv, [DirectoryNext]_directoryVars PROVE ScratchInv'
  OBVIOUS
<1>1. ASSUME UNCHANGED <<process, scratch, settled, op, kept, writes>> PROVE ScratchInv'
  BY <1>1 DEF ScratchInv, ScratchTypes, InvocationInv, Firm, Underway, Target, Carrying, Tells1,
              MayRead, Reading, Get
<1>2. CASE UNCHANGED directoryVars
  BY <1>1, <1>2 DEF directoryVars, files
<1>3. ASSUME NEW i \in Invocation,
             ListInvocations(i) \/ \E j \in Invocation : SweepOne(i, j)
      PROVE  ScratchInv'
  BY <1>1, <1>3 DEF ListInvocations, SweepOne, files
<1>4. ASSUME NEW i \in Invocation,
             Begin(i) \/ EndInvocation(i) \/ Kill(i) \/ PowerLoss(i)
      PROVE  ScratchInv'
  BY <1>4, BeginKeeps, EndsKeep, PowerLossKeeps
<1>5. ASSUME NEW i \in Invocation, ScratchNext(i) PROVE ScratchInv'
  <2>1. CASE \/ \E key \in ScratchKey : PutBegin(i, key)
             \/ PutWrite(i) \/ PutSync(i) \/ PutFails(i)
    BY <2>1, WritingKeeps
  <2>2. CASE PutRename(i) \/ PutSettle(i)
    BY <2>2, RenameKeeps, SettleKeeps
  <2>3. CASE \E key \in ScratchKey : RemoveKey(i, key)
    BY <2>3, RemoveKeeps
  <2>4. CASE RemoveOnSuccess(i) \/ ClearOne(i)
    BY <2>4, ClearBegins, ClearKeeps
  <2>5. CASE CarryOne(i) \/ CarryDone(i) \/ CarryFails(i)
    BY <2>5, CarryKeeps, CarryEnds, EndsKeep
  <2>6. QED
    BY <1>5, <2>1, <2>2, <2>3, <2>4, <2>5 DEF ScratchNext
<1>6. QED
  BY <1>2, <1>3, <1>4, <1>5 DEF DirectoryNext

\* The strengthened invariant of the scratch files.
THEOREM ScratchInvariant == NoClash => (DirectorySpec => []ScratchInv)
<1> SUFFICES ASSUME NoClash PROVE DirectorySpec => []ScratchInv
  OBVIOUS
<1>1. ScratchInv /\ [DirectoryNext]_directoryVars => ScratchInv'
  BY ScratchSteps
<1>2. QED
  BY <1>1, ScratchStarts, PTL DEF DirectorySpec

\* atomic_write, carry_forward, remove_on_success: for any keys with names of
\* their own, however invocations overlap, are killed or lose their power, a
\* read returns a value that may be read, whole, and of that key.
THEOREM ReadsTellTheTruth == NoClash => (DirectorySpec => []ScratchTells)
<1> SUFFICES ASSUME NoClash PROVE DirectorySpec => []ScratchTells
  OBVIOUS
<1>1. ScratchInv => ScratchTells
  BY DEF ScratchInv, InvocationInv, Tells1, MayRead, ScratchTells
<1>2. QED
  BY <1>1, ScratchInvariant, PTL
-----------------------------------------------------------------------------
(* The blob store under its clients *)

Witnessed == State \cup {"nowhere"}

Calls == [op     : {"none", "put", "get", "head", "delete", "list"},
          key    : SUBSET Key,
          stage  : {"asked", "performed", "over"},
          try    : Nat,
          got    : State \cup {"ok", "absent", "corrupt", "transient"},
          unread : SUBSET Key, found : SUBSET Key, was : SUBSET Witnessed]

BlobTypes ==
    /\ object \in [Key -> State] /\ call \in [Client -> Calls]
    /\ phase \in [Run -> {"none", "live", "dead", "folded", "retired"}]
    /\ recorded \in [Run -> SUBSET Key] /\ artifact \in [Run -> SUBSET Key]

\* The state an answer speaks of
Tells(result, states) ==
    \/ result = "ok"      /\ "good" \in states
    \/ result = "absent"  /\ {"none", "nowhere"} \cap states # {}
    \/ result = "corrupt" /\ "bad" \in states
    \/ result = "transient"

\* A call has witnessed what its object is, what the store found when it
\* performed the call, and what it answers.
CallOK(d) ==
    /\ d.op = "none" => d.stage = "over"
    /\ \A k \in d.key : object[k] \in d.was
    /\ d.op \in {"get", "head"} /\ d.stage = "performed" => d.got \in d.was \cap State
    /\ d.op = "put" /\ d.stage = "performed" => "good" \in d.was
    /\ d.op \in {"put", "get", "head"} /\ d.stage = "over" => Tells(d.got, d.was)

\* Who asks for what
Roles ==
    /\ \A r \in Run : call[r].op \in {"none", "put"}
    /\ call[Resumer].op \in {"none", "head", "get"}
    /\ call[Pruner].op \in {"none", "list", "delete"}
    /\ call[Pruner].op = "delete" => pruning = "delete" /\ call[Pruner].key \subseteq todo

\* What a resume knows of the blob it is about
ResumeKnows ==
    /\ resume = "probe"    => call[Resumer].op = "head"
    /\ resume = "go"       => call[Resumer].op = "get"
    /\ resume = "dangling" => {"none", "nowhere"} \cap call[Resumer].was # {}
    /\ resume = "mutated"  => "bad" \in call[Resumer].was /\ ~(call[Resumer].key \subseteq Unhashed)
    /\ resume = "value"    => "good" \in call[Resumer].was

VerdictInv == BlobTypes /\ (\A c \in Client : CallOK(call[c])) /\ Roles /\ ResumeKnows

\* A run the walk has seen is folded, and all it has recorded is reachable.
SeenBy(r) == phase[r] \in {"folded", "retired"} /\ recorded[r] \subseteq reachable

ReclaimInv ==
    /\ before \subseteq Run
    /\ pruning \in {"idle", "walk", "list", "delete"}
    /\ \A r \in Run : phase[r] \in {"folded", "retired"} => artifact[r] = recorded[r]
    /\ pruning = "idle" => before = {}
    /\ pruning = "walk" => \A r \in before \ todo : SeenBy(r)
    /\ pruning \in {"list", "delete"} => \A r \in before : SeenBy(r)
    /\ pruning = "delete" => todo \subseteq Key \ reachable

BlobInv == VerdictInv /\ ReclaimInv

-----------------------------------------------------------------------------
(* The store *)

\* What a step of the store leaves of a call: its request, and all it witnessed.
Continues(c) ==
    /\ call'[c].op = call[c].op /\ call'[c].key = call[c].key
    /\ call[c].was \subseteq call'[c].was

\* A call stays one when its fields change within their types.
LEMMA CallsEdited ==
    ASSUME NEW d \in Calls
    PROVE  /\ [d EXCEPT !.stage = "asked", !.try = d.try + 1] \in Calls
           /\ \A s \in SUBSET Witnessed : [d EXCEPT !.was = d.was \cup s] \in Calls
           /\ [d EXCEPT !.stage = "over", !.got = "transient"] \in Calls
<1>1. d.try + 1 \in Nat /\ d.was \subseteq Witnessed
  BY DEF Calls
<1>2. \A n \in Nat : [d EXCEPT !.stage = "asked", !.try = n] \in Calls
  BY DEF Calls
<1>3. \A s \in SUBSET Witnessed : d.was \cup s \in SUBSET Witnessed
  BY <1>1
<1>4. \A s \in SUBSET Witnessed : [d EXCEPT !.was = s] \in Calls
  BY DEF Calls
<1>5. [d EXCEPT !.stage = "over", !.got = "transient"] \in Calls
  BY DEF Calls
<1>6. QED
  BY <1>1, <1>2, <1>3, <1>4, <1>5

\* One call changes, no object does.
LEMMA OneCallMoves ==
    ASSUME BlobTypes, \A e \in Client : CallOK(call[e]), NEW c \in Client, NEW d \in Calls,
           d.op = call[c].op, d.key = call[c].key, call[c].was \subseteq d.was, CallOK(d),
           call' = [call EXCEPT ![c] = d], object' = object
    PROVE  /\ object' \in [Key -> State] /\ call' \in [Client -> Calls]
           /\ \A e \in Client : CallOK(call[e])' /\ Continues(e)
           /\ ~ \E k \in Key : IsTaken(k)
<1>1. \A e \in Client : call'[e] = IF e = c THEN d ELSE call[e]
  BY DEF BlobTypes
<1>2. ASSUME NEW e \in Client PROVE CallOK(call[e])' /\ Continues(e)
  BY <1>1 DEF CallOK, Continues
<1>3. QED
  BY <1>2 DEF BlobTypes, IsTaken

\* The store performs a call: it becomes part of what every call on the same
\* object has witnessed.
LEMMA PerformKeeps ==
    ASSUME BlobTypes, \A e \in Client : CallOK(call[e]), NEW c \in Client, Perform(c)
    PROVE  /\ object' \in [Key -> State] /\ call' \in [Client -> Calls]
           /\ \A e \in Client : CallOK(call[e])' /\ Continues(e)
           /\ \A k \in Key : IsTaken(k) => call[c].op = "delete" /\ k \in call[c].key
<1> DEFINE d == [call[c] EXCEPT !.stage = "performed"]
<1>1. PICK k \in call[c].key :
        CASE call[c].op = "put"    -> Becomes([object EXCEPT ![k] = "good"], c, d)
          [] call[c].op = "delete" -> Becomes([object EXCEPT ![k] = "none"], c, d)
          [] OTHER                 -> Becomes(object, c, [d EXCEPT !.got = object[k]])
  BY DEF Perform
<1>0. call[c] \in Calls /\ call[c].stage = "asked" /\ k \in Key /\ object[k] \in State
  BY <1>1 DEF Perform, BlobTypes, Calls
<1> DEFINE objs == CASE call[c].op = "put" -> [object EXCEPT ![k] = "good"]
                     [] call[c].op = "delete" -> [object EXCEPT ![k] = "none"]
                     [] OTHER -> object
           f == IF call[c].op \in {"put", "delete"} THEN d ELSE [d EXCEPT !.got = object[k]]
<1>2. Becomes(objs, c, f)
  BY <1>1
<1>3. f \in Calls /\ f.op = call[c].op /\ f.key = call[c].key /\ f.was = call[c].was
      /\ f.stage = "performed" /\ (f.op \in {"get", "head"} => f.got = object[k])
  BY <1>0 DEF Calls
<1>4. objs \in [Key -> State]
  BY <1>0 DEF BlobTypes, State
<1>5. /\ call[c].op = "put" => objs[k] = "good"
      /\ call[c].op \in {"get", "head"} => objs = object
      /\ \A j \in Key : object[j] = "good" /\ objs[j] = "none" => call[c].op = "delete" /\ j = k
  BY <1>0 DEF BlobTypes
<1> HIDE DEF d, f, objs
<1> DEFINE now(e) == IF e = c THEN f ELSE call[e]
<1>6. object' = objs
      /\ call' = [e \in Client |-> [now(e) EXCEPT !.was = @ \cup {objs[j] : j \in now(e).key}]]
  BY <1>2 DEF Becomes
<1>7. ASSUME NEW e \in Client
      PROVE  /\ call'[e] = [now(e) EXCEPT !.was = now(e).was \cup {objs[j] : j \in now(e).key}]
             /\ now(e) \in Calls /\ now(e).op = call[e].op /\ now(e).key = call[e].key
             /\ now(e).was = call[e].was
  BY <1>3, <1>6 DEF BlobTypes
<1> HIDE DEF now
<1>8. ASSUME NEW e \in Client
      PROVE  /\ call'[e] \in Calls /\ Continues(e)
             /\ call'[e].was = call[e].was \cup {objs[j] : j \in call[e].key}
             /\ call'[e].stage = now(e).stage /\ call'[e].got = now(e).got
  <2> DEFINE W == {objs[j] : j \in now(e).key}
  <2>1. W \subseteq State
    <3>1. now(e).key \subseteq Key
      BY <1>7 DEF Calls
    <3>2. \A j \in now(e).key : objs[j] \in State
      BY <1>4, <3>1
    <3>3. QED
      BY <3>2
  <2> HIDE DEF W
  <2>2. /\ call'[e] = [now(e) EXCEPT !.was = now(e).was \cup W]
        /\ now(e) \in Calls /\ now(e).was \cup W \subseteq Witnessed
    BY <1>7, <2>1 DEF W, Calls, Witnessed
  <2>3. call'[e] \in Calls /\ call'[e].was = now(e).was \cup W /\ call'[e].stage = now(e).stage
        /\ call'[e].got = now(e).got /\ call'[e].op = now(e).op /\ call'[e].key = now(e).key
    BY <2>2 DEF Calls
  <2>4. QED
    BY <1>7, <2>3 DEF W, Continues
<1>9. ASSUME NEW e \in Client PROVE CallOK(call[e])'
  <2>1. ASSUME NEW j \in call'[e].key PROVE object'[j] \in call'[e].was
    <3>1. j \in call[e].key /\ object'[j] = objs[j]
      BY <1>6, <1>8 DEF Continues
    <3>2. QED
      BY <1>8, <3>1
  <2>2. CASE e = c
    <3>1. /\ call'[e].stage = "performed" /\ call'[e].op = call[e].op /\ call'[e].key = call[e].key
          /\ call[e].op \in {"get", "head"} => call'[e].got = object[k]
      BY <1>3, <1>8, <2>2 DEF Continues, now
    <3>2. objs[k] \in call'[e].was
      BY <1>8, <2>2
    <3>3. call[e].op # "none"
      BY <1>0, <2>2 DEF CallOK, BlobTypes
    <3>4. QED
      BY <1>0, <1>5, <2>1, <2>2, <3>1, <3>2, <3>3 DEF CallOK
  <2>3. CASE e # c
    BY <1>8, <2>1, <2>3 DEF CallOK, Continues, now, Tells
  <2>4. QED
    BY <2>2, <2>3
<1>10. call' \in [Client -> Calls]
  BY <1>6, <1>8
<1>11. QED
  BY <1>1, <1>4, <1>5, <1>6, <1>8, <1>9, <1>10 DEF IsTaken

\* Every call the store works on ends up saying what was so.
LEMMA StoreKeeps ==
    ASSUME BlobTypes, \A e \in Client : CallOK(call[e]), StoreNext
    PROVE  /\ object' \in [Key -> State] /\ call' \in [Client -> Calls]
           /\ \A e \in Client : CallOK(call[e])' /\ Continues(e)
           /\ \A k \in Key : IsTaken(k) => \E c \in Client : call[c].op = "delete" /\ k \in call[c].key
<1>1. CASE \E c \in Client : Perform(c)
  BY <1>1, PerformKeeps
<1>2. CASE \E k \in Key : Damage(k)
  <2>1. PICK k \in Key : Damage(k)
    BY <1>2
  <2>2. /\ object' = [object EXCEPT ![k] = "bad"]
        /\ \A e \in Client : call'[e] = IF k \in call[e].key
                                        THEN [call[e] EXCEPT !.was = call[e].was \cup {"bad"}] ELSE call[e]
    BY <2>1 DEF Damage
  <2>3. object' \in [Key -> State] /\ ~ \E j \in Key : IsTaken(j)
    BY <2>2 DEF BlobTypes, State, IsTaken
  <2>4. ASSUME NEW e \in Client
        PROVE  call'[e] \in Calls /\ Continues(e) /\ CallOK(call[e])'
    <3>1. /\ call'[e].key = call[e].key /\ call'[e].op = call[e].op /\ call'[e].stage = call[e].stage
          /\ call'[e].got = call[e].got
          /\ call'[e].was = call[e].was \cup (IF k \in call[e].key THEN {"bad"} ELSE {})
          /\ call'[e] \in Calls
      <4>1. call[e] \in Calls
        BY DEF BlobTypes
      <4>2. CASE k \in call[e].key
        <5>1. call'[e] = [call[e] EXCEPT !.was = call[e].was \cup {"bad"}]
          BY <2>2, <4>2
        <5>2. call'[e] \in Calls
          <6>1. {"bad"} \in SUBSET Witnessed
            BY DEF State, Witnessed
          <6>2. QED
            BY <4>1, <5>1, <6>1, CallsEdited
        <5>3. QED
          BY <4>1, <4>2, <5>1, <5>2 DEF Calls
      <4>3. CASE k \notin call[e].key
        BY <2>2, <4>1, <4>3 DEF Calls
      <4>4. QED
        BY <4>2, <4>3
    <3>2. \A j \in call[e].key : object'[j] \in call'[e].was
      BY <2>2, <3>1 DEF BlobTypes, Calls, CallOK
    <3>3. QED
      BY <3>1, <3>2 DEF CallOK, Continues, Tells
  <2>5. call' \in [Client -> Calls]
    BY <2>1, <2>4 DEF Damage
  <2>6. QED
    BY <2>3, <2>4, <2>5
<1>3. CASE \E c \in Client : Enumerate(c) \/ Refused(c) \/ Busy(c) \/ Lost(c) \/ NoBucket(c) \/ Answer(c)
  <2>1. PICK c \in Client : Enumerate(c) \/ Refused(c) \/ Busy(c) \/ Lost(c) \/ NoBucket(c) \/ Answer(c)
    BY <1>3
  <2>2. call[c] \in Calls /\ CallOK(call[c])
    BY DEF BlobTypes
  <2>3. object' = object
    BY <2>1 DEF Enumerate, Refused, Busy, Lost, NoBucket, Answer
  <2> DEFINE Moves(d) == /\ d \in Calls /\ d.op = call[c].op /\ d.key = call[c].key
                         /\ d.was = call[c].was /\ CallOK(d) /\ call' = [call EXCEPT ![c] = d]
  <2>4. CASE Enumerate(c)
    <3>1. PICK k \in call[c].unread :
            call' = [call EXCEPT ![c] =
                       [call[c] EXCEPT !.unread = call[c].unread \ {k}, !.try = 1,
                          !.found = IF object[k] = "none" THEN call[c].found ELSE call[c].found \cup {k},
                          !.stage = IF call[c].unread = {k} THEN "performed" ELSE call[c].stage]]
      BY <2>4 DEF Enumerate
    <3> DEFINE d == [call[c] EXCEPT !.unread = call[c].unread \ {k}, !.try = 1,
                          !.found = IF object[k] = "none" THEN call[c].found ELSE call[c].found \cup {k},
                          !.stage = IF call[c].unread = {k} THEN "performed" ELSE call[c].stage]
    <3>2. Moves(d)
      BY <2>2, <2>4, <3>1 DEF Enumerate, Calls, CallOK
    <3>3. QED
      BY <2>3, <3>2, OneCallMoves
  <2>5. CASE Refused(c)
    <3>1. Moves([call[c] EXCEPT !.stage = "over", !.got = "transient"])
      BY <2>2, <2>5 DEF Refused, Answered, Calls, CallOK, Tells
    <3>2. QED
      BY <2>3, <3>1, OneCallMoves
  <2>6. CASE Busy(c) \/ Lost(c)
    <3> DEFINE again == [call[c] EXCEPT !.stage = "asked", !.try = call[c].try + 1]
               over  == [call[c] EXCEPT !.stage = "over", !.got = "transient"]
    <3>0. call[c].op # "none"
      BY <2>2, <2>6 DEF Busy, Lost, CallOK
    <3>1. again \in Calls /\ over \in Calls
      BY <2>2, CallsEdited
    <3>2. CallOK(again) /\ CallOK(over)
      BY <2>2, <3>0 DEF Calls, CallOK, Tells
    <3>3. \/ call' = [call EXCEPT ![c] = again]
          \/ call' = [call EXCEPT ![c] = over]
      BY <2>6 DEF Busy, Lost, AgainOrExhausted, Answered
    <3>4. Moves(again) \/ Moves(over)
      BY <2>2, <3>1, <3>2, <3>3 DEF Calls
    <3>5. QED
      BY <2>3, <3>4, OneCallMoves
  <2>7. CASE NoBucket(c)
    <3> DEFINE result == IF call[c].op \in {"list", "delete"} THEN "ok" ELSE "absent"
               d == [call[c] EXCEPT !.stage = "over", !.got = result, !.found = {},
                                    !.was = call[c].was \cup {"nowhere"}]
    <3>1. call' = [call EXCEPT ![c] = d] /\ call[c].op # "none"
      BY <2>2, <2>7 DEF NoBucket, Answered, CallOK
    <3>2. d \in Calls /\ d.op = call[c].op /\ d.key = call[c].key /\ call[c].was \subseteq d.was
      BY <2>2 DEF Calls, Witnessed
    <3>3. CallOK(d)
      BY <2>2, <3>1 DEF Calls, CallOK, Tells
    <3>4. QED
      BY <2>3, <3>1, <3>2, <3>3, OneCallMoves
  <2>8. CASE Answer(c)
    <3> DEFINE result == Measured(call[c].op, call[c].got)
               d == [call[c] EXCEPT !.stage = "over", !.got = result]
    <3>1. call' = [call EXCEPT ![c] = d] /\ call[c].stage = "performed" /\ call[c].op # "none"
      BY <2>2, <2>8 DEF Answer, Answered, CallOK
    <3>2. result \in {"ok", "absent", "corrupt"}
          /\ (call[c].op \in {"put", "get", "head"} => Tells(result, call[c].was))
      <4>1. CASE call[c].op \in {"put", "delete", "list"}
        <5>1. result = "ok"
          BY <4>1 DEF Measured
        <5>2. QED
          BY <2>2, <3>1, <4>1, <5>1 DEF CallOK, Tells
      <4>2. CASE call[c].op \in {"get", "head"}
        <5>1. call[c].got \in call[c].was \cap State
          BY <2>2, <3>1, <4>2 DEF Calls, CallOK
        <5>2. QED
          BY <4>2, <5>1 DEF Measured, State, Tells
      <4>3. QED
        BY <2>2, <3>1, <4>1, <4>2 DEF Calls
    <3> HIDE DEF result
    <3>3. Moves(d)
      BY <2>2, <3>1, <3>2 DEF Calls, CallOK
    <3>4. QED
      BY <2>3, <3>3, OneCallMoves
  <2>9. QED
    BY <2>1, <2>4, <2>5, <2>6, <2>7, <2>8
<1>4. QED
  BY <1>1, <1>2, <1>3 DEF StoreNext
-----------------------------------------------------------------------------
(* Those who call *)

\* A new call has witnessed what its object is now.
LEMMA AskKeeps ==
    ASSUME BlobTypes, \A e \in Client : CallOK(call[e]),
           NEW c \in Client, NEW asks \in {"put", "get", "head", "delete", "list"},
           NEW keys \in SUBSET Key, Asks(c, asks, keys)
    PROVE  /\ object' = object /\ call' \in [Client -> Calls]
           /\ \A e \in Client : CallOK(call[e])' /\ (e # c => call'[e] = call[e])
           /\ call'[c].op = asks /\ call'[c].key = keys
<1> DEFINE w == {object[k] : k \in keys}
           u == IF asks = "list" THEN Key ELSE {}
           d == [NoCall EXCEPT !.op = asks, !.key = keys, !.stage = "asked", !.try = 1,
                               !.unread = u, !.was = w]
<1>1. call' = [call EXCEPT ![c] = d] /\ object' = object
  BY DEF Asks
<1>2. w \subseteq State /\ u \subseteq Key
  <2>1. \A k \in keys : object[k] \in State
    BY DEF BlobTypes
  <2>2. QED
    BY <2>1
<1>3. \A k \in keys : object[k] \in w
  OBVIOUS
<1> HIDE DEF w, u
<1>4. d \in Calls
  BY <1>2 DEF NoCall, Calls, State, Witnessed
<1>5. CallOK(d)
  BY <1>3 DEF NoCall, CallOK
<1>6. d.op = asks /\ d.key = keys
  BY DEF NoCall
<1> HIDE DEF d
<1>7. \A e \in Client : call'[e] = IF e = c THEN d ELSE call[e]
  BY <1>1 DEF BlobTypes
<1>8. call' \in [Client -> Calls]
  BY <1>1, <1>4 DEF BlobTypes
<1>9. QED
  BY <1>1, <1>5, <1>6, <1>7, <1>8 DEF CallOK

\* A call that is over leaves nothing behind.
LEMMA OverKeeps ==
    ASSUME BlobTypes, \A e \in Client : CallOK(call[e]), NEW c \in Client, Over(c)
    PROVE  /\ object' = object /\ call' \in [Client -> Calls]
           /\ \A e \in Client : CallOK(call[e])' /\ (e # c => call'[e] = call[e])
           /\ call'[c].op = "none" /\ call'[c].key = {}
<1>1. call' = [call EXCEPT ![c] = NoCall] /\ object' = object
  BY DEF Over
<1>2. NoCall \in Calls /\ CallOK(NoCall) /\ NoCall.op = "none" /\ NoCall.key = {}
  BY DEF NoCall, Calls, State, CallOK
<1>3. \A e \in Client : call'[e] = IF e = c THEN NoCall ELSE call[e]
  BY <1>1 DEF BlobTypes
<1>4. call' \in [Client -> Calls]
  BY <1>1, <1>2 DEF BlobTypes
<1>5. QED
  BY <1>1, <1>2, <1>3, <1>4 DEF CallOK

\* A step of the store concerns nobody's plans.
LEMMA StoreStepKeeps ==
    ASSUME BlobInv, StoreNext, UNCHANGED <<runs, reclaim, resume>>
    PROVE  BlobInv'
<1>1. /\ object' \in [Key -> State] /\ call' \in [Client -> Calls]
      /\ \A e \in Client : CallOK(call[e])' /\ Continues(e)
  BY StoreKeeps DEF BlobInv, VerdictInv
<1>2. UNCHANGED <<phase, recorded, artifact, pruning, todo, reachable, before, resume>>
  BY DEF runs, reclaim
<1>3. BlobTypes' /\ ReclaimInv'
  BY <1>1, <1>2 DEF BlobInv, VerdictInv, BlobTypes, ReclaimInv, SeenBy
<1>4. Roles' /\ ResumeKnows'
  BY <1>1, <1>2, RunsAreClients DEF BlobInv, VerdictInv, Roles, ResumeKnows, Continues
<1>5. QED
  BY <1>1, <1>3, <1>4 DEF BlobInv, VerdictInv

\* What a run does: its put, its record, its end, and the end of its directory.
LEMMA RunStepKeeps ==
    ASSUME BlobInv, NEW r \in Run,
           StartRun(r) \/ Record(r) \/ PutFailed(r) \/ Die(r) \/ FoldRun(r) \/ Retire(r)
    PROVE  BlobInv'
<1>0. BlobTypes /\ (\A e \in Client : CallOK(call[e])) /\ Roles /\ ResumeKnows /\ ReclaimInv
  BY DEF BlobInv, VerdictInv
<1>1. r \in Client /\ Resumer \in Client /\ Pruner \in Client /\ r # Pruner /\ r # Resumer
  BY RunsAreClients
<1>2. UNCHANGED <<pruning, todo, reachable, before, resume>>
  BY DEF StartRun, Record, PutFailed, Die, FoldRun, Retire, Unused, reclaim
<1>3. /\ object' = object /\ call' \in [Client -> Calls]
      /\ \A e \in Client : CallOK(call[e])' /\ (e # r => call'[e] = call[e])
      /\ call'[r].op \in {"none", "put"}
  <2>1. CASE StartRun(r)
    <3>1. PICK k \in Key : Asks(r, "put", {k})
      BY <2>1 DEF StartRun, Ask
    <3>2. QED
      BY <1>0, <1>1, <3>1, AskKeeps
  <2>2. CASE Over(r)
    BY <1>0, <1>1, <2>2, OverKeeps
  <2>3. CASE FoldRun(r) \/ Retire(r)
    BY <1>0, <1>1, <2>3 DEF FoldRun, Retire, BlobTypes, CallOK, Roles
  <2>4. QED
    BY <2>1, <2>2, <2>3 DEF Record, PutFailed, Die
<1>4. Roles' /\ ResumeKnows'
  <2>1. call'[Resumer] = call[Resumer] /\ call'[Pruner] = call[Pruner]
    BY <1>1, <1>3
  <2>2. \A q \in Run : q \in Client /\ call'[q].op \in {"none", "put"}
    BY <1>0, <1>3, RunsAreClients DEF Roles
  <2>3. QED
    BY <1>0, <1>2, <2>1, <2>2 DEF Roles, ResumeKnows
<1>5. BlobTypes' /\ ReclaimInv'
  <2>1. call[r] \in Calls /\ call[r].key \subseteq Key
    BY <1>0, <1>1 DEF BlobTypes, Calls
  <2>2. CASE StartRun(r)
    BY <1>0, <1>2, <1>3, <2>2 DEF StartRun, BlobTypes, ReclaimInv, SeenBy
  <2>3. CASE Record(r)
    BY <1>0, <1>2, <1>3, <2>1, <2>3 DEF Record, BlobTypes, ReclaimInv, SeenBy
  <2>4. CASE PutFailed(r)
    BY <1>0, <1>2, <1>3, <2>4 DEF PutFailed, runs, BlobTypes, ReclaimInv, SeenBy
  <2>5. CASE Die(r)
    BY <1>0, <1>2, <1>3, <2>5 DEF Die, BlobTypes, ReclaimInv, SeenBy
  <2>6. CASE FoldRun(r)
    BY <1>0, <1>2, <1>3, <2>6 DEF FoldRun, BlobTypes, ReclaimInv, SeenBy
  <2>7. CASE Retire(r)
    BY <1>0, <1>2, <1>3, <2>7 DEF Retire, BlobTypes, ReclaimInv, SeenBy
  <2>8. QED
    BY <2>2, <2>3, <2>4, <2>5, <2>6, <2>7
<1>6. QED
  BY <1>3, <1>4, <1>5 DEF BlobInv, VerdictInv

\* A refused or finished reclaim has forgotten everything.
LEMMA RefusedKeeps ==
    ASSUME ReclaimInv, UNCHANGED <<phase, recorded, artifact>>, RefuseReclaim
    PROVE  ReclaimInv'
<1>1. pruning' = "idle" /\ before' = {}
  BY DEF RefuseReclaim
<1>2. \A r \in Run : phase'[r] \in {"folded", "retired"} => artifact'[r] = recorded'[r]
  BY DEF ReclaimInv
<1>3. QED
  BY <1>1, <1>2 DEF ReclaimInv

\* The walk over the directories, without a call to the store.
LEMMA WalkKeeps ==
    ASSUME BlobInv, Walk \/ (\E r \in Run : Visit(r)) \/ Reclaimed
    PROVE  BlobInv'
<1>0. BlobTypes /\ (\A e \in Client : CallOK(call[e])) /\ Roles /\ ResumeKnows /\ ReclaimInv
  BY DEF BlobInv, VerdictInv
<1>1. UNCHANGED <<object, call, phase, recorded, artifact, resume>>
  BY DEF Walk, Visit, Reclaimed, NoCalls, Reclaiming, runs
<1>2. BlobTypes' /\ (\A e \in Client : CallOK(call[e])') /\ ResumeKnows'
  BY <1>0, <1>1 DEF BlobTypes, CallOK, ResumeKnows
<1>3. ASSUME Walk PROVE Roles' /\ ReclaimInv'
  <2>1. before' = todo' /\ before' \subseteq Run /\ pruning = "idle" /\ pruning' = "walk"
    BY <1>3 DEF Walk
  <2>2. \A r \in Run : phase'[r] \in {"folded", "retired"} => artifact'[r] = recorded'[r]
    BY <1>0, <1>1 DEF ReclaimInv
  <2>3. Roles'
    BY <1>0, <1>1, <2>1 DEF Roles
  <2>4. QED
    BY <2>1, <2>2, <2>3 DEF ReclaimInv
<1>4. ASSUME NEW r \in Run, Visit(r) PROVE Roles' /\ ReclaimInv'
  <2>1. Roles'
    BY <1>0, <1>1, <1>4 DEF Visit, Roles
  <2>2. ASSUME RefuseReclaim PROVE ReclaimInv'
    BY <1>0, <1>1, <2>2, RefusedKeeps
  <2>3. ASSUME phase[r] = "folded", reachable' = reachable \cup artifact[r],
               todo' = todo \ {r}, UNCHANGED <<pruning, before>>
        PROVE  ReclaimInv'
    <3>1. pruning = "walk" /\ SeenBy(r)'
      BY <1>0, <1>1, <1>4, <2>3 DEF Visit, ReclaimInv, SeenBy
    <3>2. \A q \in before \ todo : SeenBy(q)'
      BY <1>0, <1>1, <2>3, <3>1 DEF ReclaimInv, SeenBy
    <3>3. before' \subseteq Run /\ pruning' = "walk"
          /\ \A q \in Run : phase'[q] \in {"folded", "retired"} => artifact'[q] = recorded'[q]
      BY <1>0, <1>1, <2>3, <3>1 DEF ReclaimInv
    <3>4. \A q \in before' \ todo' : SeenBy(q)'
      BY <2>3, <3>1, <3>2
    <3>5. QED
      BY <3>3, <3>4 DEF ReclaimInv
  <2>4. QED
    BY <1>4, <2>1, <2>2, <2>3 DEF Visit
<1>5. ASSUME Reclaimed PROVE Roles' /\ ReclaimInv'
  <2>1. ReclaimInv'
    BY <1>0, <1>1, <1>5, RefusedKeeps DEF Reclaimed
  <2>2. call[Pruner].op = "none"
    BY <1>5 DEF Reclaimed, NoCall
  <2>3. QED
    BY <1>0, <1>1, <2>1, <2>2 DEF Roles
<1>6. Roles' /\ ReclaimInv'
  BY <1>3, <1>4, <1>5
<1>7. QED
  BY <1>2, <1>6 DEF BlobInv, VerdictInv

\* The listing, the plan made of it, and the deletes.
LEMMA ReclaimKeeps ==
    ASSUME BlobInv, ListHeld \/ Plan \/ DeleteNext \/ Deleted
    PROVE  BlobInv'
<1>0. BlobTypes /\ (\A e \in Client : CallOK(call[e])) /\ Roles /\ ResumeKnows /\ ReclaimInv
  BY DEF BlobInv, VerdictInv
<1>1. /\ \A r \in Run : r \in Client /\ r # Pruner
      /\ Resumer \in Client /\ Pruner \in Client /\ Resumer # Pruner
  BY RunsAreClients
<1>2. UNCHANGED <<phase, recorded, artifact, resume>>
  BY DEF ListHeld, Plan, DeleteNext, Deleted, Reclaiming, runs
<1> DEFINE Kept == /\ object' = object /\ call' \in [Client -> Calls]
                   /\ \A e \in Client : CallOK(call[e])' /\ (e # Pruner => call'[e] = call[e])
<1>3. ASSUME Kept, ReclaimInv',
             call'[Pruner].op \in {"none", "list", "delete"},
             call'[Pruner].op = "delete" => pruning' = "delete" /\ call'[Pruner].key \subseteq todo'
      PROVE  BlobInv'
  <2>1. call'[Resumer] = call[Resumer] /\ \A r \in Run : call'[r] = call[r]
    BY <1>1, <1>3
  <2>2. BlobTypes' /\ Roles' /\ ResumeKnows'
    BY <1>0, <1>2, <1>3, <2>1 DEF BlobTypes, Roles, ResumeKnows
  <2>3. QED
    BY <1>3, <2>2 DEF BlobInv, VerdictInv
<1>4. CASE ListHeld
  <2>1. Kept /\ call'[Pruner].op = "list"
    BY <1>0, <1>1, <1>4, AskKeeps DEF ListHeld
  <2>2. ReclaimInv'
    BY <1>0, <1>2, <1>4 DEF ListHeld, ReclaimInv, SeenBy
  <2>3. QED
    BY <1>3, <2>1, <2>2
<1>5. CASE Plan
  <2>1. Kept /\ call'[Pruner].op = "none"
    BY <1>0, <1>1, <1>5, OverKeeps DEF Plan
  <2>2. ASSUME RefuseReclaim PROVE ReclaimInv'
    BY <1>0, <1>2, <2>2, RefusedKeeps
  <2>3. ASSUME pruning' = "delete", todo' = call[Pruner].found \ reachable,
               UNCHANGED <<reachable, before>>
        PROVE  ReclaimInv'
    <3>1. call[Pruner].found \subseteq Key /\ pruning = "list"
      BY <1>0, <1>1, <1>5 DEF Plan, BlobTypes, Calls
    <3>2. \A r \in before : SeenBy(r)'
      BY <1>0, <1>2, <2>3, <3>1 DEF ReclaimInv, SeenBy
    <3>3. QED
      BY <1>0, <1>2, <2>3, <3>1, <3>2 DEF ReclaimInv
  <2>4. ReclaimInv'
    BY <1>5, <2>2, <2>3 DEF Plan
  <2>5. QED
    BY <1>3, <2>1, <2>4
<1>6. CASE DeleteNext
  <2>1. PICK k \in todo : Asks(Pruner, "delete", {k})
    BY <1>6 DEF DeleteNext, Ask
  <2>2. k \in Key
    BY <1>0, <1>6 DEF DeleteNext, ReclaimInv
  <2>3. Kept /\ call'[Pruner].op = "delete" /\ call'[Pruner].key = {k}
    BY <1>0, <1>1, <2>1, <2>2, AskKeeps
  <2>4. UNCHANGED <<pruning, todo, reachable, before>> /\ pruning = "delete"
    BY <1>6 DEF DeleteNext, reclaim
  <2>5. ReclaimInv'
    BY <1>0, <1>2, <2>4 DEF ReclaimInv, SeenBy
  <2>6. QED
    BY <1>3, <2>1, <2>3, <2>4, <2>5
<1>7. CASE Deleted
  <2>1. Kept /\ call'[Pruner].op = "none"
    BY <1>0, <1>1, <1>7, OverKeeps DEF Deleted
  <2>2. ReclaimInv'
    BY <1>0, <1>2, <1>7 DEF Deleted, RefuseReclaim, ReclaimInv, SeenBy
  <2>3. QED
    BY <1>3, <2>1, <2>2
<1>8. QED
  BY <1>4, <1>5, <1>6, <1>7

\* A resume: it learns of a blob what its call is told.
LEMMA ResumeKeeps ==
    ASSUME BlobInv,
           (\E r \in Run : ProbeReference(r) \/ Unopenable(r)) \/ Judge \/ Rehydrate \/ ResumeEnds
    PROVE  BlobInv'
<1>0. BlobTypes /\ (\A e \in Client : CallOK(call[e])) /\ Roles /\ ResumeKnows /\ ReclaimInv
  BY DEF BlobInv, VerdictInv
<1>1. /\ \A r \in Run : r \in Client /\ r # Resumer
      /\ Resumer \in Client /\ Pruner \in Client /\ Resumer # Pruner
  BY RunsAreClients
<1>2. UNCHANGED <<phase, recorded, artifact, pruning, todo, reachable, before>>
  BY DEF ProbeReference, Unopenable, Judge, Rehydrate, ResumeEnds, Resuming, runs, reclaim
<1> DEFINE Kept == /\ object' = object /\ call' \in [Client -> Calls]
                   /\ \A e \in Client : CallOK(call[e])' /\ (e # Resumer => call'[e] = call[e])
<1>3. ASSUME Kept, ResumeKnows', call'[Resumer].op \in {"none", "head", "get"}
      PROVE  BlobInv'
  <2>1. call'[Pruner] = call[Pruner] /\ \A r \in Run : call'[r] = call[r]
    BY <1>1, <1>3
  <2>2. BlobTypes' /\ Roles' /\ ReclaimInv'
    BY <1>0, <1>2, <1>3, <2>1 DEF BlobTypes, Roles, ReclaimInv, SeenBy
  <2>3. QED
    BY <1>3, <2>2 DEF BlobInv, VerdictInv
<1>4. ASSUME UNCHANGED <<object, call>> PROVE Kept /\ call'[Resumer].op \in {"none", "head", "get"}
  BY <1>0, <1>4 DEF BlobTypes, CallOK, Roles
<1>5. CASE \E r \in Run : ProbeReference(r)
  <2>1. PICK r \in Run : ProbeReference(r)
    BY <1>5
  <2>2. PICK k \in artifact[r] : Asks(Resumer, "head", {k})
    BY <2>1 DEF ProbeReference, Ask
  <2>3. k \in Key
    BY <1>0 DEF BlobTypes
  <2>4. Kept /\ call'[Resumer].op = "head"
    BY <1>0, <1>1, <2>2, <2>3, AskKeeps
  <2>5. ResumeKnows'
    BY <2>1, <2>4 DEF ProbeReference, ResumeKnows
  <2>6. QED
    BY <1>3, <2>4, <2>5
<1>6. CASE \E r \in Run : Unopenable(r)
  BY <1>3, <1>4, <1>6 DEF Unopenable, ResumeKnows
<1>7. CASE Judge
  <2>0. PICK k \in call[Resumer].key :
             /\ resume' = Verdict(k, call[Resumer].got)
             /\ IF resume' = "go" THEN Ask(Resumer, "get", k)
                ELSE UNCHANGED <<backend, object, call>>
    BY <1>7 DEF Judge
  <2>1. call[Resumer].op = "head" /\ call[Resumer].stage = "over" /\ CallOK(call[Resumer])
    BY <1>0, <1>1, <1>7 DEF Judge, ResumeKnows
  <2>2. /\ resume' \in {"dangling", "mutated", "go"}
        /\ resume' = "dangling" => {"none", "nowhere"} \cap call[Resumer].was # {}
        /\ resume' = "mutated" => "bad" \in call[Resumer].was /\ ~(call[Resumer].key \subseteq Unhashed)
    BY <2>0, <2>1 DEF CallOK, Tells, Verdict
  <2>3. CASE resume' = "go"
    <3>1. Asks(Resumer, "get", {k})
      BY <2>0, <2>3 DEF Ask
    <3>2. k \in Key
      BY <1>0, <1>1 DEF BlobTypes, Calls
    <3>3. Kept /\ call'[Resumer].op = "get"
      BY <1>0, <1>1, <3>1, <3>2, AskKeeps
    <3>4. QED
      BY <1>3, <2>3, <3>3 DEF ResumeKnows
  <2>4. CASE resume' # "go"
    <3>1. UNCHANGED <<object, call>>
      BY <2>0, <2>4
    <3>2. QED
      BY <1>3, <1>4, <2>2, <2>4, <3>1 DEF ResumeKnows
  <2>5. QED
    BY <2>3, <2>4
<1>8. CASE Rehydrate
  <2>1. /\ call[Resumer].op = "get" /\ CallOK(call[Resumer]) /\ UNCHANGED <<object, call>>
        /\ call[Resumer].stage = "over"
        /\ resume' = IF call[Resumer].got = "ok" THEN "value" ELSE "failed"
    BY <1>0, <1>1, <1>8 DEF Rehydrate, ResumeKnows
  <2>2. ResumeKnows'
    BY <2>1 DEF CallOK, Tells, ResumeKnows
  <2>3. QED
    BY <1>3, <1>4, <2>1, <2>2
<1>9. CASE ResumeEnds
  <2>1. Kept /\ call'[Resumer].op = "none"
    BY <1>0, <1>1, <1>9, OverKeeps DEF ResumeEnds
  <2>2. QED
    BY <1>3, <1>9, <2>1 DEF ResumeEnds, ResumeKnows
<1>10. QED
  BY <1>5, <1>6, <1>7, <1>8, <1>9

\* The store is empty and nobody has called.
LEMMA BlobStarts == Init => BlobInv
<1> SUFFICES ASSUME Init PROVE BlobInv
  OBVIOUS
<1>1. \A c \in Client : call[c] = NoCall
  BY DEF Init, StoreInit
<1>2. NoCall \in Calls /\ CallOK(NoCall) /\ NoCall.op = "none"
  BY DEF NoCall, Calls, State, CallOK
<1>3. BlobTypes
  BY <1>2 DEF Init, StoreInit, BlobTypes, State
<1>4. Roles
  BY <1>1, <1>2, RunsAreClients DEF Roles
<1>5. ResumeKnows /\ ReclaimInv
  BY DEF Init, ResumeKnows, ReclaimInv
<1>6. QED
  BY <1>1, <1>2, <1>3, <1>4, <1>5 DEF BlobInv, VerdictInv

\* Every step keeps the invariant.
LEMMA BlobSteps == BlobInv /\ [Next]_vars => BlobInv'
<1> SUFFICES ASSUME BlobInv, [Next]_vars PROVE BlobInv'
  OBVIOUS
<1>1. CASE UNCHANGED vars
  <2>1. UNCHANGED <<object, call, phase, recorded, artifact, pruning, todo, reachable, before, resume>>
    BY <1>1 DEF vars, store, runs, reclaim
  <2>2. QED
    BY <2>1 DEF BlobInv, VerdictInv, BlobTypes, CallOK, Roles, ResumeKnows, ReclaimInv, SeenBy
<1>2. CASE Next
  BY <1>2, StoreStepKeeps, RunStepKeeps, WalkKeeps, ReclaimKeeps, ResumeKeeps DEF Next
<1>3. QED
  BY <1>1, <1>2

\* The strengthened invariant of the blobs.
THEOREM BlobInvariant == Spec => []BlobInv
  BY BlobStarts, BlobSteps, PTL DEF Spec

\* Whatever fails, is retried, loses its answer or is damaged meanwhile: an
\* answer of the store was true while the call was out, and a resume refuses a
\* blob only if it, or its bucket, was missing or damaged (BlobError, reference_existence_in).
THEOREM StoreTellsTheTruth == Spec => []VerdictsAreTrue
<1>1. BlobInv => VerdictsAreTrue
  <2> SUFFICES ASSUME BlobInv PROVE VerdictsAreTrue
    OBVIOUS
  <2>1. ASSUME NEW c \in Client,
               call[c].op \in {"put", "get", "head"}, call[c].stage = "over"
        PROVE  call[c].got = "transient" \/ Told[call[c].got] \cap call[c].was # {}
    BY <2>1 DEF BlobInv, VerdictInv, CallOK, Tells, Told
  <2>2. QED
    BY <2>1 DEF BlobInv, VerdictInv, ResumeKnows, VerdictsAreTrue
<1>2. QED
  BY <1>1, BlobInvariant, PTL

\* Beside any number of runs, resumes and failing calls: the reclaim deletes no
\* good blob that a run it found when it began has recorded, as long as that run
\* is kept (plan_reclaim, apply_reclaim).
THEOREM ReclaimKeepsOldReferences == Spec => OldReferencesKept
<1> DEFINE Keeps == \A k \in Key : IsTaken(k) =>
                      \A r \in before : phase[r] # "retired" => k \notin recorded[r]
<1>1. ASSUME BlobInv, Next PROVE Keeps
  <2> SUFFICES ASSUME NEW k \in Key, IsTaken(k), NEW r \in before PROVE k \notin recorded[r]
    OBVIOUS
  <2>1. StoreNext
    <3>1. object' # object
      BY DEF IsTaken
    <3>2. QED
      BY <1>1, <3>1
      DEF Next, StartRun, Record, PutFailed, Die, FoldRun, Retire, Visit, ProbeReference, Unopenable,
          Walk, ListHeld, Plan, DeleteNext, Deleted, Reclaimed, Judge, Rehydrate, ResumeEnds,
          NoCalls, Ask, Asks, Over
  <2>2. PICK c \in Client : call[c].op = "delete" /\ k \in call[c].key
    BY <1>1, <2>1, StoreKeeps DEF BlobInv, VerdictInv
  <2>3. pruning = "delete" /\ k \in todo
    BY <1>1, <2>2, RunsAreClients DEF BlobInv, VerdictInv, Roles
  <2>4. QED
    BY <1>1, <2>3 DEF BlobInv, ReclaimInv, SeenBy
<1>2. ASSUME UNCHANGED vars PROVE Keeps
  BY <1>2 DEF vars, store, IsTaken
<1>3. QED
  BY <1>1, <1>2, BlobInvariant, PTL DEF Spec, OldReferencesKept
==============================================================================
