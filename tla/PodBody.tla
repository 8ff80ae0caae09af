------------------------------- MODULE PodBody -------------------------------
(***************************************************************************)
(* The pod's side of one remote attempt: the checks of `exec-node`, the     *)
(* body, its output and its exit (dagr_cli::exec_node), and the attempt     *)
(* shard it reports through (dagr_cli::shard).  Values only: module Remote  *)
(* says when a body runs and what becomes of its file.                      *)
(*                                                                         *)
(* A shard is the sequence of its lines; of the identity in the header only *)
(* the build matters here, because the file's path holds run, node and      *)
(* attempt.                                                                 *)
(***************************************************************************)
EXTENDS SequencesExt, Integers

-----------------------------------------------------------------------------
(* The shard: its lines, and what a reader makes of a file *)

Line(kind, build, count, state, output) ==
    [kind |-> kind, build |-> build, count |-> count, state |-> state, output |-> output]

\* maker: the build of the pod; records: the kinds of the attempt's records;
\* output: a reference was stored
ToLines(maker, records, state, output) ==
    <<Line("header", maker, 0, "none", FALSE)>>
    \o [i \in DOMAIN records |-> Line(records[i], "none", 0, "none", FALSE)]
    \o <<Line("trailer", "none", Len(records), state, output)>>

Missing == <<>>
Unreadable == [state |-> "unreadable", output |-> FALSE, records |-> <<>>]

\* A file that ends early has no trailer, or one that counts other records
Parse(file) ==
    IF \/ Len(file) < 2
       \/ Head(file).kind # "header" \/ Last(file).kind # "trailer"
       \/ Last(file).count # Len(file) - 2
    THEN Unreadable
    ELSE [state |-> Last(file).state, output |-> Last(file).output,
          records |-> [i \in 1..(Len(file) - 2) |-> file[i + 1].kind]]

\* verify_build: the shard's program must be the reader's, in structure and version
Verified(maker, reader) == maker.graph = reader.graph /\ maker.tool = reader.tool
ReadShard(file, reader) ==
    IF Parse(file) # Unreadable /\ Verified(Head(file).build, reader)
    THEN Parse(file) ELSE Unreadable

\* What the orchestrator replays of a shard: its result, of which it has one at most
Replayed(shard) ==
    LET results == {shard.records[i] : i \in DOMAIN shard.records} \cap {"succeeded", "failed"}
    IN IF results = {} THEN <<>> ELSE <<CHOOSE k \in results : TRUE>>

-----------------------------------------------------------------------------
(* One attempt in the pod *)

\* What the process refuses before the body starts: no shard is written
Refusals == {"usage", "assembly", "build", "arity", "input", "signals", "runtime"}

\* What may go wrong once the body has returned: the value or the shard is not
\* stored, or the process is killed before either is
Unstored == {"output", "shard", "killed"}

\* The records of an attempt whose body returned so; "none": it has not returned
RecordsOf(returned) ==
    <<"admitted", "started">>
    \o CASE returned = "none" -> <<>>
         [] returned = "succeeded" -> <<"succeeded", "terminal">>
         [] OTHER -> <<"failed", "terminal">>

\* Told to terminate, everything but a success is a cancellation
Effective(returned, told) ==
    IF told /\ returned # "succeeded" THEN "cancelled" ELSE returned

ExitOf(state) ==
    CASE state \in {"succeeded", "skipped"} -> "success"
      [] state \in {"cancelled", "abandoned"} -> "cancelled"
      [] OTHER -> "failure"

PhaseOf(exit) == IF exit = "success" THEN "Succeeded" ELSE "Failed"

\* How a body may end: the file it leaves (Missing: none of its own), whether its
\* value reached the blob container, and its exit
End(file, stored, exit) == [file |-> file, stored |-> stored, exit |-> exit]

Refused == {End(Missing, FALSE, r) : r \in Refusals}

\* filled: the body has filled its output slot
Returns(maker, returned, told, filled) ==
    LET state == Effective(returned, told)
        stored == filled /\ state = "succeeded"
    IN End(ToLines(maker, RecordsOf(returned), state, stored), stored, ExitOf(state))

\* The watchdog of a body told to stop: after the grace it writes an abandoned
\* shard and exits.  It looks whether the body has returned, and then writes: a
\* body that returns between the two may have written before it or after it, and
\* either exit may be the process's.
Watchdog(maker) == End(ToLines(maker, RecordsOf("none"), "abandoned", FALSE), FALSE, "cancelled")
Overtaken(maker, returned) ==
    LET late == ToLines(maker, RecordsOf(returned), "abandoned", FALSE)
        own == Returns(maker, returned, TRUE, TRUE)
    IN {End(late, own.stored, exit) : exit \in {"cancelled", own.exit}}
       \cup {[own EXCEPT !.exit = "cancelled"]}

Returned == {"succeeded", "failed"}   \* a body's skip is left out

\* The ends of a body nothing fails for
Ordinary(maker, told) ==
    {Returns(maker, r, told, TRUE) : r \in Returned}
    \cup (IF told THEN {Watchdog(maker)} \cup UNION {Overtaken(maker, r) : r \in Returned}
          ELSE {})

\* The ends something fails in: a refusal, a value or a shard that is not stored, a
\* slot the body left empty, a kill before the shard is in place or after it
Faulty(maker, told) ==
    Refused
    \cup {End(Missing, u = "shard", u) : u \in Unstored}
    \cup {Returns(maker, "succeeded", told, FALSE)}
    \cup {[e EXCEPT !.exit = "killed"] : e \in Ordinary(maker, told)}
=============================================================================
