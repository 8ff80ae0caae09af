----------------------------- MODULE MCRunStore ------------------------------
(***************************************************************************)
(* The run store: the records of a chain of runs (RunStore), where 2 is    *)
(* durable, its reference carries a content hash, and it feeds 1; and the  *)
(* directories of a chain of invocations (RunDirectory).  Neither reads    *)
(* the other's files, so a behaviour is of one of the two.                 *)
(***************************************************************************)
EXTENDS RunStore, RunDirectory

N2 == 1..2
Chain == 1 :> {2} @@ 2 :> {}

TwoKeys == {<< 0 >>, << 1 >>}
ClashingKeys == {<< >>, << 0 >>}

VARIABLE part

MCInit == part \in {"records", "files"} /\ StoreInit /\ DirectoryInit

MCNext ==
    /\ UNCHANGED part
    /\ \/ part = "records" /\ StoreNext /\ UNCHANGED directoryVars
       \/ part = "files" /\ DirectoryNext /\ UNCHANGED all

MCSpec == MCInit /\ [][MCNext]_<<part, all, directoryVars>>
=============================================================================
