---------------------------- MODULE MCResumePlan -----------------------------
(* 3 feeds 2 and 1, and 2 feeds 1: names run against the data flow.  4 runs   *)
(* after 1 by an ordering edge.  1 is covered by a teardown.                   *)
EXTENDS ResumePlan, TLC

N4 == 1..4
Data4 == 1 :> {2, 3} @@ 2 :> {3} @@ 3 :> {} @@ 4 :> {}
Ups4  == 1 :> {2, 3} @@ 2 :> {3} @@ 3 :> {} @@ 4 :> {1}
=============================================================================
