---------------------------- MODULE MCOutputSlot -----------------------------
(* 1 feeds 2 and 3, which hold leases; 2 is taken by its owner 4; 3 is read  *)
(* without a lease by 5, which is retained and redeemed after the run.       *)
EXTENDS OutputSlot, TLC

N5 == 1..5
Fork   == 1 :> {} @@ 2 :> {1} @@ 3 :> {1} @@ 4 :> {2} @@ 5 :> {3}
Bytes5 == 1 :> 2 @@ 2 :> 1 @@ 3 :> 3 @@ 4 :> 0 @@ 5 :> 1
=============================================================================
