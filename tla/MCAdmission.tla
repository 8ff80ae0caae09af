----------------------------- MODULE MCAdmission -----------------------------
(* Two pools, a large node that needs all of both, two that need different  *)
(* pools, a small one, and one that no machine of this size can run.        *)
EXTENDS AdmissionQueue, TLC

N5 == 1..5
Pools == {"memory", "threads"}
Total == "memory" :> 3 @@ "threads" :> 2
Cost5 == 1 :> ("memory" :> 3 @@ "threads" :> 2) @@ 2 :> ("memory" :> 2 @@ "threads" :> 0)
      @@ 3 :> ("memory" :> 1 @@ "threads" :> 1) @@ 4 :> ("memory" :> 1 @@ "threads" :> 2)
      @@ 5 :> ("memory" :> 4 @@ "threads" :> 1)
Residency5 == 1 :> 1 @@ 2 :> 1 @@ 3 :> 0 @@ 4 :> 1 @@ 5 :> 1

\* A small pool for the two statements that do not hold.
N3 == 1..3
Small == "memory" :> 2
Cost3 == 1 :> ("memory" :> 2) @@ 2 :> ("memory" :> 1) @@ 3 :> ("memory" :> 1)
Residency3 == 1 :> 0 @@ 2 :> 1 @@ 3 :> 1
=============================================================================
