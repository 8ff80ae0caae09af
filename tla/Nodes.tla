-------------------------------- MODULE Nodes --------------------------------
(***************************************************************************)
(* The registered nodes of a pipeline.  They are numbered in name order,   *)
(* the order of the BTreeMaps the code keeps them in, so "in name order"   *)
(* is the order of the numbers.                                            *)
(***************************************************************************)
EXTENDS Naturals, FiniteSets, Sequences

CONSTANT Node

ASSUME NodeAssumption == Node \subseteq Nat /\ IsFiniteSet(Node)

\* One token for every unit the nodes of S draw, f[n] units each: their number
\* is the sum of the draws.
Tokens(S, f) == UNION {{n} \X (1..f[n]) : n \in S}

\* The elements of s that are in S, in their order.  (SelectSeq, as a function
\* that the provers can unfold.)
Among(s, S) ==
    LET upto[i \in 0..Len(s)] ==
            IF i = 0 THEN << >>
            ELSE IF s[i] \in S THEN Append(upto[i - 1], s[i]) ELSE upto[i - 1]
    IN  upto[Len(s)]
==============================================================================
