------------------------------ MODULE MCRemote ------------------------------
(* Two attempts of one placed node, two pods; the object names are apart from
   the pods' identifiers.  Beside the build the run is started with there is one
   that differs in each of the three surfaces alone. *)
EXTENDS Remote

MCPodName == [a \in Attempt |-> 10 + a]
MCOriginal == [graph |-> 1, tool |-> 1, image |-> 1]
MCBuild == {MCOriginal} \cup {[MCOriginal EXCEPT ![s] = 2] : s \in {"graph", "tool", "image"}}
=============================================================================
