---------------------------- MODULE MCM0aDaemon ----------------------------
(* A small instance of M0aDaemon for TLC.                                  *)
EXTENDS M0aDaemon, TLC

CONSTANTS r1, n1, p1, p2, o1, o2

MCReal   == {r1}
MCNull   == {n1}
MCParent == [n \in MCNull |-> r1]
MCPlan   == <<r1, n1>>
MCOwners == {o1, o2}
MCWorkers == {p1, p2}
\* Processes with worker ids of their own, and processes that an operator may
\* start with any id, the same one included.
MCOwnOwners == [w \in MCWorkers |-> IF w = p1 THEN {o1} ELSE {o2}]
MCAnyOwners == [w \in MCWorkers |-> MCOwners]

\* Exchanging the processes with their owners leaves the first assignment
\* alone, any permutation of either the second.
MCSymmetry == {[x \in {p1, p2, o1, o2} |-> x],
               p1 :> p2 @@ p2 :> p1 @@ o1 :> o2 @@ o2 :> o1}
MCAnySymmetry == Permutations(MCWorkers) \cup Permutations(MCOwners)
=============================================================================
