---------------------------- MODULE MCM0bRunner ----------------------------
(* Small instances of M0bRunner for TLC: one candidate, without a control, *)
(* for one worker or for two to compete for.                               *)
EXTENDS M0bRunner, TLC

CONSTANTS r1, t1, t2, t3, t4, w1, w2

MCReal      == {r1}
MCNull      == {}
MCParent    == <<>>
MCOrdinal   == [c \in MCReal |-> 1]
MCControls  == {}
MCControlOf == <<>>
MCTokens    == {t1, t2, t3, t4}
MCWorkers   == {w1, w2}
MCSolo      == {w1}
MCWorkerSymmetry == Permutations(MCWorkers)
=============================================================================
