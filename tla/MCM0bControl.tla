---------------------------- MODULE MCM0bControl ----------------------------
(* A small instance of M0bControl for TLC.                                 *)
EXTENDS M0bControl, TLC

CONSTANTS r1, n1, shift, t1, t2, t3, t4

MCReal      == {r1}
MCNull      == {n1}
MCParent    == [n \in MCNull |-> r1]
MCOrdinal   == [c \in MCReal \cup MCNull |-> 1]
MCControls  == {shift}
MCControlOf == [n \in MCNull |-> shift]
MCAdmitted  == MCReal \cup MCNull
MCTokens    == {t1, t2, t3, t4}
MCSymmetry  == Permutations(MCTokens)
=============================================================================
