---------------------------- MODULE MCM0aLedger ----------------------------
(* A small instance of M0aLedger for TLC: two real candidates, one control. *)
EXTENDS M0aLedger

CONSTANTS r1, r2, n1, w1, w2

MCReal   == {r1, r2}
MCNull   == {n1}
MCOwners == {w1, w2}
MCParent == [n \in MCNull |-> r1]
=============================================================================
