-------------------------- MODULE MCOutcomePipeline --------------------------
(* Instances of OutcomePipeline: two drivers of one query released alone,  *)
(* and drivers of the P4 pair.                                             *)
EXTENDS OutcomePipeline, TLC

CONSTANTS p5, p4_01, p4_02, d1, d2

OneQuery == {p5}
ThePair == {p4_01, p4_02}
Alone == [p \in Drivers |-> <<p5>>]
Together == [p \in Drivers |-> <<p4_01, p4_02>>]
AnyDriver == Permutations(Drivers)
DateSequences == UNION {[1..n -> 1..SourceDates] : n \in 1..SourceDates}
=============================================================================
