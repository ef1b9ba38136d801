--------------------------- MODULE OutcomeContract ---------------------------
(***************************************************************************)
(* What the outcome registry promises to a reader of results: each unit of *)
(* publication (one query, or the two queries of the P4 pair) is opened,   *)
(* may be abandoned and opened again, and is published at most once; all   *)
(* results of a unit appear in the same step and never change.             *)
(***************************************************************************)
CONSTANTS Units,     \* disjoint sets of queries
          Results,   \* results a query can have
          NoResult

VARIABLES stage,     \* [Units -> {"closed", "open", "published"}]
          value      \* [UNION Units -> Results \cup {NoResult}]

vars == <<stage, value>>

Init ==
  /\ stage = [u \in Units |-> "closed"]
  /\ value = [q \in UNION Units |-> NoResult]

Open(u) ==
  /\ stage[u] = "closed"
  /\ stage' = [stage EXCEPT ![u] = "open"]
  /\ UNCHANGED value

Abandon(u) ==
  /\ stage[u] = "open"
  /\ stage' = [stage EXCEPT ![u] = "closed"]
  /\ UNCHANGED value

Publish(u) ==
  /\ stage[u] = "open"
  /\ stage' = [stage EXCEPT ![u] = "published"]
  /\ \E result \in [u -> Results] :
       value' = [q \in UNION Units |-> IF q \in u THEN result[q] ELSE value[q]]

Next == \E u \in Units : Open(u) \/ Abandon(u) \/ Publish(u)

Spec == Init /\ [][Next]_vars
=============================================================================
