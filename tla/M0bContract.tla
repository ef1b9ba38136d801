---------------------------- MODULE M0bContract ----------------------------
(***************************************************************************)
(* What the M0b control plane promises the researcher, with no leases,     *)
(* tokens, workers or clocks: a candidate is tried at most MaxAttempts     *)
(* times; once one try has computed its result nothing but that result's   *)
(* classification can become of it; it is given up as CRASHED only after   *)
(* its last try; and an epoch ends only when nothing is left open in it.   *)
(***************************************************************************)
EXTENDS Naturals

CONSTANTS
  Candidates,
  Classification,  \* what the numeric rules make of each candidate's metrics
  MaxAttempts

VARIABLES
  phase,    \* "open", "completed" or "failed"
  outcome,  \* per candidate: "absent", "pending", "computed" or a final outcome
  tries     \* per candidate: how often a worker was given it

contractVars == <<phase, outcome, tries>>

Given    == {"REGISTERED", "SCREENED_OUT"}
GivenUp  == {"FAILED", "CRASHED"}
Outcomes == {"absent", "pending", "computed"} \cup Given \cup GivenUp

ContractInit ==
  /\ phase = "open"
  /\ outcome = [c \in Candidates |-> "absent"]
  /\ tries = [c \in Candidates |-> 0]

Goes(c, from, to) == outcome[c] = from /\ outcome'[c] = to
Tried(c) == tries[c] < MaxAttempts /\ tries'[c] = tries[c] + 1

\* What may become of one candidate in one step: admitted, tried (again),
\* computed, classified, or given up.
Advance(c) ==
  \/ outcome'[c] = outcome[c] /\ tries'[c] = tries[c]
  \/ Goes(c, "absent", "pending") /\ tries'[c] = tries[c]
  \/ Goes(c, "pending", "pending") /\ Tried(c)
  \/ Goes(c, "pending", "computed") /\ tries[c] > 0 /\ tries'[c] = tries[c]
  \/ Goes(c, "computed", Classification[c]) /\ tries'[c] = tries[c]
  \/ Goes(c, "pending", "FAILED") /\ tries[c] > 0 /\ tries'[c] = tries[c]
  \/ Goes(c, "pending", "CRASHED") /\ tries[c] = MaxAttempts /\ tries'[c] = tries[c]

Work ==
  /\ phase = "open"
  /\ outcome' \in [Candidates -> Outcomes]
  /\ tries' \in [Candidates -> Nat]
  /\ \A c \in Candidates : Advance(c)
  /\ UNCHANGED phase

Close ==
  /\ phase = "open"
  /\ \/ phase' = "completed" /\ \A c \in Candidates : outcome[c] \in Given \cup {"absent"}
     \/ phase' = "failed" /\ \A c \in Candidates : outcome[c] \in Given \cup GivenUp \cup {"absent"}
  /\ UNCHANGED <<outcome, tries>>

ContractNext == Work \/ Close

ContractSpec == ContractInit /\ [][ContractNext]_contractVars
=============================================================================
