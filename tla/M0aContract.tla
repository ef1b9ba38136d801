---------------------------- MODULE M0aContract ----------------------------
(***************************************************************************)
(* What an M0a epoch promises to the researcher who reads its report, with *)
(* no attempts, leases, workers or clocks: candidates are admitted while   *)
(* generation is open, each is decided once and for good, null controls    *)
(* never survive, and the epoch either completes with every candidate      *)
(* decided or halts because of system errors.                              *)
(***************************************************************************)
EXTENDS Naturals

CONSTANTS Real, Null

VARIABLES
  phase,      \* "open", "completed" or "halted"
  generating, \* may candidates still be admitted?
  decision    \* per candidate: "absent", "pending" or a final decision

contractVars == <<phase, generating, decision>>

DecisionsFor(c) ==
  {"FAILED", "SCREENED_OUT"} \cup (IF c \in Real THEN {"REGISTERED"} ELSE {})

ContractInit ==
  /\ phase = "open"
  /\ generating = TRUE
  /\ decision = [c \in Real \cup Null |-> "absent"]

Undecided == {c \in Real \cup Null : decision[c] = "pending"}

Admit(c) ==
  /\ phase = "open" /\ generating
  /\ decision[c] = "absent"
  /\ decision' = [decision EXCEPT ![c] = "pending"]
  /\ generating' \in BOOLEAN
  /\ UNCHANGED phase

CloseGeneration ==
  /\ phase = "open" /\ generating
  /\ generating' = FALSE
  /\ phase' = IF Undecided = {} THEN "completed" ELSE "open"
  /\ UNCHANGED decision

\* The last decision closes an open epoch whose generation is over; a failure may
\* halt an open one; work in flight when the epoch halts may still be decided.
Decide(c, d) ==
  /\ phase # "completed"
  /\ c \in Undecided
  /\ decision' = [decision EXCEPT ![c] = d]
  /\ \/ phase' = IF phase = "open" /\ ~generating /\ Undecided = {c}
                  THEN "completed" ELSE phase
     \/ phase = "open" /\ d = "FAILED" /\ phase' = "halted"
  /\ UNCHANGED generating

\* A crashed worker halts the epoch without deciding its candidate.
Halt ==
  /\ phase = "open"
  /\ Undecided # {}
  /\ phase' = "halted"
  /\ UNCHANGED <<generating, decision>>

ContractNext ==
  \/ \E c \in Real \cup Null : Admit(c) \/ \E d \in DecisionsFor(c) : Decide(c, d)
  \/ CloseGeneration
  \/ Halt

ContractSpec == ContractInit /\ [][ContractNext]_contractVars
=============================================================================
