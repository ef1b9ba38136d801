-------------------------- MODULE M0bControlSafety --------------------------
(***************************************************************************)
(* The safety properties of M0bControl hold of every instance.  Together   *)
(* they are not inductive: ControlInvariant is, and implies them all.      *)
(*                                                                         *)
(* The rows of candidates, attempts and decisions agree with one another,  *)
(* and each of the four things the control plane does to them keeps it so: *)
(* a candidate is added, a row ages, an attempt ends, an attempt starts.   *)
(* The tables are parameters, since a claim ends one attempt and starts    *)
(* another in one step.                                                    *)
(***************************************************************************)
EXTENDS M0bControl, FiniteSetTheorems, SequenceTheorems, TLAPS

-----------------------------------------------------------------------------
(* The rows.                                                               *)

Of(att, c)   == {a \in DOMAIN att : att[a].candidate = c}
UpTo(att, a) == {b \in Of(att, att[a].candidate) : b <= a}

Typed(cand, att, dec) ==
  /\ cand \in [Candidates -> Status]
  /\ att \in Seq(Attempt)
  /\ dec \in SUBSET Decision

\* What an attempt row tells of its candidate's and of the decisions.
LeaseTells(att, a) ==
  /\ att[a].lease = "ACTIVE" <=> att[a].status = "RUNNING"
  /\ att[a].status = "RUNNING" => att[a].error = "none"
OutcomeTells(cand, att, dec, a) ==
  LET c == att[a].candidate IN
  /\ att[a].status = "RUNNING" => cand[c] = "RUNNING"
  /\ att[a].status = "SUCCEEDED" =>
       /\ att[a].checkpoints = Shards
       /\ cand[c] = Classification[c]
       /\ [candidate |-> c, attempt |-> a, classification |-> Classification[c]] \in dec
  /\ att[a].status = "FAILED" =>
       /\ att[a].checkpoints # Shards
       /\ cand[c] \in {"RUNNING"} \cup GivenUp \/ \E b \in Of(att, c) : b > a
NumberTells(att, a) ==
  att[a].number = Cardinality(UpTo(att, a)) /\ att[a].number <= MaxAttempts
AttemptsTell(cand, att, dec) == \A a \in DOMAIN att :
  LeaseTells(att, a) /\ OutcomeTells(cand, att, dec, a) /\ NumberTells(att, a)

\* What a candidate row tells of its attempts.
CandidateTells(cand, att, c) ==
  /\ cand[c] \in {"ABSENT", "QUEUED"} <=> Of(att, c) = {}
  /\ cand[c] = "RUNNING" =>
       \/ \E a \in Of(att, c) : att[a].status = "RUNNING"
       \/ /\ \A a \in Of(att, c) : att[a].status = "FAILED"
          /\ Cardinality(Of(att, c)) < MaxAttempts
  /\ cand[c] \in Given => \E a \in Of(att, c) : att[a].status = "SUCCEEDED"
  /\ cand[c] \in GivenUp => \A a \in Of(att, c) : att[a].status = "FAILED"
CandidatesTell(cand, att) == \A c \in Candidates : CandidateTells(cand, att, c)

\* What two attempt rows tell of each other.
LaterFailed(att) == \A a, b \in DOMAIN att :
  a < b /\ att[a].candidate = att[b].candidate => att[a].status = "FAILED"
TokensDiffer(att) == \A a, b \in DOMAIN att : att[a].token = att[b].token => a = b

\* What a decision tells of its attempt.
DecisionsTell(att, dec) == \A d \in dec :
  /\ d.attempt \in DOMAIN att
  /\ att[d.attempt].candidate = d.candidate
  /\ att[d.attempt].status = "SUCCEEDED"
  /\ d.classification = Classification[d.candidate]

RowsAgree(cand, att, dec) ==
  /\ Typed(cand, att, dec)
  /\ AttemptsTell(cand, att, dec)
  /\ CandidatesTell(cand, att)
  /\ LaterFailed(att) /\ TokensDiffer(att)
  /\ DecisionsTell(att, dec)

-----------------------------------------------------------------------------
(* Lemmas about rows.                                                      *)

\* The rows of attempts are numbered from 1 to their count.
LEMMA AttemptRows ==
  ASSUME NEW att \in Seq(Attempt)
  PROVE  /\ Len(att) \in Nat
         /\ DOMAIN att = 1 .. Len(att)
         /\ \A a \in DOMAIN att : /\ att[a] \in Attempt
                                  /\ att[a].candidate \in Candidates
                                  /\ att[a].status \in AttemptStatus
                                  /\ att[a].number \in Nat
                                  /\ att[a].checkpoints \in 0 .. Shards
                                  /\ a \in Nat
  <1>1. /\ Len(att) \in Nat /\ DOMAIN att = 1 .. Len(att)
        /\ \A a \in DOMAIN att : att[a] \in Attempt
    BY LenProperties
  <1>2. \A a \in DOMAIN att : a \in Nat
    BY <1>1
  <1>3. \A a \in DOMAIN att : /\ att[a].candidate \in Candidates
                              /\ att[a].status \in AttemptStatus
                              /\ att[a].number \in Nat
                              /\ att[a].checkpoints \in 0 .. Shards
    BY <1>1 DEF Attempt
  <1>. QED
    BY <1>1, <1>2, <1>3

\* A candidate has finitely many attempts, up to any of them.
LEMMA FiniteRows ==
  ASSUME NEW att \in Seq(Attempt)
  PROVE  /\ \A c : IsFiniteSet(Of(att, c)) /\ Cardinality(Of(att, c)) \in Nat
         /\ \A a \in DOMAIN att : IsFiniteSet(UpTo(att, a))
  <1>1. IsFiniteSet(1 .. Len(att))
    BY AttemptRows, FS_Interval
  <1>2. \A c : Of(att, c) \subseteq 1 .. Len(att)
    BY AttemptRows DEF Of
  <1>3. \A c : IsFiniteSet(Of(att, c))
    BY <1>1, <1>2, FS_Subset
  <1>4. \A a \in DOMAIN att : UpTo(att, a) \subseteq Of(att, att[a].candidate)
    BY DEF UpTo
  <1>5. \A a \in DOMAIN att : IsFiniteSet(UpTo(att, a))
    BY <1>3, <1>4, FS_Subset
  <1>. QED
    BY <1>3, <1>5, FS_CardinalityType

\* The rules classify each candidate, and register no null control.
LEMMA Classified ==
  ASSUME NEW c \in Candidates
  PROVE  /\ Classification[c] \in Given
         /\ c \in Null => Classification[c] = "SCREENED_OUT"
BY ControlAssumption DEF Classification, Given, Candidates

\* The last attempt's number counts a candidate's attempts.
LEMMA LastNumber ==
  ASSUME NEW att \in Seq(Attempt), NEW a \in DOMAIN att, NumberTells(att, a),
         \A b \in Of(att, att[a].candidate) : b <= a
  PROVE  att[a].number = Cardinality(Of(att, att[a].candidate))
  <1>1. UpTo(att, a) = Of(att, att[a].candidate)
    BY DEF UpTo
  <1>. QED
    BY <1>1 DEF NumberTells

-----------------------------------------------------------------------------
(* A candidate is added.                                                   *)

LEMMA CandidateAdded ==
  ASSUME NEW cand, NEW att, NEW dec, RowsAgree(cand, att, dec),
         NEW c \in Candidates, cand[c] = "ABSENT"
  PROVE  RowsAgree([cand EXCEPT ![c] = "QUEUED"], att, dec)
  <1> DEFINE next == [cand EXCEPT ![c] = "QUEUED"]
  <1>1. Typed(next, att, dec)
    BY DEF RowsAgree, Typed, Status
  <1>2. /\ next[c] = "QUEUED"
        /\ \A d \in Candidates : d # c => next[d] = cand[d]
    BY DEF RowsAgree, Typed
  <1>3. Of(att, c) = {}
    BY DEF RowsAgree, CandidatesTell, CandidateTells
  <1>4. \A a \in DOMAIN att : att[a].candidate \in Candidates /\ att[a].candidate # c
    BY <1>3, AttemptRows DEF RowsAgree, Typed, Of
  <1>5. AttemptsTell(next, att, dec)
    BY <1>2, <1>4 DEF RowsAgree, AttemptsTell, OutcomeTells
  <1>6. CandidatesTell(next, att)
    <2>1. CandidateTells(next, att, c)
      BY <1>2, <1>3 DEF CandidateTells, Given, GivenUp
    <2>2. \A d \in Candidates : d # c => CandidateTells(next, att, d)
      BY <1>2 DEF RowsAgree, CandidatesTell, CandidateTells
    <2>. QED
      BY <2>1, <2>2 DEF CandidatesTell
  <1>. QED
    BY <1>1, <1>5, <1>6 DEF RowsAgree

-----------------------------------------------------------------------------
(* Rows age: leases are renewed or run down, checkpoints are added.        *)

LEMMA RowsAged ==
  ASSUME NEW cand, NEW att, NEW dec, RowsAgree(cand, att, dec),
         NEW next \in Seq(Attempt), DOMAIN next = DOMAIN att,
         \A a \in DOMAIN att :
           /\ next[a].candidate = att[a].candidate /\ next[a].number = att[a].number
           /\ next[a].status = att[a].status /\ next[a].lease = att[a].lease
           /\ next[a].token = att[a].token /\ next[a].error = att[a].error
           /\ next[a].checkpoints = att[a].checkpoints \/ att[a].status = "RUNNING"
  PROVE  RowsAgree(cand, next, dec)
  <1>1. Typed(cand, next, dec)
    BY DEF RowsAgree, Typed
  <1>2. \A c : Of(next, c) = Of(att, c)
    BY DEF Of
  <1>3. \A a \in DOMAIN att : UpTo(next, a) = UpTo(att, a)
    BY <1>2 DEF UpTo
  <1>4. AttemptsTell(cand, next, dec)
    <2>. SUFFICES ASSUME NEW a \in DOMAIN att
                  PROVE  LeaseTells(next, a) /\ OutcomeTells(cand, next, dec, a)
                         /\ NumberTells(next, a)
      BY DEF AttemptsTell
    <2>1. LeaseTells(att, a) /\ OutcomeTells(cand, att, dec, a) /\ NumberTells(att, a)
      BY DEF RowsAgree, AttemptsTell
    <2>2. LeaseTells(next, a)
      BY <2>1 DEF LeaseTells
    <2>3. OutcomeTells(cand, next, dec, a)
      BY <2>1, <1>2 DEF OutcomeTells
    <2>4. NumberTells(next, a)
      BY <2>1, <1>3 DEF NumberTells
    <2>. QED
      BY <2>2, <2>3, <2>4
  <1>5. CandidatesTell(cand, next)
    <2>1. \A c \in Candidates : CandidateTells(cand, att, c)
      BY DEF RowsAgree, CandidatesTell
    <2>2. \A c : \A a \in Of(att, c) : next[a].status = att[a].status
      BY DEF Of
    <2>. QED
      BY <2>1, <2>2, <1>2 DEF CandidatesTell, CandidateTells
  <1>6. LaterFailed(next)
    BY DEF RowsAgree, LaterFailed
  <1>7. TokensDiffer(next)
    BY DEF RowsAgree, TokensDiffer
  <1>8. DecisionsTell(next, dec)
    BY DEF RowsAgree, DecisionsTell
  <1>. QED
    BY <1>1, <1>4, <1>5, <1>6, <1>7, <1>8 DEF RowsAgree

-----------------------------------------------------------------------------
(* An attempt ends, and its candidate with it unless another may follow.   *)

\* How a running attempt may end.
Ends(cand, att, dec, a, r, cand2, dec2) ==
  LET c == att[a].candidate IN
  /\ att[a].status = "RUNNING"
  /\ r.candidate = c /\ r.number = att[a].number /\ r.token = att[a].token
  /\ r.checkpoints = att[a].checkpoints /\ r.lease = "RELEASED"
  /\ \/ /\ r.status = "SUCCEEDED" /\ r.checkpoints = Shards
        /\ cand2 = [cand EXCEPT ![c] = Classification[c]]
        /\ dec2 = dec \cup
             {[candidate |-> c, attempt |-> a, classification |-> Classification[c]]}
     \/ /\ r.status = "FAILED" /\ r.checkpoints # Shards
        /\ \/ cand2 = cand /\ r.number < MaxAttempts
           \/ \E g \in GivenUp : cand2 = [cand EXCEPT ![c] = g]
        /\ dec2 = dec

LEMMA RowEnded ==
  ASSUME NEW cand, NEW att, NEW dec, RowsAgree(cand, att, dec),
         NEW a \in DOMAIN att, NEW r \in Attempt, NEW cand2, NEW dec2,
         Ends(cand, att, dec, a, r, cand2, dec2)
  PROVE  RowsAgree(cand2, [att EXCEPT ![a] = r], dec2)
  <1> DEFINE c == att[a].candidate
             next == [att EXCEPT ![a] = r]
             d0 == [candidate |-> c, attempt |-> a, classification |-> Classification[c]]
  <1>1. /\ cand \in [Candidates -> Status] /\ att \in Seq(Attempt) /\ dec \in SUBSET Decision
        /\ c \in Candidates /\ a \in Nat
    BY AttemptRows DEF RowsAgree, Typed
  <1>2. /\ next \in Seq(Attempt) /\ DOMAIN next = DOMAIN att /\ next[a] = r
        /\ \A b \in DOMAIN att : b # a => next[b] = att[b]
    BY <1>1
  <1>3. \A b \in DOMAIN att: /\ next[b].candidate = att[b].candidate
                             /\ next[b].number = att[b].number
                             /\ next[b].token = att[b].token
                             /\ next[b].checkpoints = att[b].checkpoints
    BY <1>2 DEF Ends
  <1>4. att[a].status = "RUNNING" /\ cand[c] = "RUNNING"
    BY DEF Ends, RowsAgree, AttemptsTell, OutcomeTells
  <1>5. Classification[c] \in Given
    BY <1>1, Classified
  <1>6. Typed(cand2, next, dec2)
    <2>1. cand2 \in [Candidates -> Status]
      BY <1>1, <1>5 DEF Ends, Status, Terminal, GivenUp
    <2>2. dec2 \in SUBSET Decision
      BY <1>1, <1>5 DEF Ends, Decision
    <2>. QED
      BY <1>2, <2>1, <2>2 DEF Typed
  <1>7. \A d : Of(next, d) = Of(att, d)
    BY <1>2, <1>3 DEF Of
  <1>8. \A b \in DOMAIN att : UpTo(next, b) = UpTo(att, b)
    BY <1>3, <1>7 DEF UpTo
  <1>9. \A b \in Of(att, c) : b # a => b < a /\ att[b].status = "FAILED"
    <2>. SUFFICES ASSUME NEW b \in Of(att, c), b # a PROVE b < a /\ att[b].status = "FAILED"
      OBVIOUS
    <2>1. b \in DOMAIN att /\ att[b].candidate = c /\ b \in Nat
      BY <1>1, AttemptRows DEF Of
    <2>2. ~(a < b)
      BY <1>4, <2>1 DEF RowsAgree, LaterFailed
    <2>3. b < a
      BY <1>1, <2>1, <2>2
    <2>. QED
      BY <2>1, <2>3 DEF RowsAgree, LaterFailed
  <1>10. a \in Of(att, c)
    BY DEF Of
  <1>11. \A d \in Candidates : d # c => cand2[d] = cand[d]
    BY <1>1 DEF Ends
  <1>12. dec \subseteq dec2
    BY DEF Ends
  <1>13. att[a].number = Cardinality(Of(att, c))
    <2>1. NumberTells(att, a)
      BY DEF RowsAgree, AttemptsTell
    <2>2. \A b \in Of(att, c) : b \in Nat
      BY <1>1, AttemptRows DEF Of
    <2>3. \A b \in Of(att, c) : b <= a
      BY <1>1, <1>9, <2>2
    <2>. QED
      BY <1>1, <2>1, <2>3, LastNumber
  <1>14. AttemptsTell(cand2, next, dec2)
    <2>. SUFFICES ASSUME NEW b \in DOMAIN att
                  PROVE  LeaseTells(next, b) /\ OutcomeTells(cand2, next, dec2, b)
                         /\ NumberTells(next, b)
      BY <1>2 DEF AttemptsTell
    <2>1. LeaseTells(att, b) /\ OutcomeTells(cand, att, dec, b) /\ NumberTells(att, b)
      BY DEF RowsAgree, AttemptsTell
    <2>2. NumberTells(next, b)
      BY <2>1, <1>3, <1>8 DEF NumberTells
    <2>3. CASE b = a
      <3>1. LeaseTells(next, a)
        BY <1>2 DEF LeaseTells, Ends
      <3>2. cand2[c] = cand[c] \/ cand2[c] = Classification[c] \/ cand2[c] \in GivenUp
        BY <1>1 DEF Ends
      <3>3. r.status = "SUCCEEDED" => cand2[c] = Classification[c] /\ d0 \in dec2 /\ r.checkpoints = Shards
        BY <1>1 DEF Ends
      <3>4. r.status = "FAILED" => cand2[c] \in {"RUNNING"} \cup GivenUp /\ r.checkpoints # Shards
        BY <1>1, <1>4 DEF Ends
      <3>5. r.status # "RUNNING"
        BY DEF Ends
      <3>6. OutcomeTells(cand2, next, dec2, a)
        BY <1>2, <1>3, <3>3, <3>4, <3>5 DEF OutcomeTells
      <3>. QED
        BY <2>2, <2>3, <3>1, <3>6
    <2>4. CASE b # a
      <3>1. next[b] = att[b]
        BY <1>2, <2>4
      <3>2. LeaseTells(next, b)
        BY <2>1, <3>1 DEF LeaseTells
      <3>3. CASE att[b].candidate # c
        <4>1. cand2[att[b].candidate] = cand[att[b].candidate]
          BY <1>1, <1>11, <3>3, AttemptRows
        <4>2. OutcomeTells(cand2, next, dec2, b)
          BY <2>1, <3>1, <4>1, <1>7, <1>12 DEF OutcomeTells
        <4>. QED
          BY <2>2, <3>2, <4>2
      <3>4. CASE att[b].candidate = c
        <4>1. b \in Of(att, c)
          BY <3>4 DEF Of
        <4>2. b < a /\ att[b].status = "FAILED"
          BY <1>9, <2>4, <4>1
        <4>3. att[b].checkpoints # Shards
          BY <2>1, <4>2 DEF OutcomeTells
        <4>4. \E x \in Of(next, c) : x > b
          BY <1>1, <1>7, <1>10, <4>2
        <4>5. OutcomeTells(cand2, next, dec2, b)
          BY <3>1, <3>4, <4>2, <4>3, <4>4 DEF OutcomeTells
        <4>. QED
          BY <2>2, <3>2, <4>5
      <3>. QED
        BY <3>3, <3>4
    <2>. QED
      BY <2>3, <2>4
  <1>15. CandidatesTell(cand2, next)
    <2>1. ASSUME NEW d \in Candidates, d # c PROVE CandidateTells(cand2, next, d)
      <3>1. CandidateTells(cand, att, d)
        BY DEF RowsAgree, CandidatesTell
      <3>2. \A b \in Of(att, d) : next[b] = att[b]
        BY <1>2, <2>1 DEF Of
      <3>3. cand2[d] = cand[d]
        BY <1>11, <2>1
      <3>. QED
        BY <3>1, <3>2, <3>3, <1>7 DEF CandidateTells
    <2>2. CandidateTells(cand2, next, c)
      <3>1. \A b \in Of(att, c) : b # a => next[b].status = "FAILED"
        BY <1>2, <1>9 DEF Of
      <3>2. CASE r.status = "SUCCEEDED"
        <4>1. cand2[c] \in Given
          BY <1>1, <1>5, <3>2 DEF Ends
        <4>2. next[a].status = "SUCCEEDED"
          BY <1>2, <3>2
        <4>. QED
          BY <4>1, <4>2, <1>7, <1>10 DEF CandidateTells, Given, GivenUp
      <3>3. CASE r.status # "SUCCEEDED"
        <4>1. r.status = "FAILED"
          BY <3>3 DEF Ends
        <4>2. \A b \in Of(att, c) : next[b].status = "FAILED"
          BY <1>2, <3>1, <4>1
        <4>3. \/ cand2[c] = "RUNNING" /\ Cardinality(Of(att, c)) < MaxAttempts
              \/ cand2[c] \in GivenUp
          BY <1>1, <1>4, <1>13, <4>1 DEF Ends
        <4>. QED
          BY <4>2, <4>3, <1>7, <1>10 DEF CandidateTells, Given, GivenUp
      <3>. QED
        BY <3>2, <3>3
    <2>. QED
      BY <2>1, <2>2 DEF CandidatesTell
  <1>16. LaterFailed(next)
    <2>. SUFFICES ASSUME NEW x \in DOMAIN att, NEW y \in DOMAIN att,
                         x < y, att[x].candidate = att[y].candidate
                  PROVE  next[x].status = "FAILED"
      BY <1>2, <1>3 DEF LaterFailed
    <2>1. att[x].status = "FAILED"
      BY DEF RowsAgree, LaterFailed
    <2>2. x # a
      BY <1>4, <2>1
    <2>. QED
      BY <1>2, <2>1, <2>2
  <1>17. TokensDiffer(next)
    BY <1>2, <1>3 DEF RowsAgree, TokensDiffer
  <1>18. DecisionsTell(next, dec2)
    <2>1. ASSUME NEW d \in dec
          PROVE  /\ d.attempt \in DOMAIN next /\ next[d.attempt].candidate = d.candidate
                 /\ next[d.attempt].status = "SUCCEEDED"
                 /\ d.classification = Classification[d.candidate]
      <3>1. /\ d.attempt \in DOMAIN att /\ att[d.attempt].candidate = d.candidate
            /\ att[d.attempt].status = "SUCCEEDED"
            /\ d.classification = Classification[d.candidate]
        BY DEF RowsAgree, DecisionsTell
      <3>2. d.attempt # a
        BY <1>4, <3>1
      <3>. QED
        BY <1>2, <3>1, <3>2
    <2>2. ASSUME NEW d \in dec2, d \notin dec
          PROVE  d = d0 /\ r.status = "SUCCEEDED"
      BY <2>2 DEF Ends
    <2>3. r.status = "SUCCEEDED" =>
            /\ d0.attempt \in DOMAIN next /\ next[d0.attempt].candidate = d0.candidate
            /\ next[d0.attempt].status = "SUCCEEDED"
            /\ d0.classification = Classification[d0.candidate]
      BY <1>2, <1>3
    <2>. QED
      BY <2>1, <2>2, <2>3 DEF DecisionsTell
  <1>. QED
    BY <1>6, <1>14, <1>15, <1>16, <1>17, <1>18 DEF RowsAgree

-----------------------------------------------------------------------------
(* An attempt starts.                                                      *)

MayStart(cand, att, c) ==
  \/ cand[c] = "QUEUED"
  \/ /\ cand[c] = "RUNNING"
     /\ \A a \in Of(att, c) : att[a].status = "FAILED"
     /\ Cardinality(Of(att, c)) < MaxAttempts

LEMMA NewAttemptRow ==
  ASSUME NEW c \in Candidates, NEW n \in Nat \ {0}, NEW token \in Tokens, NEW wait \in Nat
  PROVE  LET r == NewAttempt(c, n, token, wait) IN
         /\ r \in Attempt
         /\ r.candidate = c /\ r.number = n /\ r.token = token
         /\ r.status = "RUNNING" /\ r.lease = "ACTIVE" /\ r.error = "none"
  <1>1. LeaseTicks - wait \in Int /\ 0 \in 0 .. Shards
    BY ControlAssumption
  <1>. QED
    BY <1>1 DEF NewAttempt, Attempt, AttemptStatus, Errors

LEMMA RowStarted ==
  ASSUME NEW cand, NEW att, NEW dec, RowsAgree(cand, att, dec),
         NEW c \in Candidates, MayStart(cand, att, c),
         NEW token \in Tokens, \A a \in DOMAIN att : att[a].token # token,
         NEW wait \in Nat
  PROVE  RowsAgree([cand EXCEPT ![c] = "RUNNING"],
                   Append(att, NewAttempt(c, Cardinality(Of(att, c)) + 1, token, wait)), dec)
  <1> DEFINE k == Cardinality(Of(att, c))
             r == NewAttempt(c, k + 1, token, wait)
             n == Len(att) + 1
             next == Append(att, r)
             cand2 == [cand EXCEPT ![c] = "RUNNING"]
  <1>1. cand \in [Candidates -> Status] /\ att \in Seq(Attempt) /\ dec \in SUBSET Decision
    BY DEF RowsAgree, Typed
  <1>2. k \in Nat /\ IsFiniteSet(Of(att, c))
    BY <1>1, FiniteRows
  <1>3. /\ r \in Attempt /\ r.candidate = c /\ r.number = k + 1 /\ r.token = token
        /\ r.status = "RUNNING" /\ r.lease = "ACTIVE" /\ r.error = "none"
    BY <1>2, NewAttemptRow
  <1>4. Len(att) \in Nat /\ DOMAIN att = 1 .. Len(att)
    BY <1>1, AttemptRows
  <1>5. /\ next \in Seq(Attempt) /\ DOMAIN next = 1 .. n /\ next[n] = r
        /\ \A a \in DOMAIN att : next[a] = att[a]
    BY <1>1, <1>3, <1>4, AppendProperties
  <1>6. /\ DOMAIN next = DOMAIN att \cup {n} /\ n \notin DOMAIN att /\ n \in Nat
        /\ \A a \in DOMAIN att : a \in Nat /\ a < n
    BY <1>4, <1>5
  <1>7. Of(next, c) = Of(att, c) \cup {n} /\ n \notin Of(att, c)
    BY <1>3, <1>5, <1>6 DEF Of
  <1>8. \A d : d # c => Of(next, d) = Of(att, d)
    BY <1>3, <1>5, <1>6 DEF Of
  <1>9. \A a \in DOMAIN att : UpTo(next, a) = UpTo(att, a)
    <2>. SUFFICES ASSUME NEW a \in DOMAIN att PROVE UpTo(next, a) = UpTo(att, a)
      OBVIOUS
    <2>1. next[a].candidate = att[a].candidate /\ a < n /\ ~(n <= a) /\ a \in Nat
      BY <1>5, <1>6
    <2>2. Of(next, att[a].candidate) \ {n} = Of(att, att[a].candidate) \ {n}
      BY <1>7, <1>8
    <2>. QED
      BY <2>1, <2>2, <1>6 DEF UpTo, Of
  <1>10. UpTo(next, n) = Of(att, c) \cup {n}
    <2>1. \A a \in Of(att, c) \cup {n} : a <= n
      BY <1>6 DEF Of
    <2>. QED
      BY <2>1, <1>3, <1>5, <1>7 DEF UpTo
  <1>11. Cardinality(UpTo(next, n)) = k + 1
    BY <1>2, <1>7, <1>10, FS_AddElement
  <1>12. /\ cand[c] \in {"QUEUED", "RUNNING"}
         /\ \A a \in Of(att, c) : att[a].status = "FAILED"
         /\ k < MaxAttempts
    <2>1. CASE cand[c] = "QUEUED"
      <3>1. Of(att, c) = {}
        BY <2>1 DEF RowsAgree, CandidatesTell, CandidateTells
      <3>2. k = 0
        BY <3>1, FS_EmptySet
      <3>. QED
        BY <2>1, <3>1, <3>2, ControlAssumption
    <2>2. CASE cand[c] = "RUNNING"
      BY <2>2 DEF MayStart
    <2>. QED
      BY <2>1, <2>2 DEF MayStart
  <1>13. cand2[c] = "RUNNING" /\ \A d \in Candidates : d # c => cand2[d] = cand[d]
    BY <1>1
  <1>14. Typed(cand2, next, dec)
    BY <1>1, <1>5 DEF Typed, Status
  <1>15. AttemptsTell(cand2, next, dec)
    <2>1. ASSUME NEW a \in DOMAIN att
          PROVE  LeaseTells(next, a) /\ OutcomeTells(cand2, next, dec, a) /\ NumberTells(next, a)
      <3>1. LeaseTells(att, a) /\ OutcomeTells(cand, att, dec, a) /\ NumberTells(att, a)
        BY DEF RowsAgree, AttemptsTell
      <3>2. next[a] = att[a] /\ att[a].candidate \in Candidates
        BY <1>1, <1>5, AttemptRows
      <3>3. LeaseTells(next, a) /\ NumberTells(next, a)
        BY <1>9, <3>1, <3>2 DEF LeaseTells, NumberTells
      <3>4. CASE att[a].candidate # c
        <4>1. cand2[att[a].candidate] = cand[att[a].candidate]
              /\ Of(next, att[a].candidate) = Of(att, att[a].candidate)
          BY <1>8, <1>13, <3>2, <3>4
        <4>2. OutcomeTells(cand2, next, dec, a)
          BY <3>1, <3>2, <4>1 DEF OutcomeTells
        <4>. QED
          BY <3>3, <4>2
      <3>5. CASE att[a].candidate = c
        <4>1. att[a].status = "FAILED"
          BY <1>12, <3>5 DEF Of
        <4>2. OutcomeTells(cand2, next, dec, a)
          BY <3>1, <3>2, <3>5, <4>1, <1>13 DEF OutcomeTells
        <4>. QED
          BY <3>3, <4>2
      <3>. QED
        BY <3>4, <3>5
    <2>2. LeaseTells(next, n)
      BY <1>3, <1>5 DEF LeaseTells
    <2>3. OutcomeTells(cand2, next, dec, n)
      BY <1>3, <1>5, <1>13 DEF OutcomeTells
    <2>4. NumberTells(next, n)
      BY <1>2, <1>3, <1>5, <1>11, <1>12, ControlAssumption DEF NumberTells
    <2>. QED
      BY <2>1, <2>2, <2>3, <2>4, <1>6 DEF AttemptsTell
  <1>16. CandidatesTell(cand2, next)
    <2>1. ASSUME NEW d \in Candidates, d # c PROVE CandidateTells(cand2, next, d)
      <3>1. CandidateTells(cand, att, d)
        BY DEF RowsAgree, CandidatesTell
      <3>2. \A a \in Of(att, d) : next[a] = att[a]
        BY <1>5 DEF Of
      <3>3. cand2[d] = cand[d] /\ Of(next, d) = Of(att, d)
        BY <1>8, <1>13, <2>1
      <3>. QED
        BY <3>1, <3>2, <3>3 DEF CandidateTells
    <2>2. CandidateTells(cand2, next, c)
      BY <1>3, <1>5, <1>7, <1>13 DEF CandidateTells, Given, GivenUp
    <2>. QED
      BY <2>1, <2>2 DEF CandidatesTell
  <1>17. LaterFailed(next)
    <2>. SUFFICES ASSUME NEW x \in DOMAIN next, NEW y \in DOMAIN next,
                         x < y, next[x].candidate = next[y].candidate
                  PROVE  next[x].status = "FAILED"
      BY DEF LaterFailed
    <2>1. x \in DOMAIN att
      BY <1>6
    <2>2. CASE y = n
      BY <2>1, <2>2, <1>3, <1>5, <1>12 DEF Of
    <2>3. CASE y \in DOMAIN att
      BY <2>1, <2>3, <1>5 DEF RowsAgree, LaterFailed
    <2>. QED
      BY <2>2, <2>3, <1>6
  <1>18. TokensDiffer(next)
    <2>. SUFFICES ASSUME NEW x \in DOMAIN next, NEW y \in DOMAIN next,
                         next[x].token = next[y].token
                  PROVE  x = y
      BY DEF TokensDiffer
    <2>1. CASE x \in DOMAIN att /\ y \in DOMAIN att
      BY <2>1, <1>5 DEF RowsAgree, TokensDiffer
    <2>2. CASE x = n \/ y = n
      BY <2>2, <1>3, <1>5, <1>6
    <2>. QED
      BY <2>1, <2>2, <1>6
  <1>19. DecisionsTell(next, dec)
    BY <1>5, <1>6 DEF RowsAgree, DecisionsTell
  <1>. QED
    BY <1>14, <1>15, <1>16, <1>17, <1>18, <1>19 DEF RowsAgree

-----------------------------------------------------------------------------
(* The invariant.                                                          *)

\* What the epoch row tells of the others.
EpochAgrees ==
  /\ epochStatus \in Ended => \A c \in Candidates : candidates[c] \in {"ABSENT"} \cup Terminal
  /\ epochStatus = "COMPLETED" => \A c \in Candidates : candidates[c] \in {"ABSENT"} \cup Given
  /\ \A a \in DOMAIN attempts : attempts[a].status = "RUNNING" => epochStatus = "RUNNING"

ControlInvariant ==
  /\ epochStatus \in EpochStatus
  /\ RowsAgree(candidates, attempts, decisions)
  /\ EpochAgrees

-----------------------------------------------------------------------------
(* Facts the steps use.                                                    *)

LEMMA Tables ==
  ASSUME ControlInvariant
  PROVE  /\ candidates \in [Candidates -> Status]
         /\ attempts \in Seq(Attempt)
         /\ decisions \in SUBSET Decision
         /\ DOMAIN attempts = 1 .. Len(attempts) /\ Len(attempts) \in Nat
         /\ \A a \in DOMAIN attempts : attempts[a] \in Attempt /\ CandidateOf(a) \in Candidates
  <1>1. /\ candidates \in [Candidates -> Status] /\ attempts \in Seq(Attempt)
        /\ decisions \in SUBSET Decision
    BY DEF ControlInvariant, RowsAgree, Typed
  <1>. QED
    BY <1>1, AttemptRows DEF CandidateOf

LEMMA AttemptedIsOf == \A c : Attempted(c) = Of(attempts, c)
BY DEF Attempted, Of, CandidateOf

\* A leased attempt runs, its candidate too, and the epoch.
LEMMA Leased ==
  ASSUME ControlInvariant, NEW a \in DOMAIN attempts, attempts[a].lease = "ACTIVE"
  PROVE  /\ attempts[a].status = "RUNNING" /\ attempts[a].error = "none"
         /\ candidates[CandidateOf(a)] = "RUNNING"
         /\ epochStatus = "RUNNING"
  <1>1. attempts[a].status = "RUNNING" /\ attempts[a].error = "none"
    BY DEF ControlInvariant, RowsAgree, AttemptsTell, LeaseTells
  <1>2. candidates[CandidateOf(a)] = "RUNNING"
    BY <1>1 DEF ControlInvariant, RowsAgree, AttemptsTell, OutcomeTells, CandidateOf
  <1>. QED
    BY <1>1, <1>2 DEF ControlInvariant, EpochAgrees

\* While the epoch runs, its own part of the invariant is not in danger.
LEMMA RunningAgrees ==
  ASSUME ControlInvariant, epochStatus = "RUNNING", epochStatus' = epochStatus,
         RowsAgree(candidates', attempts', decisions')
  PROVE  ControlInvariant'
  <1>1. epochStatus' \in EpochStatus
    BY DEF ControlInvariant
  <1>2. EpochAgrees'
    BY DEF EpochAgrees, Ended
  <1>3. RowsAgree(candidates, attempts, decisions)'
    BY DEF RowsAgree, Typed, AttemptsTell, LeaseTells, OutcomeTells, NumberTells, UpTo, Of,
           CandidatesTell, CandidateTells, LaterFailed, TokensDiffer, DecisionsTell
  <1>. QED
    BY <1>1, <1>2, <1>3 DEF ControlInvariant

-----------------------------------------------------------------------------
(* Every step preserves the invariant, moves candidates as the triggers    *)
(* allow, and leaves released rows and live leases alone.                  *)

CandidateSteps == \A c \in Candidates :
  candidates'[c] # candidates[c] => <<candidates[c], candidates'[c]>> \in CandidateMoves
RowSteps ==
  /\ Len(attempts') >= Len(attempts)
  /\ \A a \in DOMAIN attempts :
       /\ a \in DOMAIN attempts' /\ attempts'[a].candidate = attempts[a].candidate
       /\ attempts[a].lease = "RELEASED" => attempts'[a] = attempts[a]
       /\ attempts[a].lease = "ACTIVE" /\ attempts[a].left >= 0 => attempts'[a].error # "expired"
StepKeeps == ControlInvariant' /\ CandidateSteps /\ RowSteps

\* No live lease is marked expired.
LEMMA LiveErrors ==
  ASSUME ControlInvariant, NEW a \in DOMAIN attempts, attempts[a].lease = "ACTIVE"
  PROVE  attempts[a].error # "expired"
BY Leased

LEMMA AttemptsKept ==
  ASSUME ControlInvariant, attempts' = attempts
  PROVE  RowSteps
  <1>1. Len(attempts') >= Len(attempts)
    BY Tables
  <1>. QED
    BY <1>1, LiveErrors DEF RowSteps

LEMMA RegisterCandidateKeeps ==
  ASSUME ControlInvariant, NEW c \in Candidates, RegisterCandidate(c)
  PROVE  StepKeeps
  <1>1. /\ candidates[c] = "ABSENT" /\ epochStatus \notin Ended
        /\ candidates' = [candidates EXCEPT ![c] = "QUEUED"]
        /\ UNCHANGED <<epochStatus, attempts, decisions>>
    BY DEF RegisterCandidate, Registered
  <1>2. RowsAgree(candidates, attempts, decisions)
    BY DEF ControlInvariant
  <1>3. RowsAgree(candidates', attempts', decisions')
    BY <1>1, <1>2, CandidateAdded
  <1>4. EpochAgrees'
    BY <1>1 DEF ControlInvariant, EpochAgrees, Ended
  <1>5. CandidateSteps
    BY <1>1, Tables DEF CandidateSteps, CandidateMoves
  <1>. QED
    BY <1>1, <1>3, <1>4, <1>5, AttemptsKept DEF StepKeeps, ControlInvariant

LEMMA StartEpochKeeps ==
  ASSUME ControlInvariant, StartEpoch
  PROVE  StepKeeps
  <1>1. epochStatus' = "RUNNING" /\ UNCHANGED <<candidates, attempts, decisions>>
    BY DEF StartEpoch
  <1>2. RowsAgree(candidates', attempts', decisions')
    BY <1>1 DEF ControlInvariant
  <1>3. EpochAgrees' /\ epochStatus' \in EpochStatus
    BY <1>1 DEF EpochAgrees, Ended, EpochStatus
  <1>. QED
    BY <1>1, <1>2, <1>3, AttemptsKept DEF StepKeeps, CandidateSteps, ControlInvariant

LEMMA FinishEpochKeeps ==
  ASSUME ControlInvariant, NEW status \in Ended, FinishEpoch(status)
  PROVE  StepKeeps
  <1>1. epochStatus' = status /\ UNCHANGED <<candidates, attempts, decisions>>
    BY DEF FinishEpoch
  <1>2. \A a \in DOMAIN attempts : attempts[a].status # "RUNNING"
    BY DEF FinishEpoch, CanFinish
  <1>3. \A c \in Candidates : /\ candidates[c] \in {"ABSENT"} \cup Terminal
                              /\ status = "COMPLETED" => candidates[c] \in {"ABSENT"} \cup Given
    BY DEF FinishEpoch, CanFinish, Registered, Terminal
  <1>4. RowsAgree(candidates', attempts', decisions')
    BY <1>1 DEF ControlInvariant
  <1>5. candidates' = candidates /\ attempts' = attempts
    BY <1>1
  <1>6. \A a \in DOMAIN attempts' : attempts'[a].status # "RUNNING"
    BY <1>2, <1>5
  <1>7. EpochAgrees'
    <2>1. ASSUME NEW c \in Candidates
          PROVE  /\ candidates'[c] \in {"ABSENT"} \cup Terminal
                 /\ epochStatus' = "COMPLETED" => candidates'[c] \in {"ABSENT"} \cup Given
      <3>1. candidates'[c] = candidates[c] /\ epochStatus' = status
        BY <1>1, <1>5
      <3>. QED
        BY <3>1, <1>3
    <2>. QED
      BY <2>1, <1>6 DEF EpochAgrees
  <1>8. epochStatus' \in EpochStatus
    BY <1>1 DEF EpochStatus
  <1>. QED
    BY <1>1, <1>4, <1>7, <1>8, AttemptsKept DEF StepKeeps, CandidateSteps, ControlInvariant

\* What renewals, checkpoints and the clock have in common.
Ages(a, r) ==
  /\ r \in Attempt
  /\ r.candidate = attempts[a].candidate /\ r.number = attempts[a].number
  /\ r.status = attempts[a].status /\ r.lease = attempts[a].lease
  /\ r.token = attempts[a].token /\ r.error = attempts[a].error
  /\ r.checkpoints = attempts[a].checkpoints \/ attempts[a].status = "RUNNING"
  /\ attempts[a].lease = "RELEASED" => r = attempts[a]

LEMMA AgingKeeps ==
  ASSUME ControlInvariant, attempts' \in Seq(Attempt), DOMAIN attempts' = DOMAIN attempts,
         \A a \in DOMAIN attempts : Ages(a, attempts'[a]),
         UNCHANGED <<epochStatus, candidates, decisions>>
  PROVE  StepKeeps
  <1>1. RowsAgree(candidates, attempts, decisions)
    BY DEF ControlInvariant
  <1>2. RowsAgree(candidates, attempts', decisions)
    BY <1>1, RowsAged DEF Ages
  <1>3. RowsAgree(candidates', attempts', decisions')
    BY <1>2
  <1>4. EpochAgrees'
    BY DEF ControlInvariant, EpochAgrees, Ages
  <1>5. Len(attempts') = Len(attempts)
    BY Tables, LenProperties
  <1>6. RowSteps
    BY <1>5, Tables, LiveErrors DEF RowSteps, Ages
  <1>. QED
    BY <1>3, <1>4, <1>6 DEF StepKeeps, CandidateSteps, ControlInvariant

LEMMA OneAges ==
  ASSUME ControlInvariant, NEW a \in DOMAIN attempts, NEW r, Ages(a, r),
         attempts' = [attempts EXCEPT ![a] = r],
         UNCHANGED <<epochStatus, candidates, decisions>>
  PROVE  StepKeeps
  <1>1. attempts' \in Seq(Attempt) /\ DOMAIN attempts' = DOMAIN attempts
        /\ attempts'[a] = r /\ \A b \in DOMAIN attempts : b # a => attempts'[b] = attempts[b]
    BY Tables DEF Ages
  <1>2. \A b \in DOMAIN attempts : b # a => Ages(b, attempts'[b])
    BY <1>1, Tables DEF Ages
  <1>. QED
    BY <1>1, <1>2, AgingKeeps

LEMMA RenewLeaseKeeps ==
  ASSUME ControlInvariant, NEW a \in DOMAIN attempts, NEW wait \in Nat, RenewLease(a, wait)
  PROVE  StepKeeps
  <1> DEFINE r == [attempts[a] EXCEPT !.left = LeaseTicks - wait]
  <1>1. attempts[a].lease = "ACTIVE"
    BY DEF RenewLease
  <1>2. attempts' = [attempts EXCEPT ![a] = r] /\ UNCHANGED <<epochStatus, candidates, decisions>>
    BY DEF RenewLease
  <1>3. attempts[a] \in Attempt /\ LeaseTicks - wait \in Int
    BY Tables, ControlAssumption
  <1>4. Ages(a, r)
    BY <1>1, <1>3 DEF Ages, Attempt
  <1>. QED
    BY <1>2, <1>4, OneAges

LEMMA CheckpointKeeps ==
  ASSUME ControlInvariant, NEW a \in DOMAIN attempts, NEW wait \in Nat, Checkpoint(a, wait)
  PROVE  StepKeeps
  <1> DEFINE r == Checkpointed(attempts[a], wait)
  <1>1. attempts[a].lease = "ACTIVE" /\ attempts[a].checkpoints # Shards
    BY DEF Checkpoint, CanCheckpoint, Live, Finished
  <1>2. attempts' = [attempts EXCEPT ![a] = r] /\ UNCHANGED <<epochStatus, candidates, decisions>>
    BY DEF Checkpoint
  <1>3. attempts[a] \in Attempt /\ CheckpointTicks - wait \in Int
    BY Tables, ControlAssumption
  <1>4. attempts[a].checkpoints + 1 \in 0 .. Shards
    BY <1>1, <1>3, ControlAssumption DEF Attempt
  <1>5. Ages(a, r)
    BY <1>1, <1>3, <1>4, Leased DEF Ages, Attempt, Checkpointed
  <1>. QED
    BY <1>2, <1>5, OneAges

LEMMA TickKeeps ==
  ASSUME ControlInvariant, Tick
  PROVE  StepKeeps
  <1> DEFINE Aged(a) == IF attempts[a].lease = "ACTIVE" /\ attempts[a].left > -MaxWait - 1
                        THEN [attempts[a] EXCEPT !.left = @ - 1] ELSE attempts[a]
  <1>1. attempts' = [a \in DOMAIN attempts |-> Aged(a)]
        /\ UNCHANGED <<epochStatus, candidates, decisions>>
    BY DEF Tick
  <1>2. \A a \in DOMAIN attempts : Ages(a, Aged(a))
    <2>. SUFFICES ASSUME NEW a \in DOMAIN attempts PROVE Ages(a, Aged(a))
      OBVIOUS
    <2>1. attempts[a] \in Attempt
      BY Tables
    <2>. QED
      BY <2>1 DEF Ages, Attempt
  <1>3. attempts' \in [1 .. Len(attempts) -> Attempt] /\ DOMAIN attempts' = DOMAIN attempts
    BY <1>1, <1>2, Tables DEF Ages
  <1>4. attempts' \in Seq(Attempt)
    BY <1>3, Tables, SeqDef
  <1>5. \A a \in DOMAIN attempts : Ages(a, attempts'[a])
    BY <1>1, <1>2
  <1>. QED
    BY <1>1, <1>3, <1>4, <1>5, AgingKeeps

\* What terminalize, fail and recovery have in common: the row of a running
\* attempt is replaced by an ended one.
LEMMA EndedRow ==
  ASSUME ControlInvariant, NEW a \in DOMAIN attempts,
         NEW status \in AttemptStatus, NEW error \in Errors, NEW retryable \in BOOLEAN
  PROVE  LET r == EndedAttempt(attempts[a], status, error, retryable) IN
         /\ r \in Attempt
         /\ r.candidate = attempts[a].candidate /\ r.number = attempts[a].number
         /\ r.token = attempts[a].token /\ r.checkpoints = attempts[a].checkpoints
         /\ r.lease = "RELEASED" /\ r.status = status /\ r.error = error
  <1>1. attempts[a] \in Attempt
    BY Tables
  <1>. QED
    BY <1>1 DEF EndedAttempt, Attempt

LEMMA EndingKeeps ==
  ASSUME ControlInvariant, NEW a \in DOMAIN attempts, attempts[a].lease = "ACTIVE",
         NEW r \in Attempt, r.error # "expired", attempts' = [attempts EXCEPT ![a] = r],
         Ends(candidates, attempts, decisions, a, r, candidates', decisions'),
         epochStatus' = epochStatus
  PROVE  StepKeeps
  <1>1. RowsAgree(candidates, attempts, decisions)
    BY DEF ControlInvariant
  <1>2. RowsAgree(candidates', attempts', decisions')
    BY <1>1, RowEnded
  <1>3. ControlInvariant'
    BY <1>2, Leased, RunningAgrees
  <1>4. attempts' \in Seq(Attempt) /\ DOMAIN attempts' = DOMAIN attempts
        /\ attempts'[a] = r /\ \A b \in DOMAIN attempts : b # a => attempts'[b] = attempts[b]
    BY Tables
  <1>5. Len(attempts') = Len(attempts)
    BY <1>4, Tables, LenProperties
  <1>6. RowSteps
    <2>1. ASSUME NEW b \in DOMAIN attempts
          PROVE  /\ b \in DOMAIN attempts' /\ attempts'[b].candidate = attempts[b].candidate
                 /\ attempts[b].lease = "RELEASED" => attempts'[b] = attempts[b]
                 /\ attempts[b].lease = "ACTIVE" => attempts'[b].error # "expired"
      <3>1. CASE b = a
        BY <1>4, <3>1 DEF Ends
      <3>2. CASE b # a
        BY <1>4, <3>2, LiveErrors
      <3>. QED
        BY <3>1, <3>2
    <2>. QED
      BY <1>5, <2>1, Tables DEF RowSteps
  <1>7. CandidateSteps
    <2>. SUFFICES ASSUME NEW c \in Candidates, candidates'[c] # candidates[c]
                  PROVE  <<candidates[c], candidates'[c]>> \in CandidateMoves
      BY DEF CandidateSteps
    <2>1. attempts[a].candidate \in Candidates /\ candidates[attempts[a].candidate] = "RUNNING"
      BY Tables, Leased DEF CandidateOf
    <2>2. Classification[attempts[a].candidate] \in Given
      BY <2>1, Classified
    <2>3. c = attempts[a].candidate /\ candidates'[c] \in Given \cup GivenUp
      BY <2>2, Tables DEF Ends
    <2>. QED
      BY <2>1, <2>3 DEF CandidateMoves, Terminal
  <1>. QED
    BY <1>3, <1>6, <1>7 DEF StepKeeps

LEMMA TerminalizeKeeps ==
  ASSUME ControlInvariant, NEW a \in DOMAIN attempts, NEW wait \in Nat, Terminalize(a, wait)
  PROVE  StepKeeps
  <1> DEFINE r == EndedAttempt(attempts[a], "SUCCEEDED", "none", FALSE)
             c == attempts[a].candidate
  <1>1. /\ attempts[a].lease = "ACTIVE" /\ attempts[a].status = "RUNNING"
        /\ attempts[a].checkpoints = Shards
    BY DEF Terminalize, CanTerminalize, Live, Finished
  <1>2. /\ attempts' = [attempts EXCEPT ![a] = r] /\ epochStatus' = epochStatus
        /\ candidates' = [candidates EXCEPT ![c] = Classification[c]]
        /\ decisions' = decisions \cup
             {[candidate |-> c, attempt |-> a, classification |-> Classification[c]]}
    BY DEF Terminalize, CandidateOf
  <1>3. "SUCCEEDED" \in AttemptStatus /\ "none" \in Errors /\ FALSE \in BOOLEAN
    BY DEF AttemptStatus, Errors
  <1>4. /\ r \in Attempt /\ r.candidate = c /\ r.number = attempts[a].number
        /\ r.token = attempts[a].token /\ r.checkpoints = attempts[a].checkpoints
        /\ r.lease = "RELEASED" /\ r.status = "SUCCEEDED" /\ r.error = "none"
    BY <1>3, Tables DEF EndedAttempt, Attempt
  <1>5. Ends(candidates, attempts, decisions, a, r, candidates', decisions')
    BY <1>1, <1>2, <1>4 DEF Ends
  <1>. QED
    BY <1>1, <1>2, <1>4, <1>5, EndingKeeps

LEMMA FailKeeps ==
  ASSUME ControlInvariant, NEW a \in DOMAIN attempts, NEW wait \in Nat,
         NEW retryable \in BOOLEAN, Fail(a, wait, retryable)
  PROVE  StepKeeps
  <1> DEFINE r == EndedAttempt(attempts[a], "FAILED", "work", retryable)
             c == attempts[a].candidate
  <1>1. /\ attempts[a].lease = "ACTIVE" /\ attempts[a].status = "RUNNING"
        /\ attempts[a].checkpoints # Shards
    BY DEF Fail, CanFail, Live, Finished
  <1>2. /\ attempts' = [attempts EXCEPT ![a] = r]
        /\ epochStatus' = epochStatus /\ decisions' = decisions
        /\ \/ candidates' = candidates /\ ~(attempts[a].number >= MaxAttempts)
           \/ candidates' = [candidates EXCEPT ![c] = "FAILED"]
    BY DEF Fail, CandidateOf, Exhausted
  <1>3. "FAILED" \in AttemptStatus /\ "work" \in Errors /\ "FAILED" \in GivenUp
    BY DEF AttemptStatus, Errors, GivenUp
  <1>4. /\ r \in Attempt /\ r.candidate = c /\ r.number = attempts[a].number
        /\ r.token = attempts[a].token /\ r.checkpoints = attempts[a].checkpoints
        /\ r.lease = "RELEASED" /\ r.status = "FAILED" /\ r.error = "work"
    BY <1>3, EndedRow
  <1>5. attempts[a].number \in Nat /\ MaxAttempts \in Nat
    BY Tables, ControlAssumption DEF Attempt
  <1>6. candidates' = candidates => r.number < MaxAttempts
        \/ \E g \in GivenUp : candidates' = [candidates EXCEPT ![c] = g]
    BY <1>2, <1>3, <1>4, <1>5
  <1>7. Ends(candidates, attempts, decisions, a, r, candidates', decisions')
    BY <1>1, <1>2, <1>3, <1>4, <1>5, <1>6 DEF Ends
  <1>. QED
    BY <1>1, <1>2, <1>4, <1>7, EndingKeeps

-----------------------------------------------------------------------------
(* A claim recovers first (or not), then starts an attempt (or finds none). *)

\* What recovering s leaves behind.
Recovers(s) ==
  /\ RowsAgree(CandidatesRecovering(s), AttemptsRecovering(s), decisions)
  /\ DOMAIN AttemptsRecovering(s) = DOMAIN attempts
  /\ Len(AttemptsRecovering(s)) = Len(attempts)
  /\ \A a \in DOMAIN attempts :
       /\ AttemptsRecovering(s)[a].candidate = attempts[a].candidate
       /\ AttemptsRecovering(s)[a].token = attempts[a].token
       /\ a # s => AttemptsRecovering(s)[a] = attempts[a]
  /\ s # 0 => ~(attempts[s].lease = "RELEASED") /\ ~(attempts[s].left >= 0)
  /\ \A c \in Candidates : CandidatesRecovering(s)[c] # candidates[c] =>
       <<candidates[c], CandidatesRecovering(s)[c]>> \in CandidateMoves
  /\ \A c \in Candidates : CandidatesRecovering(s)[c] \in {"QUEUED", "RUNNING"} =>
       CandidatesRecovering(s)[c] = candidates[c]

LEMMA Recovery ==
  ASSUME ControlInvariant, NEW wait \in Nat, NEW s \in {0} \cup DOMAIN attempts,
         s # 0 => Recoverable(s, wait)
  PROVE  Recovers(s)
  <1>0. 0 \notin DOMAIN attempts /\ RowsAgree(candidates, attempts, decisions)
    BY Tables DEF ControlInvariant
  <1>1. CASE s = 0
    <2>1. AttemptsRecovering(s) = attempts /\ CandidatesRecovering(s) = candidates
      BY <1>1 DEF AttemptsRecovering, CandidatesRecovering
    <2>. QED
      BY <1>0, <1>1, <2>1 DEF Recovers
  <1>2. CASE s # 0
    <2> DEFINE r == EndedAttempt(attempts[s], "FAILED", "expired", ~Exhausted(s))
               c == attempts[s].candidate
    <2>1. s \in DOMAIN attempts /\ attempts[s] \in Attempt /\ c \in Candidates
      BY <1>2, Tables DEF CandidateOf
    <2>2. /\ attempts[s].lease = "ACTIVE" /\ attempts[s].left < -wait
          /\ attempts[s].status = "RUNNING" /\ candidates[c] = "RUNNING"
          /\ attempts[s].checkpoints # Shards
      BY <1>2 DEF Recoverable, Lapsed, Finished, CandidateOf
    <2>3. attempts[s].left \in Int
      BY <2>1 DEF Attempt
    <2>4. ~(attempts[s].left >= 0)
      BY <2>2, <2>3
    <2>5. "FAILED" \in AttemptStatus /\ "expired" \in Errors /\ "CRASHED" \in GivenUp
      BY DEF AttemptStatus, Errors, GivenUp
    <2>6. (~Exhausted(s)) \in BOOLEAN
      BY DEF Exhausted
    <2>7. /\ r \in Attempt /\ r.candidate = c /\ r.number = attempts[s].number
          /\ r.token = attempts[s].token /\ r.checkpoints = attempts[s].checkpoints
          /\ r.lease = "RELEASED" /\ r.status = "FAILED"
      BY <2>1, <2>5, <2>6 DEF EndedAttempt, Attempt
    <2>8. AttemptsRecovering(s) = [attempts EXCEPT ![s] = r]
      BY <1>2 DEF AttemptsRecovering
    <2>9. attempts[s].number \in Nat /\ MaxAttempts \in Nat
      BY <2>1, ControlAssumption DEF Attempt
    <2>10. \/ CandidatesRecovering(s) = candidates /\ r.number < MaxAttempts
           \/ CandidatesRecovering(s) = [candidates EXCEPT ![c] = "CRASHED"]
      BY <1>2, <2>7, <2>9 DEF CandidatesRecovering, Exhausted, CandidateOf
    <2>11. Ends(candidates, attempts, decisions, s, r, CandidatesRecovering(s), decisions)
      <3>1. \/ CandidatesRecovering(s) = candidates /\ r.number < MaxAttempts
            \/ \E g \in GivenUp : CandidatesRecovering(s) = [candidates EXCEPT ![c] = g]
        BY <2>5, <2>10
      <3>2. r.checkpoints # Shards
        BY <2>2, <2>7
      <3>. HIDE DEF r
      <3>. QED
        BY <2>2, <2>7, <3>1, <3>2 DEF Ends
    <2>12. RowsAgree(CandidatesRecovering(s), AttemptsRecovering(s), decisions)
      <3>. HIDE DEF r
      <3>1. RowsAgree(CandidatesRecovering(s), [attempts EXCEPT ![s] = r], decisions)
        BY <1>0, <2>1, <2>7, <2>11, RowEnded
      <3>. QED
        BY <3>1, <2>8
    <2>13. /\ DOMAIN AttemptsRecovering(s) = DOMAIN attempts
           /\ AttemptsRecovering(s) \in Seq(Attempt)
           /\ AttemptsRecovering(s)[s] = r
           /\ \A a \in DOMAIN attempts : a # s => AttemptsRecovering(s)[a] = attempts[a]
      BY <2>1, <2>7, <2>8, Tables
    <2>14. Len(AttemptsRecovering(s)) = Len(attempts)
      BY <2>13, Tables, LenProperties
    <2>15. \A a \in DOMAIN attempts :
             /\ AttemptsRecovering(s)[a].candidate = attempts[a].candidate
             /\ AttemptsRecovering(s)[a].token = attempts[a].token
      BY <2>7, <2>13
    <2>16. \A d \in Candidates : CandidatesRecovering(s)[d] # candidates[d] =>
             d = c /\ CandidatesRecovering(s)[d] = "CRASHED"
      BY <2>1, <2>10, Tables
    <2>17. \A d \in Candidates : CandidatesRecovering(s)[d] # candidates[d] =>
             <<candidates[d], CandidatesRecovering(s)[d]>> \in CandidateMoves
      BY <2>2, <2>16 DEF CandidateMoves, Terminal, GivenUp
    <2>18. \A d \in Candidates : CandidatesRecovering(s)[d] \in {"QUEUED", "RUNNING"} =>
             CandidatesRecovering(s)[d] = candidates[d]
      BY <2>16
    <2>. QED
      BY <2>2, <2>4, <2>12, <2>13, <2>14, <2>15, <2>17, <2>18 DEF Recovers
  <1>. QED
    BY <1>1, <1>2

LEMMA RecoverOnlyKeeps ==
  ASSUME ControlInvariant, NEW token \in Tokens, NEW wait \in Nat, NEW s \in DOMAIN attempts,
         RecoverOnly(token, wait, s)
  PROVE  StepKeeps
  <1>1. /\ epochStatus = "RUNNING" /\ epochStatus' = epochStatus
        /\ decisions' = decisions /\ Recoverable(s, wait)
        /\ attempts' = AttemptsRecovering(s) /\ candidates' = CandidatesRecovering(s)
    BY DEF RecoverOnly
  <1>2. Recovers(s) /\ s # 0
    BY <1>1, Recovery, Tables
  <1>3. ControlInvariant'
    BY <1>1, <1>2, RunningAgrees DEF Recovers
  <1>4. CandidateSteps
    BY <1>1, <1>2 DEF CandidateSteps, Recovers
  <1>5. RowSteps
    BY <1>1, <1>2, LiveErrors, Tables DEF RowSteps, Recovers
  <1>. QED
    BY <1>3, <1>4, <1>5 DEF StepKeeps

LEMMA ClaimNextKeeps ==
  ASSUME ControlInvariant, NEW token \in Tokens, NEW wait \in Nat,
         NEW s \in {0} \cup DOMAIN attempts, NEW c \in Candidates, ClaimNext(token, wait, s, c)
  PROVE  StepKeeps
  <1> DEFINE rows == AttemptsRecovering(s)
             status == CandidatesRecovering(s)
             r == NewAttempt(c, Cardinality(Of(rows, c)) + 1, token, wait)
  <1>1. /\ epochStatus = "RUNNING" /\ epochStatus' = epochStatus /\ decisions' = decisions
        /\ FreshToken(token)
        /\ s # 0 => Recoverable(s, wait)
        /\ Free(c, rows, status)
        /\ attempts' = Append(rows, NewAttempt(c, Cardinality(Attempted(c)) + 1, token, wait))
        /\ candidates' = [status EXCEPT ![c] = "RUNNING"]
    BY DEF ClaimNext
  <1>2. Recovers(s)
    BY <1>1, Recovery
  <1>3. Attempted(c) = Of(rows, c)
    BY <1>2, AttemptedIsOf DEF Recovers, Of
  <1>4. MayStart(status, rows, c)
    <2>1. \/ status[c] = "QUEUED"
          \/ /\ status[c] = "RUNNING"
             /\ \A a \in Attempted(c) : rows[a].status = "FAILED"
             /\ Cardinality(Attempted(c)) < MaxAttempts
      BY <1>1 DEF Free
    <2>. QED
      BY <2>1, <1>3 DEF MayStart
  <1>5. \A a \in DOMAIN rows : rows[a].token # token
    BY <1>1, <1>2 DEF FreshToken, Recovers
  <1>6. attempts' = Append(rows, r)
    BY <1>1, <1>3
  <1>7. RowsAgree(status, rows, decisions)
    BY <1>2 DEF Recovers
  <1>8. RowsAgree([status EXCEPT ![c] = "RUNNING"], Append(rows, r), decisions)
    BY <1>4, <1>5, <1>7, RowStarted
  <1>9. RowsAgree(candidates', attempts', decisions')
    BY <1>1, <1>6, <1>8
  <1>10. ControlInvariant'
    BY <1>1, <1>9, RunningAgrees
  <1>11. /\ status \in [Candidates -> Status] /\ rows \in Seq(Attempt)
    BY <1>7 DEF RowsAgree, Typed
  <1>12. status[c] \in {"QUEUED", "RUNNING"}
    BY <1>4 DEF MayStart
  <1>13. CandidateSteps
    <2>. SUFFICES ASSUME NEW d \in Candidates, candidates'[d] # candidates[d]
                  PROVE  <<candidates[d], candidates'[d]>> \in CandidateMoves
      BY DEF CandidateSteps
    <2>1. CASE d = c
      <3>1. candidates[c] = status[c] /\ candidates'[c] = "RUNNING"
        BY <1>1, <1>2, <1>11, <1>12 DEF Recovers
      <3>. QED
        BY <2>1, <3>1, <1>12 DEF CandidateMoves
    <2>2. CASE d # c
      <3>1. candidates'[d] = status[d]
        BY <1>1, <1>11, <2>2
      <3>. QED
        BY <1>2, <3>1 DEF Recovers
    <2>. QED
      BY <2>1, <2>2
  <1>14. /\ Len(attempts') = Len(rows) + 1
         /\ \A a \in DOMAIN rows : a \in DOMAIN attempts' /\ attempts'[a] = rows[a]
    <2>1. Len(rows) \in Nat /\ DOMAIN rows = 1 .. Len(rows)
      BY <1>11, AttemptRows
    <2>2. /\ Append(rows, r) \in Seq(Attempt \cup {r}) /\ rows \in Seq(Attempt \cup {r})
      BY <1>11, <1>6
    <2>. QED
      BY <1>6, <1>11, <2>1, AppendProperties
  <1>15. RowSteps
    <2>1. Len(attempts') >= Len(attempts)
      BY <1>2, <1>14, Tables DEF Recovers
    <2>2. ASSUME NEW a \in DOMAIN attempts
          PROVE  /\ a \in DOMAIN attempts' /\ attempts'[a].candidate = attempts[a].candidate
                 /\ attempts[a].lease = "RELEASED" => attempts'[a] = attempts[a]
                 /\ attempts[a].lease = "ACTIVE" /\ attempts[a].left >= 0 =>
                      attempts'[a].error # "expired"
      <3>1. a \in DOMAIN attempts' /\ attempts'[a] = rows[a]
            /\ rows[a].candidate = attempts[a].candidate
        BY <1>2, <1>14 DEF Recovers
      <3>2. a # s => rows[a] = attempts[a]
        BY <1>2 DEF Recovers
      <3>3. a = s => ~(attempts[a].lease = "RELEASED") /\ ~(attempts[a].left >= 0)
        BY <1>2, Tables DEF Recovers
      <3>. QED
        BY <3>1, <3>2, <3>3, LiveErrors
    <2>. QED
      BY <2>1, <2>2 DEF RowSteps
  <1>. QED
    BY <1>10, <1>13, <1>15 DEF StepKeeps

-----------------------------------------------------------------------------
(* The invariant holds of every run.                                       *)

LEMMA InitAgrees == Init => ControlInvariant
  <1>. SUFFICES ASSUME Init PROVE ControlInvariant
    OBVIOUS
  <1>1. /\ epochStatus = "PREPARED" /\ attempts = <<>> /\ decisions = {}
        /\ candidates \in [Candidates -> Status]
        /\ \A c \in Candidates : candidates[c] = "ABSENT"
    BY DEF Init, Status
  <1>2. attempts \in Seq(Attempt) /\ DOMAIN attempts = {}
    BY <1>1
  <1>3. \A c : Of(attempts, c) = {}
    BY <1>2 DEF Of
  <1>4. Typed(candidates, attempts, decisions)
    BY <1>1, <1>2 DEF Typed
  <1>5. AttemptsTell(candidates, attempts, decisions) /\ LaterFailed(attempts)
        /\ TokensDiffer(attempts)
    BY <1>2 DEF AttemptsTell, LaterFailed, TokensDiffer
  <1>6. DecisionsTell(attempts, decisions)
    BY <1>1 DEF DecisionsTell
  <1>7. CandidatesTell(candidates, attempts)
    BY <1>1, <1>3 DEF CandidatesTell, CandidateTells, Given, GivenUp
  <1>8. EpochAgrees /\ epochStatus \in EpochStatus
    BY <1>1, <1>2 DEF EpochAgrees, EpochStatus, Ended
  <1>. QED
    BY <1>4, <1>5, <1>6, <1>7, <1>8 DEF ControlInvariant, RowsAgree

LEMMA StepAgrees == ControlInvariant /\ [Next]_controlVars => StepKeeps
  <1>. SUFFICES ASSUME ControlInvariant, [Next]_controlVars PROVE StepKeeps
    OBVIOUS
  <1>0. \A wait \in 0 .. MaxWait : wait \in Nat
    BY ControlAssumption
  <1>1. ASSUME NEW c \in Candidates, RegisterCandidate(c) PROVE StepKeeps
    BY <1>1, RegisterCandidateKeeps
  <1>2. ASSUME StartEpoch PROVE StepKeeps
    BY <1>2, StartEpochKeeps
  <1>3. ASSUME NEW status \in Ended, FinishEpoch(status) PROVE StepKeeps
    BY <1>3, FinishEpochKeeps
  <1>4. ASSUME NEW wait \in 0 .. MaxWait, NEW token \in Tokens,
               NEW s \in {0} \cup DOMAIN attempts, NEW c \in Candidates,
               ClaimNext(token, wait, s, c)
        PROVE  StepKeeps
    BY <1>0, <1>4, ClaimNextKeeps
  <1>5. ASSUME NEW wait \in 0 .. MaxWait, NEW token \in Tokens, NEW s \in DOMAIN attempts,
               RecoverOnly(token, wait, s)
        PROVE  StepKeeps
    BY <1>0, <1>5, RecoverOnlyKeeps
  <1>6. ASSUME NEW wait \in 0 .. MaxWait, NEW a \in DOMAIN attempts, RenewLease(a, wait)
        PROVE  StepKeeps
    BY <1>0, <1>6, RenewLeaseKeeps
  <1>7. ASSUME NEW wait \in 0 .. MaxWait, NEW a \in DOMAIN attempts, Checkpoint(a, wait)
        PROVE  StepKeeps
    BY <1>0, <1>7, CheckpointKeeps
  <1>8. ASSUME NEW wait \in 0 .. MaxWait, NEW a \in DOMAIN attempts, Terminalize(a, wait)
        PROVE  StepKeeps
    BY <1>0, <1>8, TerminalizeKeeps
  <1>9. ASSUME NEW wait \in 0 .. MaxWait, NEW a \in DOMAIN attempts,
               NEW retryable \in BOOLEAN, Fail(a, wait, retryable)
        PROVE  StepKeeps
    BY <1>0, <1>9, FailKeeps
  <1>10. ASSUME Tick PROVE StepKeeps
    BY <1>10, TickKeeps
  <1>11. ASSUME UNCHANGED controlVars PROVE StepKeeps
    <2>1. UNCHANGED <<epochStatus, candidates, attempts, decisions>>
      BY <1>11 DEF controlVars
    <2>2. \A a \in DOMAIN attempts : Ages(a, attempts'[a])
      BY <2>1, Tables DEF Ages
    <2>. QED
      BY <2>1, <2>2, AgingKeeps, Tables
  <1>. QED
    BY <1>1, <1>2, <1>3, <1>4, <1>5, <1>6, <1>7, <1>8, <1>9, <1>10, <1>11 DEF Next

\* The rows of epoch, candidates, attempts, leases and decisions always agree.
THEOREM ControlAgrees == Spec => []ControlInvariant
  <1>1. ControlInvariant /\ [Next]_controlVars => ControlInvariant'
    BY StepAgrees DEF StepKeeps
  <1>. QED
    BY <1>1, InitAgrees, PTL DEF Spec

-----------------------------------------------------------------------------
(* What it implies.                                                        *)

LEMMA AgreesTypes == ControlInvariant => TypeOK
BY DEF ControlInvariant, RowsAgree, Typed, TypeOK

LEMMA AgreesFollow == ControlInvariant => CandidateFollowsAttempts
  <1>. SUFFICES ASSUME ControlInvariant PROVE CandidateFollowsAttempts
    OBVIOUS
  <1>1. ASSUME NEW a \in DOMAIN attempts
        PROVE  /\ attempts[a].lease = "ACTIVE" <=> attempts[a].status = "RUNNING"
               /\ (\E b \in Attempted(CandidateOf(a)) : b > a) => attempts[a].status = "FAILED"
               /\ attempts[a].status = "RUNNING" => candidates[CandidateOf(a)] = "RUNNING"
               /\ attempts[a].status = "SUCCEEDED" =>
                    candidates[CandidateOf(a)] = Classification[CandidateOf(a)]
               /\ attempts[a].status = "FAILED" =>
                    \/ candidates[CandidateOf(a)] \in {"RUNNING"} \cup GivenUp
                    \/ \E b \in Attempted(CandidateOf(a)) : b > a
               /\ attempts[a].status \in AttemptStatus
    <2>1. LeaseTells(attempts, a) /\ OutcomeTells(candidates, attempts, decisions, a)
          /\ LaterFailed(attempts)
      BY DEF ControlInvariant, RowsAgree, AttemptsTell
    <2>2. Attempted(CandidateOf(a)) = Of(attempts, attempts[a].candidate)
      BY AttemptedIsOf DEF CandidateOf
    <2>3. \A b \in Of(attempts, attempts[a].candidate) : b > a => attempts[a].status = "FAILED"
      <3>. SUFFICES ASSUME NEW b \in DOMAIN attempts,
                           attempts[b].candidate = attempts[a].candidate, b > a
                    PROVE  attempts[a].status = "FAILED"
        BY DEF Of
      <3>1. a < b
        BY Tables
      <3>. QED
        BY <2>1, <3>1 DEF LaterFailed
    <2>4. attempts[a].status \in AttemptStatus
      BY Tables, AttemptRows
    <2>. QED
      BY <2>1, <2>2, <2>3, <2>4 DEF LeaseTells, OutcomeTells, CandidateOf
  <1>2. \A c \in Candidates : candidates[c] \in {"ABSENT", "QUEUED"} <=> Attempted(c) = {}
    BY AttemptedIsOf DEF ControlInvariant, RowsAgree, CandidatesTell, CandidateTells
  <1>. QED
    BY <1>1, <1>2 DEF CandidateFollowsAttempts, AttemptStatus

LEMMA AgreesComplete == ControlInvariant => CompleteWorkKept
BY DEF ControlInvariant, RowsAgree, AttemptsTell, OutcomeTells, CompleteWorkKept, Finished

LEMMA AgreesLineage == ControlInvariant => DecisionLineage
  <1>. SUFFICES ASSUME ControlInvariant PROVE DecisionLineage
    OBVIOUS
  <1>1. \A a \in DOMAIN attempts : attempts[a].status = "SUCCEEDED" =>
          LET c == attempts[a].candidate IN
          /\ attempts[a].checkpoints = Shards /\ candidates[c] = Classification[c]
          /\ [candidate |-> c, attempt |-> a, classification |-> Classification[c]] \in decisions
    BY DEF ControlInvariant, RowsAgree, AttemptsTell, OutcomeTells
  <1>2. \A d \in decisions :
          /\ d.attempt \in DOMAIN attempts /\ attempts[d.attempt].candidate = d.candidate
          /\ attempts[d.attempt].status = "SUCCEEDED"
          /\ d.classification = Classification[d.candidate]
    BY DEF ControlInvariant, RowsAgree, DecisionsTell
  <1>3. ASSUME NEW c \in Candidates, candidates[c] \in Given
        PROVE  \E a \in DOMAIN attempts : /\ attempts[a].candidate = c
                                          /\ attempts[a].status = "SUCCEEDED"
    BY <1>3 DEF ControlInvariant, RowsAgree, CandidatesTell, CandidateTells, Of
  <1>4. \A a, b \in DOMAIN attempts :
          attempts[a].candidate = attempts[b].candidate /\ attempts[a].status = "SUCCEEDED"
            /\ attempts[b].status = "SUCCEEDED" => a = b
    <2>. SUFFICES ASSUME NEW a \in DOMAIN attempts, NEW b \in DOMAIN attempts,
                         attempts[a].candidate = attempts[b].candidate,
                         attempts[a].status = "SUCCEEDED", attempts[b].status = "SUCCEEDED"
                  PROVE  a = b
      OBVIOUS
    <2>1. ~(a < b) /\ ~(b < a)
      BY DEF ControlInvariant, RowsAgree, LaterFailed
    <2>. QED
      BY <2>1, Tables
  <1>5. ASSUME NEW c \in Candidates, candidates[c] \in Given
        PROVE  Cardinality({d \in decisions : d.candidate = c}) = 1
    <2>1. PICK a \in DOMAIN attempts : attempts[a].candidate = c /\ attempts[a].status = "SUCCEEDED"
      BY <1>3, <1>5
    <2> DEFINE d0 == [candidate |-> c, attempt |-> a, classification |-> Classification[c]]
    <2>2. d0 \in decisions /\ d0.candidate = c
      BY <1>1, <2>1
    <2>3. ASSUME NEW d \in decisions, d.candidate = c PROVE d = d0
      <3>1. d.attempt = a
        BY <1>2, <1>4, <2>1, <2>3
      <3>2. d.classification = Classification[c] /\ d \in Decision
        BY <1>2, <2>3, Tables
      <3>. QED
        BY <2>3, <3>1, <3>2 DEF Decision
    <2>4. {d \in decisions : d.candidate = c} = {d0}
      BY <2>2, <2>3
    <2>. HIDE DEF d0
    <2>. QED
      BY <2>4, FS_Singleton
  <1>6. ASSUME NEW c \in Null, candidates[c] = "REGISTERED" PROVE FALSE
    <2>1. c \in Candidates /\ Classification[c] = "SCREENED_OUT"
      BY Classified DEF Candidates
    <2>2. PICK a \in DOMAIN attempts : attempts[a].candidate = c /\ attempts[a].status = "SUCCEEDED"
      BY <1>3, <1>6, <2>1 DEF Given
    <2>. QED
      BY <1>1, <1>6, <2>1, <2>2
  <1>7. \A d \in decisions : /\ d.attempt \in Attempted(d.candidate)
                             /\ attempts[d.attempt].status = "SUCCEEDED"
                             /\ Finished(attempts[d.attempt])
                             /\ candidates[d.candidate] = d.classification
    <2>. SUFFICES ASSUME NEW d \in decisions
                  PROVE  /\ d.attempt \in Attempted(d.candidate)
                         /\ attempts[d.attempt].status = "SUCCEEDED"
                         /\ attempts[d.attempt].checkpoints = Shards
                         /\ candidates[d.candidate] = d.classification
      BY DEF Finished
    <2>1. /\ d.attempt \in DOMAIN attempts /\ attempts[d.attempt].candidate = d.candidate
          /\ attempts[d.attempt].status = "SUCCEEDED"
          /\ d.classification = Classification[d.candidate]
      BY <1>2
    <2>2. /\ attempts[d.attempt].checkpoints = Shards
          /\ candidates[d.candidate] = Classification[d.candidate]
      BY <1>1, <2>1
    <2>. QED
      BY <2>1, <2>2 DEF Attempted, CandidateOf
  <1>. QED
    BY <1>5, <1>6, <1>7 DEF DecisionLineage

LEMMA AgreesStranded == ControlInvariant => NoneStranded
  <1>. SUFFICES ASSUME ControlInvariant PROVE NoneStranded
    OBVIOUS
  <1>1. ASSUME NEW c \in Candidates, candidates[c] = "RUNNING"
        PROVE  (\E a \in Attempted(c) : attempts[a].status = "RUNNING")
               \/ Free(c, attempts, candidates)
    <2>1. CandidateTells(candidates, attempts, c)
      BY DEF ControlInvariant, RowsAgree, CandidatesTell
    <2>. QED
      BY <1>1, <2>1, AttemptedIsOf DEF CandidateTells, Free
  <1>2. ASSUME NEW a \in DOMAIN attempts
        PROVE  /\ attempts[a].number = Cardinality({b \in Attempted(CandidateOf(a)) : b <= a})
               /\ attempts[a].number <= MaxAttempts
    <2>1. {b \in Attempted(CandidateOf(a)) : b <= a} = UpTo(attempts, a)
      BY AttemptedIsOf DEF UpTo, CandidateOf
    <2>. QED
      BY <2>1 DEF ControlInvariant, RowsAgree, AttemptsTell, NumberTells
  <1>. QED
    BY <1>1, <1>2 DEF NoneStranded

LEMMA AgreesDrained == ControlInvariant => EndedIsDrained
BY DEF ControlInvariant, EpochAgrees, EndedIsDrained, Registered

LEMMA AgreesTokens == ControlInvariant => TokenNeverRebound
BY DEF ControlInvariant, RowsAgree, TokensDiffer, TokenNeverRebound

-----------------------------------------------------------------------------
(* The theorems.                                                           *)

\* Type correctness of every run of the control plane.
THEOREM TypeCorrect == Spec => []TypeOK
BY ControlAgrees, AgreesTypes, PTL

\* Lease, attempt and candidate rows, which claim, recovery, terminalize and
\* fail write together, never disagree.
THEOREM FollowsHolds == Spec => []CandidateFollowsAttempts
BY ControlAgrees, AgreesFollow, PTL

\* No recovery and no failure throws a complete checkpoint away.
THEOREM CompleteHolds == Spec => []CompleteWorkKept
BY ControlAgrees, AgreesComplete, PTL

\* Every decision rests on complete, successful work, and there is one for each
\* candidate that was decided; null controls are never registered.
THEOREM LineageHolds == Spec => []DecisionLineage
BY ControlAgrees, AgreesLineage, PTL

\* A candidate that is not decided or given up can always be worked on, within
\* the cap on attempts.
THEOREM StrandedHolds == Spec => []NoneStranded
BY ControlAgrees, AgreesStranded, PTL

\* An epoch ends with nothing open in it.
THEOREM DrainedHolds == Spec => []EndedIsDrained
BY ControlAgrees, AgreesDrained, PTL

\* A lease token names one attempt for ever.
THEOREM TokensHold == Spec => []TokenNeverRebound
BY ControlAgrees, AgreesTokens, PTL

\* The rows of the epoch, its candidates, attempts, leases and decisions agree.
THEOREM RowsHold == Spec => []TablesAgree
BY FollowsHolds, LineageHolds, StrandedHolds, DrainedHolds, TokensHold, PTL DEF TablesAgree

\* No capability call makes a move the triggers would refuse.
LEMMA StepPermitted == ControlInvariant /\ [Next]_controlVars => TriggersPermit
  <1>. SUFFICES ASSUME ControlInvariant, [Next]_controlVars PROVE TriggersPermit
    OBVIOUS
  <1>1. ControlInvariant' /\ CandidateSteps /\ RowSteps
    BY StepAgrees DEF StepKeeps
  <1>2. ASSUME NEW c \in Candidates, candidates'[c] \in GivenUp, NEW a \in Attempted(c)
        PROVE  attempts'[a].status = "FAILED"
    <2>1. a \in DOMAIN attempts' /\ attempts'[a].candidate = c
      BY <1>1 DEF Attempted, CandidateOf, RowSteps
    <2>2. a \in Of(attempts', c)
      BY <2>1 DEF Of
    <2>3. CandidateTells(candidates', attempts', c)
      BY <1>1 DEF ControlInvariant, RowsAgree, CandidatesTell, CandidateTells, Of
    <2>. QED
      BY <1>2, <2>2, <2>3 DEF CandidateTells
  <1>. QED
    BY <1>1, <1>2 DEF TriggersPermit, CandidateSteps, RowSteps

\* Every write of every call is one that the lifecycle and deferred triggers of
\* migrations 0029 and 0030 accept: no call is aborted by one.
THEOREM TriggersHold == Spec => TriggersNeverAbort
  <1>1. ControlInvariant /\ [Next]_controlVars => [TriggersPermit]_controlVars
    BY StepPermitted
  <1>. QED
    BY <1>1, ControlAgrees, PTL DEF Spec, TriggersNeverAbort

\* No other worker's claim takes a lease its holder may still believe in.
THEOREM LiveLeaseHeld == Spec => LiveLeaseNotTaken
  <1>1. ControlInvariant /\ [Next]_controlVars => [NotTaken]_controlVars
    BY StepAgrees DEF StepKeeps, RowSteps, NotTaken
  <1>. QED
    BY <1>1, ControlAgrees, PTL DEF Spec, LiveLeaseNotTaken

-----------------------------------------------------------------------------
(* The contract: what a step makes of each candidate's outcome and tries.  *)

OutcomeOf(cand, att, c) ==
  CASE cand[c] = "ABSENT"   -> "absent"
    [] cand[c] \in Terminal -> cand[c]
    [] OTHER -> IF \E a \in Of(att, c) : att[a].checkpoints = Shards
                THEN "computed" ELSE "pending"
TriesOf(att, c) == Cardinality(Of(att, c))

Moves(c, from, to, n, next) ==
  \/ to = from /\ next = n
  \/ from = "absent" /\ to = "pending" /\ next = n
  \/ from = "pending" /\ to = "pending" /\ n < MaxAttempts /\ next = n + 1
  \/ from = "pending" /\ to = "computed" /\ n > 0 /\ next = n
  \/ from = "computed" /\ to = Classification[c] /\ next = n
  \/ from = "pending" /\ to = "FAILED" /\ n > 0 /\ next = n
  \/ from = "pending" /\ to = "CRASHED" /\ n = MaxAttempts /\ next = n

Advances(cand, att, cand2, att2, c) ==
  Moves(c, OutcomeOf(cand, att, c), OutcomeOf(cand2, att2, c), TriesOf(att, c), TriesOf(att2, c))

\* A candidate whose rows keep their checkpoints, and itself its status.
LEMMA SameOutcome ==
  ASSUME NEW cand, NEW att, NEW cand2, NEW att2, NEW c, cand2[c] = cand[c],
         Of(att2, c) = Of(att, c),
         \A a \in Of(att, c) : att2[a].checkpoints = att[a].checkpoints
  PROVE  /\ OutcomeOf(cand2, att2, c) = OutcomeOf(cand, att, c)
         /\ TriesOf(att2, c) = TriesOf(att, c)
         /\ Advances(cand, att, cand2, att2, c)
  <1>1. OutcomeOf(cand2, att2, c) = OutcomeOf(cand, att, c)
    BY Zenon DEF OutcomeOf
  <1>2. TriesOf(att2, c) = TriesOf(att, c)
    BY DEF TriesOf
  <1>. QED
    BY <1>1, <1>2 DEF Advances, Moves

\* A candidate under way is pending until one of its attempts is complete.
LEMMA UnderWay ==
  ASSUME NEW cand, NEW att, NEW c, cand[c] \in {"QUEUED", "RUNNING"}
  PROVE  OutcomeOf(cand, att, c) =
           IF \E a \in Of(att, c) : att[a].checkpoints = Shards THEN "computed" ELSE "pending"
BY DEF OutcomeOf, Terminal, Given, GivenUp

LEMMA Closed ==
  ASSUME NEW cand, NEW att, NEW c, cand[c] \in Terminal
  PROVE  OutcomeOf(cand, att, c) = cand[c]
BY DEF OutcomeOf, Terminal, Given, GivenUp

\* Only a candidate's running attempt can be complete while it is under way.
LEMMA OnlyRunningComplete ==
  ASSUME NEW cand, NEW att, NEW dec, RowsAgree(cand, att, dec),
         NEW a \in DOMAIN att, att[a].status = "RUNNING"
  PROVE  LET c == att[a].candidate IN
         /\ cand[c] = "RUNNING" /\ c \in Candidates /\ a \in Of(att, c)
         /\ TriesOf(att, c) \in Nat /\ TriesOf(att, c) > 0
         /\ \A b \in Of(att, c) : b # a => att[b].checkpoints # Shards
         /\ att[a].number = TriesOf(att, c)
  <1> DEFINE c == att[a].candidate
  <1>1. att \in Seq(Attempt) /\ cand[c] = "RUNNING" /\ NumberTells(att, a)
    BY DEF RowsAgree, Typed, AttemptsTell, OutcomeTells
  <1>2. c \in Candidates /\ a \in Of(att, c) /\ \A b \in DOMAIN att : b \in Nat
    BY <1>1, AttemptRows DEF Of
  <1>3. IsFiniteSet(Of(att, c)) /\ Cardinality(Of(att, c)) \in Nat
    BY <1>1, FiniteRows
  <1>4. Cardinality(Of(att, c)) # 0
    BY <1>2, <1>3, FS_EmptySet
  <1>5. ASSUME NEW b \in Of(att, c), b # a PROVE att[b].checkpoints # Shards /\ b <= a
    <2>1. b \in DOMAIN att /\ att[b].candidate = c
      BY <1>5 DEF Of
    <2>2. ~(a < b)
      BY <2>1 DEF RowsAgree, LaterFailed
    <2>3. b < a
      BY <1>2, <1>5, <2>1, <2>2
    <2>4. att[b].status = "FAILED"
      BY <2>1, <2>3 DEF RowsAgree, LaterFailed
    <2>5. OutcomeTells(cand, att, dec, b)
      BY <2>1 DEF RowsAgree, AttemptsTell
    <2>6. att[b].checkpoints # Shards
      BY <2>4, <2>5 DEF OutcomeTells
    <2>7. b <= a
      BY <1>2, <2>1, <2>3
    <2>. QED
      BY <2>6, <2>7
  <1>6. \A b \in Of(att, c) : b <= a
    BY <1>2, <1>5
  <1>7. att[a].number = Cardinality(Of(att, c))
    BY <1>1, <1>6, LastNumber
  <1>. QED
    BY <1>1, <1>2, <1>3, <1>4, <1>5, <1>7 DEF TriesOf

\* A running attempt without a complete checkpoint is given up, alone or with
\* its candidate.
LEMMA GivenUpAdvances ==
  ASSUME NEW cand, NEW att, NEW dec, RowsAgree(cand, att, dec),
         NEW a \in DOMAIN att, att[a].status = "RUNNING", att[a].checkpoints # Shards,
         NEW cand2, NEW att2,
         \A c : Of(att2, c) = Of(att, c),
         \A b \in DOMAIN att : att2[b].checkpoints = att[b].checkpoints,
         \/ cand2 = cand
         \/ cand2 = [cand EXCEPT ![att[a].candidate] = "FAILED"]
         \/ /\ cand2 = [cand EXCEPT ![att[a].candidate] = "CRASHED"]
            /\ ~(att[a].number < MaxAttempts)
  PROVE  \A c \in Candidates : Advances(cand, att, cand2, att2, c)
  <1>. SUFFICES ASSUME NEW c \in Candidates PROVE Advances(cand, att, cand2, att2, c)
    OBVIOUS
  <1>1. /\ cand \in [Candidates -> Status] /\ att \in Seq(Attempt)
        /\ \A b \in Of(att, c) : att2[b].checkpoints = att[b].checkpoints
    BY DEF RowsAgree, Typed, Of
  <1>2. CASE cand2[c] = cand[c]
    BY <1>1, <1>2, SameOutcome
  <1>3. CASE cand2[c] # cand[c]
    <2>1. c = att[a].candidate
      BY <1>1, <1>3
    <2>2. /\ cand[c] = "RUNNING" /\ TriesOf(att, c) \in Nat /\ TriesOf(att, c) > 0
          /\ \A b \in Of(att, c) : att[b].checkpoints # Shards
          /\ att[a].number = TriesOf(att, c)
      BY <2>1, OnlyRunningComplete
    <2>3. OutcomeOf(cand, att, c) = "pending"
      BY <2>2, UnderWay
    <2>4. TriesOf(att2, c) = TriesOf(att, c)
      BY DEF TriesOf
    <2>5. cand2[c] = "FAILED" \/ (cand2[c] = "CRASHED" /\ ~(TriesOf(att, c) < MaxAttempts))
      BY <1>1, <1>3, <2>1, <2>2
    <2>6. OutcomeOf(cand2, att2, c) = cand2[c]
      BY <2>5, Closed DEF Terminal, GivenUp
    <2>7. TriesOf(att, c) <= MaxAttempts
      BY <2>2 DEF RowsAgree, AttemptsTell, NumberTells
    <2>8. cand2[c] = "CRASHED" => TriesOf(att, c) = MaxAttempts
      BY <2>2, <2>5, <2>7, ControlAssumption
    <2>. QED
      BY <2>2, <2>3, <2>4, <2>5, <2>6, <2>8 DEF Advances, Moves
  <1>. QED
    BY <1>2, <1>3

-----------------------------------------------------------------------------
(* The contract seen from the tables.                                      *)

LEMMA OutcomeSeen ==
  /\ \A c \in Candidates : Outcome[c] = OutcomeOf(candidates, attempts, c)
  /\ \A c \in Candidates : Tries[c] = TriesOf(attempts, c)
  /\ \A c \in Candidates : Outcome'[c] = OutcomeOf(candidates', attempts', c)
  /\ \A c \in Candidates : Tries'[c] = TriesOf(attempts', c)
  <1>1. \A c \in Candidates : Outcome[c] = OutcomeOf(candidates, attempts, c)
    BY AttemptedIsOf, Zenon DEF Outcome, OutcomeOf, Finished
  <1>2. \A c \in Candidates : Tries[c] = TriesOf(attempts, c)
    BY AttemptedIsOf DEF Tries, TriesOf
  <1>3. \A c : Attempted(c)' = Of(attempts', c)
    BY DEF Attempted, Of, CandidateOf
  <1>4. \A c \in Candidates : Outcome'[c] = OutcomeOf(candidates', attempts', c)
    BY <1>3, Zenon DEF Outcome, OutcomeOf, Finished
  <1>5. \A c \in Candidates : Tries'[c] = TriesOf(attempts', c)
    BY <1>3 DEF Tries, TriesOf
  <1>. QED
    BY <1>1, <1>2, <1>4, <1>5

LEMMA OutcomesTyped ==
  ASSUME ControlInvariant
  PROVE  /\ \A c \in Candidates : /\ OutcomeOf(candidates, attempts, c) \in Contract!Outcomes
                                  /\ TriesOf(attempts, c) \in Nat
         /\ Outcome \in [Candidates -> Contract!Outcomes] /\ Tries \in [Candidates -> Nat]
  <1>1. ASSUME NEW c \in Candidates
        PROVE  /\ OutcomeOf(candidates, attempts, c) \in Contract!Outcomes
               /\ TriesOf(attempts, c) \in Nat
    <2>1. OutcomeOf(candidates, attempts, c) \in {"absent", "computed", "pending"} \cup Terminal
      BY Zenon DEF OutcomeOf
    <2>2. TriesOf(attempts, c) \in Nat
      BY FiniteRows, Tables DEF TriesOf
    <2>. QED
      BY <2>1, <2>2 DEF Terminal, Given, GivenUp, Contract!Outcomes, Contract!Given,
                        Contract!GivenUp
  <1>2. Outcome = [c \in Candidates |-> Outcome[c]] /\ Tries = [c \in Candidates |-> Tries[c]]
    BY DEF Outcome, Tries
  <1>. QED
    BY <1>1, <1>2, OutcomeSeen

\* Some candidates advance while the epoch is open.
LEMMA WorkStep ==
  ASSUME ControlInvariant, ControlInvariant', epochStatus \notin Ended,
         epochStatus' = epochStatus,
         \A c \in Candidates : Advances(candidates, attempts, candidates', attempts', c)
  PROVE  Contract!ContractNext
  <1>1. Phase = "open" /\ Phase' = Phase
    BY DEF Phase, Ended
  <1>2. Outcome' \in [Candidates -> Contract!Outcomes] /\ Tries' \in [Candidates -> Nat]
    <2>1. ASSUME NEW c \in Candidates
          PROVE  /\ OutcomeOf(candidates', attempts', c) \in Contract!Outcomes
                 /\ TriesOf(attempts', c) \in Nat
      <3>1. OutcomeOf(candidates', attempts', c) \in {"absent", "computed", "pending"} \cup Terminal
        BY Zenon DEF OutcomeOf
      <3>2. attempts' \in Seq(Attempt)
        BY DEF ControlInvariant, RowsAgree, Typed
      <3>3. TriesOf(attempts', c) \in Nat
        BY <3>2, FiniteRows DEF TriesOf
      <3>. QED
        BY <3>1, <3>3 DEF Terminal, Given, GivenUp, Contract!Outcomes, Contract!Given,
                          Contract!GivenUp
    <2>2. Outcome' = [c \in Candidates |-> Outcome'[c]] /\ Tries' = [c \in Candidates |-> Tries'[c]]
      BY DEF Outcome, Tries
    <2>. QED
      BY <2>1, <2>2, OutcomeSeen
  <1>3. ASSUME NEW c \in Candidates PROVE Contract!Advance(c)
    <2>1. Moves(c, Outcome[c], Outcome'[c], Tries[c], Tries'[c])
      BY OutcomeSeen DEF Advances
    <2>. QED
      BY <2>1 DEF Moves, Contract!Advance, Contract!Goes, Contract!Tried
  <1>. QED
    BY <1>1, <1>2, <1>3 DEF Contract!Work, Contract!ContractNext

\* No candidate advances and the epoch stays open, or ended.
LEMMA HiddenStep ==
  ASSUME Phase' = Phase,
         \A c \in Candidates :
           /\ OutcomeOf(candidates', attempts', c) = OutcomeOf(candidates, attempts, c)
           /\ TriesOf(attempts', c) = TriesOf(attempts, c)
  PROVE  UNCHANGED Contract!contractVars
  <1>1. \A c \in Candidates : Outcome'[c] = Outcome[c] /\ Tries'[c] = Tries[c]
    BY OutcomeSeen
  <1>2. /\ Outcome = [c \in Candidates |-> Outcome[c]] /\ Tries = [c \in Candidates |-> Tries[c]]
        /\ Outcome' = [c \in Candidates |-> Outcome'[c]]
        /\ Tries' = [c \in Candidates |-> Tries'[c]]
    BY DEF Outcome, Tries
  <1>3. Outcome' = Outcome /\ Tries' = Tries
    BY <1>1, <1>2
  <1>. QED
    BY <1>3 DEF Contract!contractVars

LEMMA SameRowsHidden ==
  ASSUME epochStatus' = epochStatus \/ (epochStatus = "PREPARED" /\ epochStatus' = "RUNNING"),
         candidates' = candidates, DOMAIN attempts' = DOMAIN attempts,
         \A a \in DOMAIN attempts : /\ attempts'[a].candidate = attempts[a].candidate
                                    /\ attempts'[a].checkpoints = attempts[a].checkpoints
  PROVE  UNCHANGED Contract!contractVars
  <1>1. Phase' = Phase
    BY DEF Phase
  <1>2. \A c : Of(attempts', c) = Of(attempts, c)
    BY DEF Of
  <1>3. \A c : \A a \in Of(attempts, c) : attempts'[a].checkpoints = attempts[a].checkpoints
    BY DEF Of
  <1>4. ASSUME NEW c \in Candidates
        PROVE  /\ OutcomeOf(candidates', attempts', c) = OutcomeOf(candidates, attempts, c)
               /\ TriesOf(attempts', c) = TriesOf(attempts, c)
    BY <1>2, <1>3, SameOutcome
  <1>. QED
    BY <1>1, <1>4, HiddenStep

-----------------------------------------------------------------------------
(* Each step keeps the contract.                                           *)

Seen == Contract!ContractNext \/ UNCHANGED Contract!contractVars

LEMMA RegisterSeen ==
  ASSUME ControlInvariant, NEW c \in Candidates, RegisterCandidate(c)
  PROVE  Seen
  <1>1. /\ candidates[c] = "ABSENT" /\ epochStatus \notin Ended
        /\ candidates' = [candidates EXCEPT ![c] = "QUEUED"]
        /\ UNCHANGED <<epochStatus, attempts, decisions>>
    BY DEF RegisterCandidate, Registered
  <1>2. ControlInvariant'
    BY RegisterCandidateKeeps DEF StepKeeps
  <1>3. candidates \in [Candidates -> Status]
    BY Tables
  <1>4. ASSUME NEW d \in Candidates
        PROVE  Advances(candidates, attempts, candidates', attempts', d)
    <2>1. CASE d # c
      <3>1. candidates'[d] = candidates[d] /\ attempts' = attempts
        BY <1>1, <1>3, <2>1
      <3>. QED
        BY <3>1, SameOutcome
    <2>2. CASE d = c
      <3>1. candidates'[d] = "QUEUED" /\ attempts' = attempts /\ candidates[d] = "ABSENT"
        BY <1>1, <1>3, <2>2
      <3>2. Of(attempts, d) = {}
        BY <3>1 DEF ControlInvariant, RowsAgree, CandidatesTell, CandidateTells
      <3>3. OutcomeOf(candidates', attempts', d) = "pending"
        BY <3>1, <3>2, UnderWay
      <3>4. OutcomeOf(candidates, attempts, d) = "absent"
        BY <3>1 DEF OutcomeOf, Terminal, Given, GivenUp
      <3>5. TriesOf(attempts', d) = TriesOf(attempts, d)
        BY <3>1
      <3>. QED
        BY <3>3, <3>4, <3>5 DEF Advances, Moves
    <2>. QED
      BY <2>1, <2>2
  <1>. QED
    BY <1>1, <1>2, <1>4, WorkStep DEF Seen

LEMMA FinishSeen ==
  ASSUME ControlInvariant, NEW status \in Ended, FinishEpoch(status)
  PROVE  Seen
  <1>1. /\ epochStatus' = status /\ UNCHANGED <<candidates, attempts, decisions>>
        /\ epochStatus \notin Ended
        /\ \/ /\ status = "COMPLETED"
              /\ \A c \in Candidates : candidates[c] \in Given \cup {"ABSENT"}
           \/ /\ status = "FAILED"
              /\ \A c \in Candidates : candidates[c] \in Terminal \cup {"ABSENT"}
    BY DEF FinishEpoch, CanFinish, Ended, Registered
  <1>2. Phase = "open" /\ (status = "COMPLETED" => Phase' = "completed")
        /\ (status = "FAILED" => Phase' = "failed")
    BY <1>1 DEF Phase, Ended
  <1>3. \A c \in Candidates : candidates[c] = "ABSENT" => Outcome[c] = "absent"
    BY OutcomeSeen DEF OutcomeOf, Terminal, Given, GivenUp
  <1>4. \A c \in Candidates : candidates[c] \in Terminal => Outcome[c] = candidates[c]
    BY OutcomeSeen, Closed
  <1>5. Outcome' = Outcome /\ Tries' = Tries
    BY <1>1 DEF Outcome, Tries, Attempted, CandidateOf
  <1>6. ASSUME status = "COMPLETED"
        PROVE  \A c \in Candidates : Outcome[c] \in Contract!Given \cup {"absent"}
    BY <1>1, <1>3, <1>4, <1>6 DEF Terminal, Given, Contract!Given
  <1>7. \A c \in Candidates : Outcome[c] \in Contract!Given \cup Contract!GivenUp \cup {"absent"}
    BY <1>1, <1>3, <1>4 DEF Terminal, Given, GivenUp, Contract!Given, Contract!GivenUp
  <1>8. Contract!Close
    BY <1>1, <1>2, <1>5, <1>6, <1>7 DEF Contract!Close
  <1>. QED
    BY <1>8 DEF Seen, Contract!ContractNext

LEMMA CheckpointSeen ==
  ASSUME ControlInvariant, NEW a \in DOMAIN attempts, NEW wait \in Nat, Checkpoint(a, wait)
  PROVE  Seen
  <1> DEFINE c == attempts[a].candidate
             r == Checkpointed(attempts[a], wait)
  <1>1. /\ attempts[a].lease = "ACTIVE" /\ attempts[a].checkpoints # Shards
        /\ attempts' = [attempts EXCEPT ![a] = r]
        /\ UNCHANGED <<epochStatus, candidates, decisions>>
    BY DEF Checkpoint, CanCheckpoint, Live, Finished
  <1>2. /\ attempts[a].status = "RUNNING" /\ epochStatus = "RUNNING"
    BY <1>1, Leased
  <1>3. RowsAgree(candidates, attempts, decisions) /\ attempts \in Seq(Attempt)
        /\ attempts[a] \in Attempt
    BY Tables DEF ControlInvariant
  <1>4. r.candidate = c
    BY <1>3 DEF Checkpointed, Attempt
  <1>. HIDE DEF r
  <1>5. /\ DOMAIN attempts' = DOMAIN attempts /\ attempts'[a] = r
        /\ \A b \in DOMAIN attempts : b # a => attempts'[b] = attempts[b]
    BY <1>1, <1>3
  <1>6. \A d : Of(attempts', d) = Of(attempts, d)
    BY <1>4, <1>5 DEF Of
  <1>7. /\ candidates[c] = "RUNNING" /\ TriesOf(attempts, c) \in Nat /\ TriesOf(attempts, c) > 0
        /\ \A b \in Of(attempts, c) : attempts[b].checkpoints # Shards
    BY <1>1, <1>2, <1>3, OnlyRunningComplete
  <1>8. ASSUME NEW d \in Candidates
        PROVE  Advances(candidates, attempts, candidates', attempts', d)
    <2>1. CASE d = c
      <3>1. OutcomeOf(candidates, attempts, d) = "pending"
        BY <1>7, <2>1, UnderWay
      <3>2. OutcomeOf(candidates', attempts', d) \in {"pending", "computed"}
        BY <1>1, <1>7, <2>1, UnderWay
      <3>3. TriesOf(attempts', d) = TriesOf(attempts, d)
        BY <1>6 DEF TriesOf
      <3>. QED
        BY <1>7, <2>1, <3>1, <3>2, <3>3 DEF Advances, Moves
    <2>2. CASE d # c
      <3>1. \A b \in Of(attempts, d) : attempts'[b] = attempts[b]
        BY <1>5, <2>2 DEF Of
      <3>. QED
        BY <1>1, <1>6, <3>1, SameOutcome
    <2>. QED
      BY <2>1, <2>2
  <1>9. ControlInvariant'
    BY CheckpointKeeps DEF StepKeeps
  <1>10. epochStatus \notin Ended /\ epochStatus' = epochStatus
    BY <1>1, <1>2 DEF Ended
  <1>. QED
    BY <1>8, <1>9, <1>10, WorkStep DEF Seen

LEMMA TerminalizeSeen ==
  ASSUME ControlInvariant, NEW a \in DOMAIN attempts, NEW wait \in Nat, Terminalize(a, wait)
  PROVE  Seen
  <1> DEFINE c == attempts[a].candidate
             r == EndedAttempt(attempts[a], "SUCCEEDED", "none", FALSE)
  <1>1. /\ attempts[a].status = "RUNNING" /\ attempts[a].checkpoints = Shards
        /\ attempts[a].lease = "ACTIVE" /\ candidates[c] = "RUNNING"
        /\ attempts' = [attempts EXCEPT ![a] = r] /\ epochStatus' = epochStatus
        /\ candidates' = [candidates EXCEPT ![c] = Classification[c]]
    BY DEF Terminalize, CanTerminalize, Live, Finished, CandidateOf
  <1>2. epochStatus \notin Ended
    BY <1>1, Leased DEF Ended
  <1>3. /\ attempts \in Seq(Attempt) /\ c \in Candidates /\ candidates \in [Candidates -> Status]
        /\ a \in Of(attempts, c)
    BY Tables DEF CandidateOf, Of
  <1>4. r.candidate = c /\ r.checkpoints = attempts[a].checkpoints
    BY DEF EndedAttempt
  <1>. HIDE DEF r
  <1>5. /\ DOMAIN attempts' = DOMAIN attempts
        /\ \A b \in DOMAIN attempts : /\ attempts'[b].candidate = attempts[b].candidate
                                      /\ attempts'[b].checkpoints = attempts[b].checkpoints
    BY <1>1, <1>3, <1>4
  <1>6. \A d : Of(attempts', d) = Of(attempts, d)
    BY <1>5 DEF Of
  <1>7. ASSUME NEW d \in Candidates
        PROVE  Advances(candidates, attempts, candidates', attempts', d)
    <2>1. CASE d = c
      <3>1. OutcomeOf(candidates, attempts, d) = "computed"
        BY <1>1, <1>3, <2>1, UnderWay
      <3>2. candidates'[d] = Classification[d] /\ Classification[d] \in Terminal
        BY <1>1, <1>3, <2>1, Classified DEF Terminal
      <3>3. OutcomeOf(candidates', attempts', d) = Classification[d]
        BY <3>2, Closed
      <3>4. TriesOf(attempts', d) = TriesOf(attempts, d)
        BY <1>6 DEF TriesOf
      <3>. QED
        BY <3>1, <3>3, <3>4 DEF Advances, Moves
    <2>2. CASE d # c
      <3>1. candidates'[d] = candidates[d]
        BY <1>1, <1>3, <2>2
      <3>2. \A b \in Of(attempts, d) : attempts'[b].checkpoints = attempts[b].checkpoints
        BY <1>5 DEF Of
      <3>. QED
        BY <1>6, <3>1, <3>2, SameOutcome
    <2>. QED
      BY <2>1, <2>2
  <1>8. ControlInvariant'
    BY TerminalizeKeeps DEF StepKeeps
  <1>. QED
    BY <1>1, <1>2, <1>7, <1>8, WorkStep DEF Seen

LEMMA FailSeen ==
  ASSUME ControlInvariant, NEW a \in DOMAIN attempts, NEW wait \in Nat,
         NEW retryable \in BOOLEAN, Fail(a, wait, retryable)
  PROVE  Seen
  <1> DEFINE c == attempts[a].candidate
             r == EndedAttempt(attempts[a], "FAILED", "work", retryable)
  <1>1. /\ attempts[a].status = "RUNNING" /\ attempts[a].checkpoints # Shards
        /\ attempts[a].lease = "ACTIVE"
        /\ attempts' = [attempts EXCEPT ![a] = r] /\ epochStatus' = epochStatus
        /\ \/ candidates' = candidates
           \/ candidates' = [candidates EXCEPT ![c] = "FAILED"]
    BY DEF Fail, CanFail, Live, Finished, CandidateOf
  <1>2. epochStatus \notin Ended
    BY <1>1, Leased DEF Ended
  <1>3. attempts \in Seq(Attempt) /\ RowsAgree(candidates, attempts, decisions)
    BY Tables DEF ControlInvariant
  <1>4. r.candidate = c /\ r.checkpoints = attempts[a].checkpoints
    BY DEF EndedAttempt
  <1>. HIDE DEF r
  <1>5. /\ DOMAIN attempts' = DOMAIN attempts
        /\ \A b \in DOMAIN attempts : /\ attempts'[b].candidate = attempts[b].candidate
                                      /\ attempts'[b].checkpoints = attempts[b].checkpoints
    BY <1>1, <1>3, <1>4
  <1>6. \A d : Of(attempts', d) = Of(attempts, d)
    BY <1>5 DEF Of
  <1>7. \A d \in Candidates : Advances(candidates, attempts, candidates', attempts', d)
    BY <1>1, <1>3, <1>5, <1>6, GivenUpAdvances
  <1>8. ControlInvariant'
    BY FailKeeps DEF StepKeeps
  <1>. QED
    BY <1>1, <1>2, <1>7, <1>8, WorkStep DEF Seen

\* What recovering s makes of the outcomes.
LEMMA RecoveryAdvances ==
  ASSUME ControlInvariant, NEW wait \in Nat, NEW s \in {0} \cup DOMAIN attempts,
         s # 0 => Recoverable(s, wait)
  PROVE  \A c \in Candidates :
           /\ Advances(candidates, attempts, CandidatesRecovering(s), AttemptsRecovering(s), c)
           /\ TriesOf(AttemptsRecovering(s), c) = TriesOf(attempts, c)
  <1> DEFINE rows == AttemptsRecovering(s)
             status == CandidatesRecovering(s)
  <1>1. RowsAgree(candidates, attempts, decisions) /\ 0 \notin DOMAIN attempts
    BY Tables DEF ControlInvariant
  <1>2. /\ DOMAIN rows = DOMAIN attempts
        /\ \A a \in DOMAIN attempts : /\ rows[a].candidate = attempts[a].candidate
                                      /\ a # s => rows[a] = attempts[a]
    BY Recovery DEF Recovers
  <1>3. \A c : Of(rows, c) = Of(attempts, c)
    BY <1>2 DEF Of
  <1>4. \A c \in Candidates : TriesOf(rows, c) = TriesOf(attempts, c)
    BY <1>3 DEF TriesOf
  <1>5. ASSUME s = 0, NEW c \in Candidates PROVE Advances(candidates, attempts, status, rows, c)
    BY <1>5, SameOutcome DEF AttemptsRecovering, CandidatesRecovering
  <1>6. ASSUME s # 0 PROVE \A c \in Candidates : Advances(candidates, attempts, status, rows, c)
    <2>1. /\ s \in DOMAIN attempts /\ attempts[s].status = "RUNNING"
          /\ attempts[s].checkpoints # Shards
      BY <1>6 DEF Recoverable, Finished
    <2>2. rows[s] = EndedAttempt(attempts[s], "FAILED", "expired", ~Exhausted(s))
      BY <1>6, <2>1, Tables DEF AttemptsRecovering
    <2>3. rows[s].checkpoints = attempts[s].checkpoints
      BY <2>2 DEF EndedAttempt
    <2>4. \A a \in DOMAIN attempts : rows[a].checkpoints = attempts[a].checkpoints
      BY <1>2, <2>3
    <2>5. attempts[s].number \in Nat /\ MaxAttempts \in Nat
      BY <2>1, Tables, ControlAssumption DEF Attempt
    <2>6. \/ status = candidates
          \/ /\ status = [candidates EXCEPT ![attempts[s].candidate] = "CRASHED"]
             /\ ~(attempts[s].number < MaxAttempts)
      BY <1>6, <2>5 DEF CandidatesRecovering, Exhausted, CandidateOf
    <2>. HIDE DEF rows, status
    <2>. QED
      BY <1>1, <1>3, <2>1, <2>4, <2>6, GivenUpAdvances
  <1>. QED
    BY <1>4, <1>5, <1>6

LEMMA RecoverOnlySeen ==
  ASSUME ControlInvariant, NEW token \in Tokens, NEW wait \in Nat, NEW s \in DOMAIN attempts,
         RecoverOnly(token, wait, s)
  PROVE  Seen
  <1>1. /\ epochStatus = "RUNNING" /\ epochStatus' = epochStatus /\ Recoverable(s, wait)
        /\ attempts' = AttemptsRecovering(s) /\ candidates' = CandidatesRecovering(s)
    BY DEF RecoverOnly
  <1>2. \A c \in Candidates : Advances(candidates, attempts, candidates', attempts', c)
    BY <1>1, RecoveryAdvances
  <1>3. ControlInvariant' /\ epochStatus \notin Ended
    BY <1>1, RecoverOnlyKeeps DEF StepKeeps, Ended
  <1>. QED
    BY <1>1, <1>2, <1>3, WorkStep DEF Seen

\* A started attempt is one more try of a pending candidate.
FirstRow(r, c) == r \in Attempt /\ r.candidate = c /\ r.checkpoints = 0

OnceMore(cand, att, cand2, att2, c) ==
  /\ OutcomeOf(cand, att, c) = "pending" /\ OutcomeOf(cand2, att2, c) = "pending"
  /\ TriesOf(att, c) \in Nat /\ TriesOf(att, c) < MaxAttempts
  /\ TriesOf(att2, c) = TriesOf(att, c) + 1
  /\ \A d \in Candidates : d # c =>
       /\ OutcomeOf(cand2, att2, d) = OutcomeOf(cand, att, d)
       /\ TriesOf(att2, d) = TriesOf(att, d)

LEMMA StartAdvances ==
  ASSUME NEW cand, NEW att, NEW dec, RowsAgree(cand, att, dec),
         NEW c \in Candidates, MayStart(cand, att, c), NEW r, FirstRow(r, c)
  PROVE  OnceMore(cand, att, [cand EXCEPT ![c] = "RUNNING"], Append(att, r), c)
  <1> DEFINE cand2 == [cand EXCEPT ![c] = "RUNNING"]
             att2 == Append(att, r)
             n == Len(att) + 1
  <1>0. r \in Attempt /\ r.candidate = c /\ r.checkpoints = 0
    BY DEF FirstRow
  <1>1. cand \in [Candidates -> Status] /\ att \in Seq(Attempt) /\ Shards # 0
    BY ControlAssumption DEF RowsAgree, Typed
  <1>2. Len(att) \in Nat /\ DOMAIN att = 1 .. Len(att)
    BY <1>1, AttemptRows
  <1>3. /\ DOMAIN att2 = 1 .. n /\ att2[n] = r /\ \A a \in DOMAIN att : att2[a] = att[a]
    BY <1>0, <1>1, <1>2, AppendProperties
  <1>4. DOMAIN att2 = DOMAIN att \cup {n} /\ n \notin DOMAIN att
    BY <1>2, <1>3
  <1>. HIDE DEF att2, n
  <1>5. Of(att2, c) = Of(att, c) \cup {n} /\ n \notin Of(att, c)
    BY <1>0, <1>3, <1>4 DEF Of
  <1>6. \A d : d # c => Of(att2, d) = Of(att, d)
    BY <1>0, <1>3, <1>4 DEF Of
  <1>7. IsFiniteSet(Of(att, c)) /\ TriesOf(att, c) \in Nat
    BY <1>1, FiniteRows DEF TriesOf
  <1>8. TriesOf(att2, c) = TriesOf(att, c) + 1
    BY <1>5, <1>7, FS_AddElement DEF TriesOf
  <1>9. /\ cand[c] \in {"QUEUED", "RUNNING"} /\ TriesOf(att, c) < MaxAttempts
        /\ \A a \in Of(att, c) : att[a].status = "FAILED"
    <2>1. CASE cand[c] = "QUEUED"
      <3>1. Of(att, c) = {}
        BY <2>1 DEF RowsAgree, CandidatesTell, CandidateTells
      <3>. QED
        BY <2>1, <3>1, FS_EmptySet, ControlAssumption DEF TriesOf
    <2>2. CASE cand[c] # "QUEUED"
      BY <2>2 DEF MayStart, TriesOf
    <2>. QED
      BY <2>1, <2>2
  <1>10. \A a \in Of(att, c) : att[a].checkpoints # Shards
    <2>. SUFFICES ASSUME NEW a \in Of(att, c) PROVE att[a].checkpoints # Shards
      OBVIOUS
    <2>1. a \in DOMAIN att
      BY DEF Of
    <2>2. OutcomeTells(cand, att, dec, a)
      BY <2>1 DEF RowsAgree, AttemptsTell
    <2>. QED
      BY <1>9, <2>2 DEF OutcomeTells
  <1>11. OutcomeOf(cand, att, c) = "pending"
    BY <1>9, <1>10, UnderWay
  <1>12. cand2[c] = "RUNNING" /\ \A d \in Candidates : d # c => cand2[d] = cand[d]
    BY <1>1
  <1>13. \A a \in Of(att2, c) : att2[a].checkpoints # Shards
    BY <1>0, <1>1, <1>3, <1>5, <1>10, ControlAssumption DEF Of
  <1>. HIDE DEF cand2
  <1>14. OutcomeOf(cand2, att2, c) = "pending"
    BY <1>12, <1>13, UnderWay
  <1>15. ASSUME NEW d \in Candidates, d # c
         PROVE  /\ OutcomeOf(cand2, att2, d) = OutcomeOf(cand, att, d)
                /\ TriesOf(att2, d) = TriesOf(att, d)
    <2>1. \A a \in Of(att, d) : att2[a] = att[a]
      BY <1>3 DEF Of
    <2>. QED
      BY <1>6, <1>12, <1>15, <2>1, SameOutcome
  <1>. QED
    BY <1>7, <1>8, <1>9, <1>11, <1>14, <1>15 DEF OnceMore, cand2, att2

LEMMA ClaimNextSeen ==
  ASSUME ControlInvariant, NEW token \in Tokens, NEW wait \in Nat,
         NEW s \in {0} \cup DOMAIN attempts, NEW c \in Candidates, ClaimNext(token, wait, s, c)
  PROVE  Seen
  <1> DEFINE rows == AttemptsRecovering(s)
             status == CandidatesRecovering(s)
             k == Cardinality(Attempted(c))
             r == NewAttempt(c, k + 1, token, wait)
  <1>1. /\ epochStatus = "RUNNING" /\ epochStatus' = epochStatus
        /\ s # 0 => Recoverable(s, wait)
        /\ Free(c, rows, status)
        /\ attempts' = Append(rows, r) /\ candidates' = [status EXCEPT ![c] = "RUNNING"]
    BY DEF ClaimNext
  <1>2. RowsAgree(status, rows, decisions) /\ \A a \in DOMAIN attempts :
          rows[a].candidate = attempts[a].candidate
    BY <1>1, Recovery DEF Recovers
  <1>3. DOMAIN rows = DOMAIN attempts /\ \A d \in Candidates :
          status[d] \in {"QUEUED", "RUNNING"} => status[d] = candidates[d]
    BY <1>1, Recovery DEF Recovers
  <1>4. Attempted(c) = Of(rows, c)
    BY <1>2, <1>3, AttemptedIsOf DEF Of
  <1>5. MayStart(status, rows, c)
    <2>1. \/ status[c] = "QUEUED"
          \/ /\ status[c] = "RUNNING"
             /\ \A a \in Attempted(c) : rows[a].status = "FAILED"
             /\ Cardinality(Attempted(c)) < MaxAttempts
      BY <1>1 DEF Free
    <2>. QED
      BY <2>1, <1>4 DEF MayStart
  <1>6. k \in Nat
    BY AttemptedIsOf, FiniteRows, Tables
  <1>7. r \in Attempt /\ r.candidate = c /\ r.checkpoints = 0
    BY <1>6, NewAttemptRow DEF NewAttempt
  <1>8. \A d \in Candidates : /\ Advances(candidates, attempts, status, rows, d)
                              /\ TriesOf(rows, d) = TriesOf(attempts, d)
    BY <1>1, RecoveryAdvances
  <1>. HIDE DEF rows, status, k, r
  <1>9. /\ OutcomeOf(status, rows, c) = "pending"
        /\ OutcomeOf(candidates', attempts', c) = "pending"
        /\ TriesOf(rows, c) \in Nat /\ TriesOf(rows, c) < MaxAttempts
        /\ TriesOf(attempts', c) = TriesOf(rows, c) + 1
        /\ \A d \in Candidates : d # c =>
             /\ OutcomeOf(candidates', attempts', d) = OutcomeOf(status, rows, d)
             /\ TriesOf(attempts', d) = TriesOf(rows, d)
    <2>. DEFINE rows2 == Append(rows, r)
                status2 == [status EXCEPT ![c] = "RUNNING"]
    <2>1. OnceMore(status, rows, status2, rows2, c)
      <3>1. RowsAgree(status, rows, decisions)
        BY <1>2
      <3>2. FirstRow(r, c)
        BY <1>7 DEF FirstRow
      <3>. QED
        BY <1>5, <3>1, <3>2, StartAdvances
    <2>2. attempts' = rows2 /\ candidates' = status2
      BY <1>1
    <2>. HIDE DEF rows2, status2
    <2>3. OnceMore(status, rows, candidates', attempts', c)
      BY <2>1, <2>2, Zenon
    <2>. QED
      BY <2>3 DEF OnceMore
  <1>10. ASSUME NEW d \in Candidates
         PROVE  Advances(candidates, attempts, candidates', attempts', d)
    <2>1. CASE d # c
      BY <1>8, <1>9, <2>1 DEF Advances
    <2>2. CASE d = c
      <3>1. Moves(c, OutcomeOf(candidates, attempts, c), "pending",
                  TriesOf(attempts, c), TriesOf(attempts, c))
        BY <1>8, <1>9 DEF Advances
      <3>2. OutcomeOf(candidates, attempts, c) \in {"pending", "absent"}
        BY <3>1, Classified DEF Moves, Given
      <3>3. candidates[c] \in {"QUEUED", "RUNNING"}
        BY <1>3, <1>5 DEF MayStart
      <3>4. OutcomeOf(candidates, attempts, c) = "pending"
        BY <3>2, <3>3, UnderWay
      <3>. QED
        BY <1>8, <1>9, <2>2, <3>4 DEF Advances, Moves
    <2>. QED
      BY <2>1, <2>2
  <1>11. ControlInvariant' /\ epochStatus \notin Ended
    BY <1>1, ClaimNextKeeps DEF StepKeeps, Ended
  <1>. QED
    BY <1>1, <1>10, <1>11, WorkStep DEF Seen

LEMMA StepSeen ==
  ASSUME ControlInvariant, [Next]_controlVars
  PROVE  Seen
  <1>0. \A wait \in 0 .. MaxWait : wait \in Nat
    BY ControlAssumption
  <1>1. ASSUME StartEpoch PROVE Seen
    BY <1>1, SameRowsHidden DEF StartEpoch, Seen
  <1>2. ASSUME NEW a \in DOMAIN attempts, NEW wait \in 0 .. MaxWait, RenewLease(a, wait)
        PROVE  Seen
    <2>1. attempts[a] \in Attempt /\ attempts \in Seq(Attempt)
      BY Tables
    <2>2. /\ attempts' = [attempts EXCEPT ![a].left = LeaseTicks - wait]
          /\ epochStatus' = epochStatus /\ candidates' = candidates
      BY <1>2 DEF RenewLease
    <2>3. DOMAIN attempts' = DOMAIN attempts
      BY <2>2
    <2>4. \A b \in DOMAIN attempts : /\ attempts'[b].candidate = attempts[b].candidate
                                     /\ attempts'[b].checkpoints = attempts[b].checkpoints
      BY <2>1, <2>2 DEF Attempt
    <2>. QED
      BY <2>2, <2>3, <2>4, SameRowsHidden DEF Seen
  <1>3. ASSUME Tick PROVE Seen
    <2>1. /\ attempts' = [a \in DOMAIN attempts |->
               IF attempts[a].lease = "ACTIVE" /\ attempts[a].left > -MaxWait - 1
               THEN [attempts[a] EXCEPT !.left = @ - 1] ELSE attempts[a]]
          /\ epochStatus' = epochStatus /\ candidates' = candidates
      BY <1>3 DEF Tick
    <2>2. \A b \in DOMAIN attempts : attempts[b] \in Attempt
      BY Tables
    <2>3. \A b \in DOMAIN attempts : /\ attempts'[b].candidate = attempts[b].candidate
                                     /\ attempts'[b].checkpoints = attempts[b].checkpoints
      BY <2>1, <2>2 DEF Attempt
    <2>. QED
      BY <2>1, <2>3, SameRowsHidden DEF Seen
  <1>4. ASSUME UNCHANGED controlVars PROVE Seen
    BY <1>4, SameRowsHidden DEF controlVars, Seen
  <1>. QED
    BY <1>0, <1>1, <1>2, <1>3, <1>4, RegisterSeen, FinishSeen, CheckpointSeen, TerminalizeSeen,
       FailSeen, RecoverOnlySeen, ClaimNextSeen DEF Next

\* The control plane implements the contract of its researcher: whatever leases
\* expire and whichever workers die, a candidate is tried at most MaxAttempts
\* times, a computed result is never lost or reclassified, and an epoch ends with
\* nothing open.
THEOREM ControlRefines == Spec => KeepsContract
  <1>1. ASSUME Init PROVE Contract!ContractInit
    <2>1. /\ epochStatus = "PREPARED" /\ attempts = <<>>
          /\ \A c \in Candidates : candidates[c] = "ABSENT"
      BY <1>1 DEF Init
    <2>2. Phase = "open"
      BY <2>1 DEF Phase
    <2>3. \A c : Of(attempts, c) = {}
      BY <2>1 DEF Of
    <2>4. ASSUME NEW c \in Candidates PROVE Outcome[c] = "absent" /\ Tries[c] = 0
      <3>1. Outcome[c] = "absent"
        BY <2>1, OutcomeSeen DEF OutcomeOf, Terminal, Given, GivenUp
      <3>2. Tries[c] = 0
        BY <2>3, OutcomeSeen, FS_EmptySet DEF TriesOf
      <3>. QED
        BY <3>1, <3>2
    <2>5. Outcome = [c \in Candidates |-> Outcome[c]] /\ Tries = [c \in Candidates |-> Tries[c]]
      BY DEF Outcome, Tries
    <2>. QED
      BY <2>2, <2>4, <2>5 DEF Contract!ContractInit
  <1>2. ControlInvariant /\ [Next]_controlVars =>
          [Contract!ContractNext]_Contract!contractVars
    BY StepSeen DEF Seen
  <1>. QED
    BY <1>1, <1>2, ControlAgrees, PTL DEF Spec, KeepsContract, Contract!ContractSpec
=============================================================================
