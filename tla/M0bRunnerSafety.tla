--------------------------- MODULE M0bRunnerSafety ---------------------------
(***************************************************************************)
(* The worker files and the database rows, which no transaction writes     *)
(* together, never contradict each other: for any number of workers,       *)
(* candidates, tokens and faults, whichever processes are killed and       *)
(* whichever answers are lost.  The control plane's own properties hold of *)
(* it under these workers too.                                             *)
(*                                                                         *)
(* A worker touches the rows of its own token only, and no two workers     *)
(* have the same: hence each step is looked at from the side of the worker *)
(* that takes it, and every other one is left what it knew.                *)
(***************************************************************************)
EXTENDS M0bRunner, M0bControlSafety

-----------------------------------------------------------------------------
(* What a worker's file and its place in the cycle tell.                   *)

BoundTo(att, token) == {a \in DOMAIN att : att[a].token = token}

FileTells(f, att) ==
  /\ f.state = "written" <=> f.token # NoToken
  /\ f.state # "written" => f.claim = 0 /\ ~f.pending
  /\ f.claim # 0 => BoundTo(att, f.token) = {f.claim}
  /\ f.pending => f.claim # 0

CycleTells(p, f, att, cur) ==
  /\ p.pc = "write" => f.state = "empty"
  /\ p.pc \notin {"down", "open", "write"} => f.state = "written"
  /\ p.pc = "reply" => BoundTo(att, f.token) # {}
  /\ p.pc \in Working \cup {"fail"} => f.claim # 0
  /\ p.pc = "fail" => f.pending
  /\ p.pc = "shard" => /\ cur[f.token] = att[f.claim].checkpoints
                       /\ cur[f.token] # Shards
  /\ p.pc = "consume" => \A a \in BoundTo(att, f.token) : att[a].status # "RUNNING"

Tells(p, f, att, cur) == FileTells(f, att) /\ CycleTells(p, f, att, cur)

\* No two files hold one token.
TokensApart(files) == \A v, w \in Workers :
  v # w /\ files[v].token = files[w].token => files[v].token = NoToken

\* A local chain is the stored one or one checkpoint ahead, and there is none
\* for a token no attempt has.
ChainsAhead(att, cur) ==
  /\ \A a \in DOMAIN att : cur[att[a].token] - att[a].checkpoints \in {0, 1}
  /\ \A token \in Tokens : BoundTo(att, token) = {} => cur[token] = 0

\* A live lease is held by a file.
LeaseHeld(att, a, files) ==
  att[a].status = "RUNNING" /\ att[a].left > 0 =>
    \E w \in Workers : files[w].token = att[a].token
LeasesHeld(att, files) == \A a \in DOMAIN att : LeaseHeld(att, a, files)

RunnerTypes ==
  /\ proc \in [Workers -> Process]
  /\ file \in [Workers -> TokenFile]
  /\ cursor \in [Tokens -> 0 .. Shards]
  /\ faults \in 0 .. MaxFaults

RunnerInvariant ==
  /\ ControlInvariant
  /\ RunnerTypes
  /\ \A w \in Workers : Tells(proc[w], file[w], attempts, cursor)
  /\ TokensApart(file)
  /\ ChainsAhead(attempts, cursor)
  /\ LeasesHeld(attempts, file)

-----------------------------------------------------------------------------
(* A step in the service of one token.                                     *)

\* Rows are added for this token only; the others' may only run down or end.
Serves(old, new, token) ==
  /\ \A a \in DOMAIN old :
       /\ a \in DOMAIN new /\ new[a].token = old[a].token
       /\ new[a].status = "RUNNING" => old[a].status = "RUNNING"
       /\ old[a].token # token =>
            /\ new[a].checkpoints = old[a].checkpoints
            /\ new[a].status = "RUNNING" /\ new[a].left > 0 => old[a].left > 0
  /\ \A a \in DOMAIN new : a \notin DOMAIN old =>
       new[a].token = token /\ new[a].checkpoints = 0 /\ BoundTo(old, token) = {}

LEMMA ServesOthers ==
  ASSUME NEW old, NEW new, NEW token, Serves(old, new, token), NEW other, other # token
  PROVE  BoundTo(new, other) = BoundTo(old, other)
BY DEF Serves, BoundTo

\* A worker knows what it knew after a step in the service of another's token.
LEMMA OtherTells ==
  ASSUME NEW old, NEW new, NEW token, Serves(old, new, token),
         NEW p, NEW f, NEW cur, NEW next, Tells(p, f, old, cur),
         f.token # NoToken => f.token # token /\ next[f.token] = cur[f.token]
  PROVE  Tells(p, f, new, next)
  <1>1. CASE f.token = NoToken
    <2>1. f.state # "written" /\ f.claim = 0 /\ ~f.pending
      BY <1>1 DEF Tells, FileTells
    <2>2. p.pc \in {"down", "open", "write"}
      BY <2>1 DEF Tells, CycleTells
    <2>3. p.pc \notin Working \cup {"fail", "reply", "shard", "consume"}
      BY <2>2 DEF Working
    <2>4. FileTells(f, new)
      BY <1>1, <2>1 DEF FileTells
    <2>5. CycleTells(p, f, new, next)
      BY <2>2, <2>3 DEF Tells, CycleTells
    <2>. QED
      BY <2>4, <2>5 DEF Tells
  <1>2. CASE f.token # NoToken
    <2>1. f.token # token /\ next[f.token] = cur[f.token]
      BY <1>2
    <2>2. BoundTo(new, f.token) = BoundTo(old, f.token)
      BY <2>1, ServesOthers
    <2>3. FileTells(f, new)
      BY <2>2 DEF Tells, FileTells
    <2>4. ASSUME NEW a \in BoundTo(old, f.token)
          PROVE  /\ new[a].checkpoints = old[a].checkpoints
                 /\ new[a].status = "RUNNING" => old[a].status = "RUNNING"
      BY <2>1, <2>4 DEF BoundTo, Serves
    <2>5. f.claim # 0 => f.claim \in BoundTo(old, f.token)
      BY DEF Tells, FileTells
    <2>6. p.pc = "shard" => new[f.claim].checkpoints = old[f.claim].checkpoints
      BY <2>4, <2>5 DEF Tells, CycleTells, Working
    <2>7. CycleTells(p, f, new, next)
      BY <2>1, <2>2, <2>4, <2>6 DEF Tells, CycleTells
    <2>. QED
      BY <2>3, <2>7 DEF Tells
  <1>. QED
    BY <1>1, <1>2

LEMMA ChainsKept ==
  ASSUME NEW old, NEW new, NEW token, Serves(old, new, token),
         NEW cur, NEW next, ChainsAhead(old, cur),
         \A a \in DOMAIN new : new[a].token \in Tokens,
         \A x \in Tokens : x # token => next[x] = cur[x],
         \A a \in BoundTo(new, token) : next[token] - new[a].checkpoints \in {0, 1},
         BoundTo(new, token) = {} => next[token] = cur[token]
  PROVE  ChainsAhead(new, next)
  <1>1. ASSUME NEW a \in DOMAIN new
        PROVE  next[new[a].token] - new[a].checkpoints \in {0, 1}
    <2>1. CASE new[a].token = token
      BY <2>1 DEF BoundTo
    <2>2. CASE new[a].token # token
      <3>1. a \in DOMAIN old /\ old[a].token = new[a].token
            /\ new[a].checkpoints = old[a].checkpoints
        BY <2>2 DEF Serves
      <3>2. next[new[a].token] = cur[new[a].token]
        BY <2>2
      <3>. QED
        BY <3>1, <3>2 DEF ChainsAhead
    <2>. QED
      BY <2>1, <2>2
  <1>2. ASSUME NEW x \in Tokens, BoundTo(new, x) = {} PROVE next[x] = 0
    <2>1. BoundTo(old, x) = {}
      BY <1>2 DEF BoundTo, Serves
    <2>2. next[x] = cur[x]
      BY <1>2
    <2>. QED
      BY <2>1, <2>2 DEF ChainsAhead
  <1>. QED
    BY <1>1, <1>2 DEF ChainsAhead

LEMMA LeasesKept ==
  ASSUME NEW old, NEW new, NEW token, Serves(old, new, token),
         NEW files, NEW next, LeasesHeld(old, files),
         \A v \in Workers : files[v].token # token => next[v].token = files[v].token,
         \A a \in BoundTo(new, token) : LeaseHeld(new, a, next)
  PROVE  LeasesHeld(new, next)
  <1>. SUFFICES ASSUME NEW a \in DOMAIN new, new[a].status = "RUNNING", new[a].left > 0,
                       new[a].token # token
                PROVE  \E w \in Workers : next[w].token = new[a].token
    BY DEF LeasesHeld, LeaseHeld, BoundTo
  <1>1. /\ a \in DOMAIN old /\ old[a].token = new[a].token
        /\ old[a].status = "RUNNING" /\ old[a].left > 0
    BY DEF Serves
  <1>2. PICK w \in Workers : files[w].token = old[a].token
    BY <1>1 DEF LeasesHeld, LeaseHeld
  <1>. QED
    BY <1>1, <1>2

LEMMA ApartKept ==
  ASSUME NEW files, NEW w \in Workers, NEW next, TokensApart(files),
         \A v \in Workers : v # w => next[v] = files[v],
         \/ next[w].token \in {files[w].token, NoToken}
         \/ \A v \in Workers : files[v].token # next[w].token
  PROVE  TokensApart(next)
BY DEF TokensApart

-----------------------------------------------------------------------------
(* A step of one worker.                                                   *)

\* Nothing happens to the rows.
LEMMA ServesNothing ==
  ASSUME NEW token
  PROVE  Serves(attempts, attempts, token)
BY DEF Serves

LEMMA RunnerFacts ==
  ASSUME RunnerInvariant, NEW w \in Workers
  PROVE  /\ proc[w] \in Process /\ file[w] \in TokenFile
         /\ TokenOf(w) \in Tokens \cup {NoToken}
         /\ NoToken \notin Tokens
         /\ FileTells(file[w], attempts) /\ CycleTells(proc[w], file[w], attempts, cursor)
         /\ Bound(w) = BoundTo(attempts, TokenOf(w))
         /\ attempts \in Seq(Attempt)
         /\ \A a \in DOMAIN attempts : attempts[a] \in Attempt /\ attempts[a].token \in Tokens
  <1>1. proc[w] \in Process /\ file[w] \in TokenFile
    BY DEF RunnerInvariant, RunnerTypes
  <1>2. TokenOf(w) \in Tokens \cup {NoToken}
    BY <1>1 DEF TokenFile, TokenOf
  <1>3. attempts \in Seq(Attempt) /\ \A a \in DOMAIN attempts : attempts[a] \in Attempt
    BY Tables DEF RunnerInvariant
  <1>4. \A a \in DOMAIN attempts : attempts[a].token \in Tokens
    BY <1>3 DEF Attempt
  <1>5. FileTells(file[w], attempts) /\ CycleTells(proc[w], file[w], attempts, cursor)
    BY DEF RunnerInvariant, Tells
  <1>. QED
    BY <1>1, <1>2, <1>3, <1>4, <1>5, RunnerAssumption DEF Bound, BoundTo

\* What worker w does to its own rows, file, chain and cycle.
OwnStep(w, p, f) ==
  /\ p \in Process /\ f \in TokenFile
  /\ proc' = [proc EXCEPT ![w] = p] /\ file' = [file EXCEPT ![w] = f]
  /\ Tells(p, f, attempts', cursor')
  /\ f.token \in {TokenOf(w), NoToken} \/ Unused(f.token)
  /\ \A a \in BoundTo(attempts', TokenOf(w)) :
       /\ cursor'[TokenOf(w)] - attempts'[a].checkpoints \in {0, 1}
       /\ attempts'[a].status = "RUNNING" /\ attempts'[a].left > 0 => f.token = TokenOf(w)

\* And what it does to the local chains.
CursorStep(w) ==
  /\ cursor' \in [Tokens -> 0 .. Shards]
  /\ \A x \in Tokens : x # TokenOf(w) => cursor'[x] = cursor[x]
  /\ BoundTo(attempts', TokenOf(w)) = {} => cursor'[TokenOf(w)] = cursor[TokenOf(w)]

LEMMA WorkerStep ==
  ASSUME RunnerInvariant, ControlInvariant', NEW w \in Workers, NEW p, NEW f,
         OwnStep(w, p, f), CursorStep(w), faults' \in 0 .. MaxFaults,
         Serves(attempts, attempts', TokenOf(w))
  PROVE  RunnerInvariant'
  <1>1. /\ proc \in [Workers -> Process] /\ file \in [Workers -> TokenFile]
        /\ ChainsAhead(attempts, cursor) /\ TokensApart(file) /\ LeasesHeld(attempts, file)
        /\ \A v \in Workers : Tells(proc[v], file[v], attempts, cursor)
    BY DEF RunnerInvariant, RunnerTypes
  <1>2. /\ p \in Process /\ f \in TokenFile
        /\ proc' = [proc EXCEPT ![w] = p] /\ file' = [file EXCEPT ![w] = f]
    BY DEF OwnStep
  <1>3. /\ proc'[w] = p /\ file'[w] = f
        /\ \A v \in Workers : v # w => proc'[v] = proc[v] /\ file'[v] = file[v]
    BY <1>1, <1>2
  <1>4. RunnerTypes'
    BY <1>1, <1>2 DEF RunnerTypes, CursorStep
  <1>5. ASSUME NEW v \in Workers PROVE Tells(proc'[v], file'[v], attempts', cursor')
    <2>1. CASE v = w
      BY <2>1, <1>3 DEF OwnStep
    <2>2. CASE v # w
      <3>1. file[v].token # NoToken =>
              file[v].token # TokenOf(w) /\ cursor'[file[v].token] = cursor[file[v].token]
        <4>. SUFFICES ASSUME file[v].token # NoToken
                      PROVE  file[v].token # TokenOf(w)
                             /\ cursor'[file[v].token] = cursor[file[v].token]
          OBVIOUS
        <4>1. file[v].token # TokenOf(w)
          BY <1>1, <2>2 DEF TokensApart, TokenOf
        <4>2. file[v].token \in Tokens
          BY RunnerFacts DEF TokenOf
        <4>. QED
          BY <4>1, <4>2 DEF CursorStep
      <3>2. Tells(proc[v], file[v], attempts, cursor)
        BY <1>1
      <3>3. Tells(proc[v], file[v], attempts', cursor')
        BY <3>1, <3>2, OtherTells
      <3>. QED
        BY <3>3, <1>3, <2>2
    <2>. QED
      BY <2>1, <2>2
  <1>6. TokensApart(file')
    <2>1. \/ file'[w].token \in {file[w].token, NoToken}
          \/ \A v \in Workers : file[v].token # file'[w].token
      BY <1>3 DEF OwnStep, Unused, TokenOf
    <2>. QED
      BY <2>1, <1>1, <1>3, ApartKept
  <1>7. \A a \in DOMAIN attempts' : attempts'[a].token \in Tokens
    <2>1. attempts' \in Seq(Attempt)
      BY DEF ControlInvariant, RowsAgree, Typed
    <2>2. \A a \in DOMAIN attempts' : attempts'[a] \in Attempt
      BY <2>1, AttemptRows
    <2>. QED
      BY <2>2 DEF Attempt
  <1>8. ChainsAhead(attempts', cursor')
    BY <1>1, <1>7, ChainsKept DEF CursorStep, OwnStep
  <1>9. LeasesHeld(attempts', file')
    <2>1. \A v \in Workers : file[v].token # TokenOf(w) => file'[v].token = file[v].token
      BY <1>3 DEF TokenOf
    <2>2. \A a \in BoundTo(attempts', TokenOf(w)) : LeaseHeld(attempts', a, file')
      BY <1>3 DEF OwnStep, LeaseHeld, BoundTo
    <2>. QED
      BY <2>1, <2>2, <1>1, LeasesKept
  <1>. QED
    BY <1>4, <1>5, <1>6, <1>8, <1>9 DEF RunnerInvariant

\* A step that leaves the database and the local chains alone.
LEMMA LocalStep ==
  ASSUME RunnerInvariant, NEW w \in Workers, UNCHANGED <<controlVars, cursor>>,
         faults' \in 0 .. MaxFaults,
         NEW p \in Process, NEW f \in TokenFile,
         proc' = [proc EXCEPT ![w] = p], file' = [file EXCEPT ![w] = f],
         FileTells(f, attempts), CycleTells(p, f, attempts, cursor),
         f.token \in {TokenOf(w), NoToken} \/ Unused(f.token),
         \/ f.token = TokenOf(w)
         \/ \A a \in Bound(w) : attempts[a].status # "RUNNING" \/ ~(attempts[a].left > 0)
  PROVE  RunnerInvariant'
  <1>1. /\ epochStatus' = epochStatus /\ candidates' = candidates
        /\ attempts' = attempts /\ decisions' = decisions /\ cursor' = cursor
    BY DEF controlVars
  <1>2. ControlInvariant'
    <2>1. ControlInvariant /\ UNCHANGED controlVars
      BY DEF RunnerInvariant
    <2>. QED
      BY <2>1, StepAgrees DEF StepKeeps
  <1>3. Serves(attempts, attempts', TokenOf(w))
    BY <1>1, ServesNothing
  <1>4. CursorStep(w)
    BY <1>1 DEF CursorStep, RunnerInvariant, RunnerTypes
  <1>5. ASSUME NEW a \in BoundTo(attempts', TokenOf(w))
        PROVE  /\ cursor'[TokenOf(w)] - attempts'[a].checkpoints \in {0, 1}
               /\ attempts'[a].status = "RUNNING" /\ attempts'[a].left > 0 =>
                    f.token = TokenOf(w)
    <2>1. a \in Bound(w) /\ a \in DOMAIN attempts /\ attempts[a].token = TokenOf(w)
      BY <1>1, <1>5 DEF BoundTo, Bound
    <2>2. cursor[TokenOf(w)] - attempts[a].checkpoints \in {0, 1}
      BY <2>1 DEF RunnerInvariant, ChainsAhead
    <2>. QED
      BY <1>1, <2>1, <2>2
  <1>6. OwnStep(w, p, f)
    BY <1>1, <1>5 DEF OwnStep, Tells
  <1>. QED
    BY <1>2, <1>3, <1>4, <1>6, WorkerStep

LEMMA DownTells ==
  ASSUME NEW last \in {"none", "ok", "raised"}
  PROVE  /\ Down(last) \in Process
         /\ \A f, att, cur : CycleTells(Down(last), f, att, cur)
BY DEF Down, Process, Steps, AttemptStatus, CycleTells, Working

\* A call was made, answered or not, and left the files alone.
LEMMA CallStep ==
  ASSUME RunnerInvariant, ControlInvariant', NEW w \in Workers, NEW next \in Process,
         Answer(w, next), UNCHANGED <<file, cursor>>,
         Serves(attempts, attempts', TokenOf(w)),
         FileTells(file[w], attempts'), CycleTells(next, file[w], attempts', cursor),
         \A a \in BoundTo(attempts', TokenOf(w)) :
           cursor[TokenOf(w)] - attempts'[a].checkpoints \in {0, 1}
  PROVE  RunnerInvariant'
  <1>1. file[w] \in TokenFile /\ Down("raised") \in Process
    BY RunnerFacts, DownTells
  <1>2. file' = [file EXCEPT ![w] = file[w]] /\ cursor' = cursor
    BY DEF RunnerInvariant, RunnerTypes
  <1>3. faults' \in 0 .. MaxFaults
    BY RunnerAssumption DEF Answer, Fault, RunnerInvariant, RunnerTypes
  <1>4. CursorStep(w)
    BY <1>2 DEF CursorStep, RunnerInvariant, RunnerTypes
  <1>5. ASSUME NEW p \in {next, Down("raised")}, proc' = [proc EXCEPT ![w] = p]
        PROVE  RunnerInvariant'
    <2>1. CycleTells(p, file[w], attempts', cursor')
      BY <1>2, DownTells
    <2>2. p \in Process
      BY <1>1
    <2>3. OwnStep(w, p, file[w])
      BY <1>1, <1>2, <1>5, <2>1, <2>2 DEF OwnStep, Tells, TokenOf
    <2>. QED
      BY <1>3, <1>4, <2>3, WorkerStep
  <1>. QED
    BY <1>5 DEF Answer, AfterLoss

\* A cycle ends with an error and leaves everything else alone.
LEMMA RaiseStep ==
  ASSUME RunnerInvariant, NEW w \in Workers, Raise(w), UNCHANGED <<controlVars, file, cursor>>,
         faults' \in 0 .. MaxFaults
  PROVE  RunnerInvariant'
  <1>1. Down("raised") \in Process /\ CycleTells(Down("raised"), file[w], attempts, cursor)
    BY DownTells
  <1>2. file' = [file EXCEPT ![w] = file[w]]
    BY DEF RunnerInvariant, RunnerTypes
  <1>3. proc' = [proc EXCEPT ![w] = Down("raised")]
    BY DEF Raise
  <1>4. file[w] \in TokenFile /\ FileTells(file[w], attempts) /\ file[w].token = TokenOf(w)
    BY RunnerFacts DEF TokenOf
  <1>. QED
    BY <1>1, <1>2, <1>3, <1>4, LocalStep

\* A cycle goes on to its next place.
Hop(w, pc) == [proc[w] EXCEPT !.pc = pc]

LEMMA Hops ==
  ASSUME RunnerInvariant, NEW w \in Workers, NEW pc \in Steps
  PROVE  /\ Hop(w, pc) \in Process /\ Hop(w, pc).pc = pc
         /\ Go(w, pc) => proc' = [proc EXCEPT ![w] = Hop(w, pc)]
  <1>1. proc[w] \in Process /\ proc \in [Workers -> Process]
    BY DEF RunnerInvariant, RunnerTypes
  <1>. QED
    BY <1>1 DEF Hop, Process, Go

LEMMA SameFaults == ASSUME RunnerInvariant PROVE faults \in 0 .. MaxFaults
BY DEF RunnerInvariant, RunnerTypes

LEMMA MoreFaults ==
  ASSUME RunnerInvariant, NEW kind, Fault(kind)
  PROVE  faults' \in 0 .. MaxFaults
BY RunnerAssumption DEF Fault, RunnerInvariant, RunnerTypes

LEMMA SameFile ==
  ASSUME RunnerInvariant, NEW w \in Workers
  PROVE  file = [file EXCEPT ![w] = file[w]]
BY DEF RunnerInvariant, RunnerTypes

\* A cycle goes on and leaves everything else alone.
LEMMA GoStep ==
  ASSUME RunnerInvariant, NEW w \in Workers, NEW pc \in Steps, Go(w, pc),
         UNCHANGED <<controlVars, file, cursor, faults>>,
         CycleTells(Hop(w, pc), file[w], attempts, cursor)
  PROVE  RunnerInvariant'
  <1>1. file[w] \in TokenFile /\ FileTells(file[w], attempts) /\ file[w].token = TokenOf(w)
    BY RunnerFacts DEF TokenOf
  <1>2. Hop(w, pc) \in Process /\ proc' = [proc EXCEPT ![w] = Hop(w, pc)]
    BY Hops
  <1>3. file' = [file EXCEPT ![w] = file[w]] /\ faults' \in 0 .. MaxFaults
    BY SameFile, SameFaults
  <1>. QED
    BY <1>1, <1>2, <1>3, LocalStep

-----------------------------------------------------------------------------
(* The steps that leave the database alone.                                *)

LEMMA StartKeeps ==
  ASSUME RunnerInvariant, NEW w \in Workers, Start(w)
  PROVE  RunnerInvariant'
  <1>1. Go(w, "open") /\ UNCHANGED <<controlVars, file, cursor, faults>>
    BY DEF Start
  <1>2. "open" \in Steps
    BY DEF Steps
  <1>3. CycleTells(Hop(w, "open"), file[w], attempts, cursor)
    BY <1>2, Hops DEF CycleTells, Working
  <1>. QED
    BY <1>1, <1>2, <1>3, GoStep

LEMMA OpenTokenKeeps ==
  ASSUME RunnerInvariant, NEW w \in Workers, OpenToken(w)
  PROVE  RunnerInvariant'
  <1>1. UNCHANGED <<controlVars, cursor, faults>>
    BY DEF OpenToken
  <1>2. FileTells(file[w], attempts)
    BY RunnerFacts
  <1>3. "write" \in Steps /\ "claim" \in Steps
    BY DEF Steps
  <1>4. ASSUME file[w].state = "none", file' = [file EXCEPT ![w] = EmptyFile], Go(w, "write")
        PROVE  RunnerInvariant'
    <2>1. EmptyFile \in TokenFile /\ EmptyFile.token = NoToken /\ FileTells(EmptyFile, attempts)
      BY DEF EmptyFile, TokenFile, FileTells
    <2>2. CycleTells(Hop(w, "write"), EmptyFile, attempts, cursor)
      BY <1>3, Hops DEF CycleTells, Working, EmptyFile
    <2>3. TokenOf(w) = NoToken
      BY <1>2, <1>4 DEF FileTells, TokenOf
    <2>4. Hop(w, "write") \in Process /\ proc' = [proc EXCEPT ![w] = Hop(w, "write")]
      BY <1>3, <1>4, Hops
    <2>5. faults' \in 0 .. MaxFaults
      BY <1>1, SameFaults
    <2>. QED
      BY <1>1, <1>4, <2>1, <2>2, <2>3, <2>4, <2>5, LocalStep
  <1>5. ASSUME file[w].state = "written", Go(w, "claim"), UNCHANGED file
        PROVE  RunnerInvariant'
    <2>1. CycleTells(Hop(w, "claim"), file[w], attempts, cursor)
      BY <1>3, <1>5, Hops DEF CycleTells, Working
    <2>. QED
      BY <1>1, <1>3, <1>5, <2>1, GoStep
  <1>6. ASSUME Raise(w), UNCHANGED file PROVE RunnerInvariant'
    BY <1>1, <1>6, SameFaults, RaiseStep
  <1>. QED
    BY <1>4, <1>5, <1>6 DEF OpenToken

\* A drawn token is in no row and no file.
LEMMA Drawn ==
  ASSUME RunnerInvariant, TokenLeft
  PROVE  /\ NewToken \in Tokens /\ Unused(NewToken)
         /\ NewFile(NewToken) \in TokenFile /\ FileTells(NewFile(NewToken), attempts)
  <1>1. NewToken \in Tokens /\ Unused(NewToken)
    BY DEF TokenLeft, NewToken
  <1>2. \A token \in Tokens : NewFile(token) \in TokenFile /\ FileTells(NewFile(token), attempts)
    BY RunnerAssumption DEF NewFile, TokenFile, FileTells
  <1>. QED
    BY <1>1, <1>2

LEMMA WriteTokenKeeps ==
  ASSUME RunnerInvariant, NEW w \in Workers, WriteToken(w)
  PROVE  RunnerInvariant'
  <1> DEFINE f == NewFile(NewToken)
  <1>1. /\ TokenLeft /\ Go(w, "claim") /\ file' = [file EXCEPT ![w] = f]
        /\ proc[w].pc = "write" /\ UNCHANGED <<controlVars, cursor, faults>>
    BY DEF WriteToken, At
  <1>2. f \in TokenFile /\ FileTells(f, attempts) /\ Unused(f.token) /\ f.state = "written"
    BY <1>1, Drawn DEF NewFile
  <1>3. TokenOf(w) = NoToken
    BY <1>1, RunnerFacts DEF CycleTells, FileTells, TokenOf
  <1>4. \A a \in Bound(w) : FALSE
    BY <1>3, RunnerFacts DEF Bound
  <1>5. "claim" \in Steps
    BY DEF Steps
  <1>6. /\ Hop(w, "claim") \in Process /\ Hop(w, "claim").pc = "claim"
        /\ proc' = [proc EXCEPT ![w] = Hop(w, "claim")]
    BY <1>1, <1>5, Hops
  <1>7. faults' \in 0 .. MaxFaults
    BY <1>1, SameFaults
  <1>. HIDE DEF f
  <1>8. CycleTells(Hop(w, "claim"), f, attempts, cursor)
    BY <1>2, <1>6 DEF CycleTells, Working
  <1>. QED
    BY <1>1, <1>2, <1>4, <1>6, <1>7, <1>8, LocalStep

LEMMA RotateTokenKeeps ==
  ASSUME RunnerInvariant, NEW w \in Workers, RotateToken(w)
  PROVE  RunnerInvariant'
  <1> DEFINE f == NewFile(NewToken)
             p == [proc[w] EXCEPT !.pc = "claim", !.round = 1]
  <1>1. UNCHANGED <<controlVars, cursor, faults>> /\ faults' \in 0 .. MaxFaults
    BY SameFaults DEF RotateToken
  <1>2. ASSUME TokenLeft, file' = [file EXCEPT ![w] = Rotated(@, NewToken)],
               proc' = [proc EXCEPT ![w].pc = "claim", ![w].round = 1]
        PROVE  RunnerInvariant'
    <2>1. file' = [file EXCEPT ![w] = f]
      BY <1>2 DEF Rotated
    <2>2. proc[w] \in Process /\ proc \in [Workers -> Process]
      BY DEF RunnerInvariant, RunnerTypes
    <2>3. proc' = [proc EXCEPT ![w] = p]
      BY <1>2, <2>2 DEF Process
    <2>4. p \in Process /\ p.pc = "claim"
      BY <2>2 DEF Process, Steps
    <2>5. f \in TokenFile /\ FileTells(f, attempts) /\ Unused(f.token) /\ f.state = "written"
      BY <1>2, Drawn DEF NewFile
    <2>6. PICK a \in Bound(w) : attempts[a].left <= 0
      BY DEF RotateToken, ExpiredReply
    <2>7. attempts[a].left \in Int /\ a \in DOMAIN attempts /\ attempts[a].token = TokenOf(w)
      BY <2>6, RunnerFacts DEF Bound, Attempt
    <2>8. \A b \in Bound(w) : b = a
      BY <2>7, RunnerFacts DEF Bound, RunnerInvariant, ControlInvariant, RowsAgree, TokensDiffer
    <2>9. \A b \in Bound(w) : ~(attempts[b].left > 0)
      BY <2>6, <2>7, <2>8
    <2>. HIDE DEF f, p
    <2>10. CycleTells(p, f, attempts, cursor)
      BY <2>4, <2>5 DEF CycleTells, Working
    <2>. QED
      BY <1>1, <2>1, <2>3, <2>4, <2>5, <2>9, <2>10, LocalStep
  <1>3. ASSUME Raise(w), UNCHANGED file PROVE RunnerInvariant'
    BY <1>1, <1>3, RaiseStep
  <1>. QED
    BY <1>2, <1>3 DEF RotateToken

LEMMA AcceptClaimKeeps ==
  ASSUME RunnerInvariant, NEW w \in Workers, AcceptClaim(w)
  PROVE  RunnerInvariant'
  <1>1. UNCHANGED <<controlVars, cursor, faults>> /\ faults' \in 0 .. MaxFaults
    BY SameFaults DEF AcceptClaim
  <1>2. PICK a \in Bound(w) : file' = [file EXCEPT ![w].claim = a]
    BY DEF AcceptClaim
  <1> DEFINE f == [file[w] EXCEPT !.claim = a]
  <1>3. /\ file[w] \in TokenFile /\ file \in [Workers -> TokenFile] /\ proc[w] \in Process
        /\ proc \in [Workers -> Process]
    BY DEF RunnerInvariant, RunnerTypes
  <1>4. a \in DOMAIN attempts /\ attempts[a].token = TokenOf(w) /\ a \in Nat /\ a # 0
    BY <1>2, Tables DEF Bound, RunnerInvariant
  <1>5. file' = [file EXCEPT ![w] = f]
    BY <1>2, <1>3
  <1>6. /\ f \in TokenFile /\ f.claim = a /\ f.token = TokenOf(w) /\ f.state = file[w].state
        /\ f.pending = file[w].pending
    BY <1>3, <1>4 DEF TokenFile, TokenOf
  <1>7. BoundTo(attempts, TokenOf(w)) = {a}
    BY <1>4, RunnerFacts DEF BoundTo, RunnerInvariant, ControlInvariant, RowsAgree, TokensDiffer
  <1>8. file[w].state = "written" /\ FileTells(file[w], attempts)
    BY RunnerFacts DEF AcceptClaim, At, CycleTells
  <1>. HIDE DEF f
  <1>9. FileTells(f, attempts)
    BY <1>4, <1>6, <1>7, <1>8 DEF FileTells, TokenOf
  <1>10. ASSUME NEW p \in Process, proc' = [proc EXCEPT ![w] = p],
                p.pc = "load" \/ (p.pc = "fail" /\ f.pending)
         PROVE  RunnerInvariant'
    <2>1. CycleTells(p, f, attempts, cursor)
      BY <1>4, <1>6, <1>8, <1>10 DEF CycleTells, Working
    <2>. QED
      BY <1>1, <1>5, <1>6, <1>9, <1>10, <2>1, LocalStep
  <1>11. "load" \in Steps /\ "fail" \in Steps
    BY DEF Steps, Working
  <1>12. ASSUME file[w].pending, Go(w, "fail") PROVE RunnerInvariant'
    BY <1>6, <1>10, <1>11, <1>12, Hops
  <1>13. ASSUME Raise(w) PROVE RunnerInvariant'
    <2>1. Down("raised") \in Process /\ CycleTells(Down("raised"), f, attempts, cursor)
          /\ proc' = [proc EXCEPT ![w] = Down("raised")]
      BY <1>13, DownTells DEF Raise
    <2>. QED
      BY <1>1, <1>5, <1>6, <1>9, <2>1, LocalStep
  <1>14. ASSUME Resume(w) PROVE RunnerInvariant'
    <2> DEFINE p == [proc[w] EXCEPT !.pc = "load", !.heartbeat = "on"]
    <2>1. p \in Process /\ p.pc = "load"
      BY <1>3, <1>11 DEF Process
    <2>2. proc' = [proc EXCEPT ![w] = p] \/ Go(w, "load")
      BY <1>3, <1>14 DEF Resume, Process
    <2>3. CASE proc' = [proc EXCEPT ![w] = p]
      BY <2>1, <2>3, <1>10
    <2>4. CASE Go(w, "load")
      BY <2>4, <1>10, <1>11, Hops
    <2>. QED
      BY <2>2, <2>3, <2>4
  <1>. QED
    BY <1>12, <1>13, <1>14 DEF AcceptClaim

LEMMA LoadKeeps ==
  ASSUME RunnerInvariant, NEW w \in Workers, Load(w)
  PROVE  RunnerInvariant'
  <1>1. /\ proc[w].pc = "load" /\ Go(w, AfterLoad(w))
        /\ UNCHANGED <<controlVars, file, cursor, faults>>
    BY DEF Load, At
  <1>2. /\ file[w].state = "written" /\ file[w].claim # 0
        /\ BoundTo(attempts, file[w].token) = {file[w].claim}
    BY <1>1, RunnerFacts DEF CycleTells, FileTells, Working
  <1>3. AfterLoad(w) \in Steps /\ AfterLoad(w) \in {"shard", "ckpt"}
    BY DEF AfterLoad, Steps, Working
  <1>4. AfterLoad(w) = "shard" => cursor[file[w].token] = 0
    BY DEF AfterLoad, Local, TokenOf
  <1>5. /\ file[w].claim \in DOMAIN attempts
        /\ attempts[file[w].claim].token = file[w].token
    BY <1>2 DEF BoundTo
  <1>6. /\ cursor[file[w].token] - attempts[file[w].claim].checkpoints \in {0, 1}
        /\ attempts[file[w].claim].checkpoints \in 0 .. Shards
    BY <1>5, RunnerFacts DEF RunnerInvariant, ChainsAhead, Attempt
  <1>7. AfterLoad(w) = "shard" =>
          /\ cursor[file[w].token] = attempts[file[w].claim].checkpoints
          /\ cursor[file[w].token] # Shards
    BY <1>4, <1>6, ControlAssumption
  <1>8. CycleTells(Hop(w, AfterLoad(w)), file[w], attempts, cursor)
    BY <1>2, <1>3, <1>7, Hops DEF CycleTells, Working
  <1>. QED
    BY <1>1, <1>3, <1>8, GoStep

LEMMA ProcessRangeKeeps ==
  ASSUME RunnerInvariant, NEW w \in Workers, ProcessRange(w)
  PROVE  RunnerInvariant'
  <1> DEFINE token == file[w].token
             a == file[w].claim
  <1>1. /\ proc[w].pc = "shard" /\ Go(w, "ckpt") /\ UNCHANGED <<controlVars, file, faults>>
        /\ cursor' = [cursor EXCEPT ![token] = @ + 1]
    BY DEF ProcessRange, At, TokenOf
  <1>2. /\ file[w].state = "written" /\ a # 0 /\ BoundTo(attempts, token) = {a}
        /\ cursor[token] = attempts[a].checkpoints /\ cursor[token] # Shards
        /\ FileTells(file[w], attempts)
    BY <1>1, RunnerFacts DEF CycleTells, FileTells, Working
  <1>3. a \in DOMAIN attempts /\ attempts[a].token = token
    BY <1>2 DEF BoundTo
  <1>4. token \in Tokens /\ attempts[a].checkpoints \in 0 .. Shards
    BY <1>3, RunnerFacts DEF Attempt
  <1>5. cursor \in [Tokens -> 0 .. Shards] /\ Shards \in Nat
    BY ControlAssumption DEF RunnerInvariant, RunnerTypes
  <1>6. /\ cursor' \in [Tokens -> 0 .. Shards] /\ cursor'[token] = attempts[a].checkpoints + 1
        /\ \A x \in Tokens : x # token => cursor'[x] = cursor[x]
    BY <1>1, <1>2, <1>4, <1>5
  <1>7. attempts' = attempts /\ ControlInvariant'
    <2>1. ControlInvariant /\ UNCHANGED controlVars
      BY <1>1 DEF RunnerInvariant
    <2>. QED
      BY <2>1, StepAgrees DEF StepKeeps, controlVars
  <1>8. "ckpt" \in Steps
    BY DEF Steps, Working
  <1>9. /\ Hop(w, "ckpt") \in Process /\ Hop(w, "ckpt").pc = "ckpt"
        /\ proc' = [proc EXCEPT ![w] = Hop(w, "ckpt")]
    BY <1>1, <1>8, Hops
  <1>10. CycleTells(Hop(w, "ckpt"), file[w], attempts', cursor')
    BY <1>2, <1>9 DEF CycleTells, Working
  <1>11. file' = [file EXCEPT ![w] = file[w]] /\ file[w] \in TokenFile
         /\ faults' \in 0 .. MaxFaults
    BY <1>1, SameFile, SameFaults, RunnerFacts
  <1>12. \A b \in BoundTo(attempts', token) : cursor'[token] - attempts'[b].checkpoints \in {0, 1}
    BY <1>2, <1>4, <1>6, <1>7
  <1>13. OwnStep(w, Hop(w, "ckpt"), file[w])
    BY <1>2, <1>7, <1>9, <1>10, <1>11, <1>12 DEF OwnStep, Tells, TokenOf
  <1>14. CursorStep(w)
    BY <1>2, <1>6, <1>7 DEF CursorStep, TokenOf
  <1>15. Serves(attempts, attempts', TokenOf(w))
    BY <1>7, ServesNothing
  <1>. QED
    BY <1>7, <1>11, <1>13, <1>14, <1>15, WorkerStep

LEMMA WorkErrorKeeps ==
  ASSUME RunnerInvariant, NEW w \in Workers, WorkError(w)
  PROVE  RunnerInvariant'
  <1> DEFINE f == [file[w] EXCEPT !.pending = TRUE]
             p == [proc[w] EXCEPT !.pc = "fail", !.heartbeat = "off"]
  <1>1. /\ proc[w].pc \in Working /\ UNCHANGED <<controlVars, cursor>>
        /\ faults' \in 0 .. MaxFaults
    BY MoreFaults DEF WorkError, Working
  <1>2. /\ file[w] \in TokenFile /\ file \in [Workers -> TokenFile] /\ proc[w] \in Process
        /\ proc \in [Workers -> Process]
    BY DEF RunnerInvariant, RunnerTypes
  <1>3. file' = [file EXCEPT ![w] = f] /\ proc' = [proc EXCEPT ![w] = p]
    BY <1>2 DEF WorkError, SavedFailure, Process
  <1>4. /\ f \in TokenFile /\ f.token = file[w].token /\ f.state = file[w].state
        /\ f.claim = file[w].claim /\ f.pending = TRUE
    BY <1>2 DEF TokenFile
  <1>5. p \in Process /\ p.pc = "fail"
    BY <1>2 DEF Process, Steps
  <1>6. file[w].claim # 0 /\ file[w].state = "written" /\ FileTells(file[w], attempts)
    BY <1>1, RunnerFacts DEF CycleTells, Working
  <1>. HIDE DEF f, p
  <1>7. FileTells(f, attempts) /\ CycleTells(p, f, attempts, cursor)
    BY <1>4, <1>5, <1>6 DEF FileTells, CycleTells, Working
  <1>. QED
    BY <1>1, <1>3, <1>4, <1>5, <1>7, LocalStep DEF TokenOf

LEMMA ConsumeTokenKeeps ==
  ASSUME RunnerInvariant, NEW w \in Workers, ConsumeToken(w)
  PROVE  RunnerInvariant'
  <1>1. /\ proc[w].pc = "consume" /\ UNCHANGED <<controlVars, cursor, faults>>
        /\ file' = [file EXCEPT ![w] = NoFile] /\ proc' = [proc EXCEPT ![w] = Down("ok")]
    BY DEF ConsumeToken, At
  <1>2. Down("ok") \in Process /\ CycleTells(Down("ok"), NoFile, attempts, cursor)
    BY DownTells
  <1>3. NoFile \in TokenFile /\ FileTells(NoFile, attempts) /\ NoFile.token = NoToken
    BY DEF NoFile, TokenFile, FileTells
  <1>4. \A a \in Bound(w) : attempts[a].status # "RUNNING"
    BY <1>1, RunnerFacts DEF CycleTells, TokenOf
  <1>5. faults' \in 0 .. MaxFaults
    BY <1>1, SameFaults
  <1>. QED
    BY <1>1, <1>2, <1>3, <1>4, <1>5, LocalStep

LEMMA StopKeeps ==
  ASSUME RunnerInvariant, NEW w \in Workers, Stop(w)
  PROVE  RunnerInvariant'
BY MoreFaults, RaiseStep DEF Stop

-----------------------------------------------------------------------------
(* The calls: what they do to the rows.                                    *)

\* A call whose transaction changed nothing.
LEMMA EmptyCall ==
  ASSUME RunnerInvariant, NEW w \in Workers, NEW next \in Process, Answer(w, next),
         UNCHANGED <<controlVars, file, cursor>>, CycleTells(next, file[w], attempts, cursor)
  PROVE  RunnerInvariant'
  <1>1. attempts' = attempts /\ cursor' = cursor
    BY DEF controlVars
  <1>2. ControlInvariant'
    <2>1. ControlInvariant /\ UNCHANGED controlVars
      BY DEF RunnerInvariant
    <2>. QED
      BY <2>1, StepAgrees DEF StepKeeps
  <1>3. Serves(attempts, attempts', TokenOf(w))
    BY <1>1, ServesNothing
  <1>4. FileTells(file[w], attempts')
    BY <1>1, RunnerFacts
  <1>5. \A a \in BoundTo(attempts', TokenOf(w)) :
          cursor[TokenOf(w)] - attempts'[a].checkpoints \in {0, 1}
    BY <1>1 DEF BoundTo, RunnerInvariant, ChainsAhead
  <1>. QED
    BY <1>1, <1>2, <1>3, <1>4, <1>5, CallStep

\* Each token is bound to one row.
LEMMA OneBound ==
  ASSUME RunnerInvariant, NEW w \in Workers, NEW a \in Bound(w)
  PROVE  /\ a \in DOMAIN attempts /\ attempts[a].token = TokenOf(w)
         /\ BoundTo(attempts, TokenOf(w)) = {a}
  <1>1. a \in DOMAIN attempts /\ attempts[a].token = TokenOf(w)
    BY DEF Bound
  <1>2. TokensDiffer(attempts)
    BY DEF RunnerInvariant, ControlInvariant, RowsAgree
  <1>. QED
    BY <1>1, <1>2 DEF BoundTo, TokensDiffer

\* One row is replaced.
LEMMA OneRow ==
  ASSUME RunnerInvariant, NEW a \in DOMAIN attempts, NEW r,
         attempts' = [attempts EXCEPT ![a] = r], r.token = attempts[a].token,
         r.status = "RUNNING" => attempts[a].status = "RUNNING"
  PROVE  /\ DOMAIN attempts' = DOMAIN attempts /\ attempts'[a] = r
         /\ \A b \in DOMAIN attempts : b # a => attempts'[b] = attempts[b]
         /\ Serves(attempts, attempts', attempts[a].token)
         /\ \A token : BoundTo(attempts', token) = BoundTo(attempts, token)
  <1>1. attempts \in Seq(Attempt)
    BY RunnerFacts, Tables DEF RunnerInvariant
  <1>2. /\ DOMAIN attempts' = DOMAIN attempts /\ attempts'[a] = r
        /\ \A b \in DOMAIN attempts : b # a => attempts'[b] = attempts[b]
    BY <1>1
  <1>3. \A b \in DOMAIN attempts : attempts'[b].token = attempts[b].token
    BY <1>2
  <1>4. Serves(attempts, attempts', attempts[a].token)
    BY <1>2, <1>3 DEF Serves
  <1>5. \A token : BoundTo(attempts', token) = BoundTo(attempts, token)
    BY <1>2, <1>3 DEF BoundTo
  <1>. QED
    BY <1>2, <1>4, <1>5

\* What w's own row may become.
OwnRow(w, a, r) ==
  /\ attempts' = [attempts EXCEPT ![a] = r] /\ r.token = attempts[a].token
  /\ r.status = "RUNNING" => attempts[a].status = "RUNNING"
  /\ cursor[TokenOf(w)] - r.checkpoints \in {0, 1}

LEMMA OwnRowTells ==
  ASSUME RunnerInvariant, NEW w \in Workers, NEW a \in Bound(w), NEW r, OwnRow(w, a, r)
  PROVE  /\ Serves(attempts, attempts', TokenOf(w))
         /\ BoundTo(attempts', TokenOf(w)) = {a} /\ attempts'[a] = r
         /\ FileTells(file[w], attempts')
         /\ \A b \in BoundTo(attempts', TokenOf(w)) :
              cursor[TokenOf(w)] - attempts'[b].checkpoints \in {0, 1}
  <1>1. /\ a \in DOMAIN attempts /\ attempts[a].token = TokenOf(w)
        /\ BoundTo(attempts, TokenOf(w)) = {a}
    BY OneBound
  <1>2. /\ attempts'[a] = r /\ Serves(attempts, attempts', TokenOf(w))
        /\ BoundTo(attempts', TokenOf(w)) = {a}
    BY <1>1, OneRow DEF OwnRow
  <1>3. FileTells(file[w], attempts')
    BY <1>1, <1>2, RunnerFacts DEF FileTells, TokenOf
  <1>. QED
    BY <1>2, <1>3 DEF OwnRow

\* A call that replaced w's own row.
LEMMA OwnCall ==
  ASSUME RunnerInvariant, ControlInvariant', NEW w \in Workers, NEW next \in Process,
         Answer(w, next), UNCHANGED <<file, cursor>>,
         NEW a \in Bound(w), NEW r, OwnRow(w, a, r),
         CycleTells(next, file[w], attempts', cursor)
  PROVE  RunnerInvariant'
BY OwnRowTells, CallStep

\* The chain of w's own row is that far behind its local one.
LEMMA OwnChain ==
  ASSUME RunnerInvariant, NEW w \in Workers, NEW a \in Bound(w)
  PROVE  /\ cursor[TokenOf(w)] - attempts[a].checkpoints \in {0, 1}
         /\ attempts[a] \in Attempt /\ attempts[a].checkpoints \in 0 .. Shards
  <1>1. a \in DOMAIN attempts /\ attempts[a].token = TokenOf(w)
    BY OneBound
  <1>. QED
    BY <1>1, RunnerFacts DEF RunnerInvariant, ChainsAhead, Attempt

LEMMA RenewedRow ==
  ASSUME RunnerInvariant, NEW w \in Workers, NEW a \in Bound(w), NEW wait \in 0 .. MaxWait,
         RenewLease(a, wait)
  PROVE  /\ ControlInvariant' /\ \E r : OwnRow(w, a, r)
         /\ \A b \in DOMAIN attempts : /\ attempts'[b].status = attempts[b].status
                                       /\ attempts'[b].checkpoints = attempts[b].checkpoints
                                       /\ attempts'[b].error = attempts[b].error
  <1> DEFINE r == [attempts[a] EXCEPT !.left = LeaseTicks - wait]
  <1>1. a \in DOMAIN attempts /\ attempts' = [attempts EXCEPT ![a] = r]
    BY OneBound DEF RenewLease
  <1>2. /\ r.token = attempts[a].token /\ r.status = attempts[a].status
        /\ r.checkpoints = attempts[a].checkpoints /\ r.error = attempts[a].error
    BY OwnChain DEF Attempt
  <1>3. wait \in Nat
    BY ControlAssumption
  <1>4. ControlInvariant'
    BY <1>1, <1>3, RenewLeaseKeeps DEF StepKeeps, RunnerInvariant
  <1>. HIDE DEF r
  <1>5. OwnRow(w, a, r)
    BY <1>1, <1>2, OwnChain DEF OwnRow
  <1>6. attempts'[a] = r /\ \A b \in DOMAIN attempts : b # a => attempts'[b] = attempts[b]
    BY <1>1, <1>2, OneRow
  <1>. QED
    BY <1>2, <1>4, <1>5, <1>6

LEMMA CheckpointedRow ==
  ASSUME RunnerInvariant, NEW w \in Workers, NEW a \in Bound(w), NEW wait \in 0 .. MaxWait,
         Checkpoint(a, wait), cursor[TokenOf(w)] = attempts[a].checkpoints + 1
  PROVE  /\ ControlInvariant' /\ \E r : OwnRow(w, a, r)
         /\ attempts'[a].checkpoints = cursor[TokenOf(w)]
         /\ \A b \in DOMAIN attempts : attempts'[b].error = attempts[b].error
  <1> DEFINE r == Checkpointed(attempts[a], wait)
  <1>1. a \in DOMAIN attempts /\ attempts' = [attempts EXCEPT ![a] = r]
    BY OneBound DEF Checkpoint
  <1>2. /\ r.token = attempts[a].token /\ r.status = attempts[a].status
        /\ r.checkpoints = attempts[a].checkpoints + 1 /\ r.error = attempts[a].error
    BY OwnChain DEF Attempt, Checkpointed
  <1>3. wait \in Nat
    BY ControlAssumption
  <1>4. ControlInvariant'
    BY <1>1, <1>3, CheckpointKeeps DEF StepKeeps, RunnerInvariant
  <1>. HIDE DEF r
  <1>5. cursor[TokenOf(w)] - r.checkpoints \in {0, 1}
    BY <1>2, OwnChain
  <1>6. OwnRow(w, a, r)
    BY <1>1, <1>2, <1>5 DEF OwnRow
  <1>7. attempts'[a] = r /\ \A b \in DOMAIN attempts : b # a => attempts'[b] = attempts[b]
    BY <1>1, <1>2, OneRow
  <1>. QED
    BY <1>2, <1>4, <1>6, <1>7

\* An attempt ended, by its own worker.
LEMMA EndedOwnRow ==
  ASSUME RunnerInvariant, NEW w \in Workers, NEW a \in Bound(w),
         NEW status \in {"SUCCEEDED", "FAILED"}, NEW error \in Errors,
         NEW retryable \in BOOLEAN,
         attempts' = [attempts EXCEPT ![a] = EndedAttempt(@, status, error, retryable)]
  PROVE  /\ \E r : OwnRow(w, a, r)
         /\ attempts'[a].status = status /\ attempts'[a].error = error
         /\ \A b \in DOMAIN attempts : b # a => attempts'[b] = attempts[b]
  <1> DEFINE r == EndedAttempt(attempts[a], status, error, retryable)
  <1>1. a \in DOMAIN attempts /\ attempts' = [attempts EXCEPT ![a] = r]
    BY OneBound
  <1>2. /\ r.token = attempts[a].token /\ r.status = status /\ r.error = error
        /\ r.checkpoints = attempts[a].checkpoints
    BY DEF EndedAttempt
  <1>. HIDE DEF r
  <1>3. OwnRow(w, a, r)
    BY <1>1, <1>2, OwnChain DEF OwnRow
  <1>4. attempts'[a] = r /\ \A b \in DOMAIN attempts : b # a => attempts'[b] = attempts[b]
    BY <1>1, <1>2, OneRow
  <1>. QED
    BY <1>2, <1>3, <1>4

-----------------------------------------------------------------------------
(* The calls, one by one.                                                  *)

LEMMA Replies ==
  ASSUME RunnerInvariant, NEW w \in Workers, NEW seen \in AttemptStatus
  PROVE  Reply(w, seen) \in Process /\ Reply(w, seen).pc = "reply"
  <1>1. proc[w] \in Process
    BY RunnerFacts
  <1>. QED
    BY <1>1 DEF Reply, Process, Steps

LEMMA ClaimReplayKeeps ==
  ASSUME RunnerInvariant, NEW w \in Workers, ClaimReplay(w)
  PROVE  RunnerInvariant'
  <1>1. /\ file[w].state = "written" /\ UNCHANGED <<file, cursor>>
        /\ file[w].token = TokenOf(w)
    BY RunnerFacts DEF ClaimReplay, At, CycleTells, TokenOf
  <1>2. ASSUME NEW a \in Bound(w), NEW seen \in AttemptStatus, NEW att,
               BoundTo(att, TokenOf(w)) = {a}
        PROVE  CycleTells(Reply(w, seen), file[w], att, cursor)
    BY <1>1, <1>2, Replies DEF CycleTells, Working
  <1>3. ASSUME NEW a \in Bound(w), NEW wait \in 0 .. MaxWait, RenewLease(a, wait),
               Answer(w, Reply(w, "RUNNING"))
        PROVE  RunnerInvariant'
    <2>1. ControlInvariant' /\ \E r : OwnRow(w, a, r)
      BY <1>3, RenewedRow
    <2>2. PICK r : OwnRow(w, a, r)
      BY <2>1
    <2>3. "RUNNING" \in AttemptStatus
      BY DEF AttemptStatus
    <2>4. CycleTells(Reply(w, "RUNNING"), file[w], attempts', cursor') /\ cursor' = cursor
      BY <1>1, <1>2, <2>2, <2>3, OwnRowTells
    <2>. QED
      BY <1>1, <1>3, <2>1, <2>2, <2>3, <2>4, Replies, OwnCall
  <1>4. ASSUME NEW a \in Bound(w), Answer(w, Reply(w, attempts[a].status)),
               UNCHANGED controlVars
        PROVE  RunnerInvariant'
    <2>1. attempts[a].status \in AttemptStatus
      BY OwnChain DEF Attempt
    <2>2. CycleTells(Reply(w, attempts[a].status), file[w], attempts, cursor)
      BY <1>2, <2>1, OneBound
    <2>. QED
      BY <1>1, <1>4, <2>1, <2>2, Replies, EmptyCall
  <1>5. ASSUME Raise(w), UNCHANGED <<controlVars, faults>> PROVE RunnerInvariant'
    BY <1>1, <1>5, SameFaults, RaiseStep
  <1>. QED
    BY <1>3, <1>4, <1>5 DEF ClaimReplay

\* What recovering s does to the rows.
LEMMA RecoveredRows ==
  ASSUME ControlInvariant, NEW wait \in Nat, NEW s \in {0} \cup DOMAIN attempts,
         s # 0 => Recoverable(s, wait)
  PROVE  LET rows == AttemptsRecovering(s) IN
         /\ rows \in Seq(Attempt) /\ DOMAIN rows = DOMAIN attempts /\ Len(rows) = Len(attempts)
         /\ \A a \in DOMAIN attempts :
              /\ rows[a].token = attempts[a].token
              /\ rows[a].checkpoints = attempts[a].checkpoints
              /\ \/ rows[a] = attempts[a]
                 \/ rows[a].status = "FAILED" /\ rows[a].error = "expired"
  <1> DEFINE rows == AttemptsRecovering(s)
  <1>1. /\ rows \in Seq(Attempt) /\ DOMAIN rows = DOMAIN attempts /\ Len(rows) = Len(attempts)
        /\ \A a \in DOMAIN attempts : /\ rows[a].token = attempts[a].token
                                      /\ a # s => rows[a] = attempts[a]
    BY Recovery DEF Recovers, RowsAgree, Typed
  <1>2. CASE s = 0
    BY <1>1, <1>2 DEF AttemptsRecovering
  <1>3. CASE s # 0
    <2>1. rows[s] = EndedAttempt(attempts[s], "FAILED", "expired", ~Exhausted(s))
      BY <1>3, Tables DEF AttemptsRecovering
    <2>2. /\ rows[s].checkpoints = attempts[s].checkpoints
          /\ rows[s].status = "FAILED" /\ rows[s].error = "expired"
      BY <2>1 DEF EndedAttempt
    <2>. HIDE DEF rows
    <2>3. ASSUME NEW a \in DOMAIN attempts
          PROVE  /\ rows[a].checkpoints = attempts[a].checkpoints
                 /\ \/ rows[a] = attempts[a]
                    \/ rows[a].status = "FAILED" /\ rows[a].error = "expired"
      BY <1>1, <2>2
    <2>. QED
      BY <1>1, <2>3 DEF rows
  <1>. QED
    BY <1>2, <1>3

\* A claim in the service of a token binds one new row to it.
LEMMA ClaimedRows ==
  ASSUME RunnerInvariant, NEW token \in Tokens, NEW wait \in Nat,
         NEW s \in {0} \cup DOMAIN attempts, NEW c \in Candidates, ClaimNext(token, wait, s, c)
  PROVE  /\ Serves(attempts, attempts', token)
         /\ BoundTo(attempts, token) = {} /\ BoundTo(attempts', token) # {}
         /\ \A a \in BoundTo(attempts', token) : attempts'[a].checkpoints = 0
         /\ \A a \in DOMAIN attempts : \/ attempts'[a].error = attempts[a].error
                                       \/ attempts'[a].error = "expired"
  <1> DEFINE rows == AttemptsRecovering(s)
             r == NewAttempt(c, Cardinality(Attempted(c)) + 1, token, wait)
             n == Len(attempts) + 1
  <1>1. FreshToken(token) /\ attempts' = Append(rows, r) /\ (s # 0 => Recoverable(s, wait))
    BY DEF ClaimNext
  <1>2. /\ rows \in Seq(Attempt) /\ DOMAIN rows = DOMAIN attempts /\ Len(rows) = Len(attempts)
        /\ \A a \in DOMAIN attempts :
             /\ rows[a].token = attempts[a].token
             /\ rows[a].checkpoints = attempts[a].checkpoints
             /\ \/ rows[a] = attempts[a]
                \/ rows[a].status = "FAILED" /\ rows[a].error = "expired"
    BY <1>1, RecoveredRows DEF RunnerInvariant
  <1>3. /\ Len(rows) \in Nat /\ DOMAIN rows = 1 .. Len(rows)
        /\ DOMAIN attempts = 1 .. Len(attempts) /\ Len(attempts) \in Nat
    BY <1>2, AttemptRows, Tables DEF RunnerInvariant
  <1>4. r.token = token /\ r.checkpoints = 0
    BY DEF NewAttempt
  <1>5. BoundTo(attempts, token) = {}
    BY <1>1 DEF FreshToken, BoundTo
  <1>. HIDE DEF r, rows
  <1>6. /\ attempts'[n] = r /\ DOMAIN attempts' = 1 .. n
        /\ \A a \in DOMAIN attempts : attempts'[a] = rows[a]
    <2>1. /\ Len(Append(rows, r)) = n /\ Append(rows, r)[n] = r
          /\ \A a \in 1 .. Len(rows) : Append(rows, r)[a] = rows[a]
          /\ DOMAIN Append(rows, r) = 1 .. n
      BY <1>2, <1>3
    <2>. QED
      BY <1>1, <1>2, <1>3, <2>1
  <1>7. \A a \in DOMAIN attempts' : a \in DOMAIN attempts \/ a = n
    BY <1>3, <1>6
  <1>8. n \in DOMAIN attempts' /\ \A a \in DOMAIN attempts : a \in DOMAIN attempts'
    BY <1>3, <1>6
  <1>9. ASSUME NEW a \in DOMAIN attempts
        PROVE  /\ attempts'[a].token = attempts[a].token
               /\ attempts'[a].checkpoints = attempts[a].checkpoints
               /\ attempts'[a] = attempts[a]
                    \/ (attempts'[a].status = "FAILED" /\ attempts'[a].error = "expired")
    BY <1>2, <1>6
  <1>. HIDE DEF n
  <1>10. Serves(attempts, attempts', token)
    BY <1>4, <1>5, <1>6, <1>7, <1>8, <1>9 DEF Serves
  <1>11. n \in BoundTo(attempts', token)
    BY <1>4, <1>6, <1>8 DEF BoundTo
  <1>12. ASSUME NEW a \in BoundTo(attempts', token) PROVE attempts'[a].checkpoints = 0
    <2>1. a \in DOMAIN attempts' /\ attempts'[a].token = token
      BY <1>12 DEF BoundTo
    <2>2. a \notin DOMAIN attempts
      BY <1>5, <1>9, <2>1 DEF BoundTo
    <2>. QED
      BY <1>4, <1>6, <1>7, <2>1, <2>2
  <1>. QED
    BY <1>5, <1>9, <1>10, <1>11, <1>12

LEMMA ClaimFreshKeeps ==
  ASSUME RunnerInvariant, NEW w \in Workers, ClaimFresh(w)
  PROVE  RunnerInvariant'
  <1>1. PICK wait \in 0 .. MaxWait, s \in {0} \cup DOMAIN attempts, c \in Candidates :
          ClaimNext(TokenOf(w), wait, s, c)
    BY DEF ClaimFresh
  <1>2. Answer(w, Reply(w, "RUNNING")) /\ UNCHANGED <<file, cursor>>
    BY DEF ClaimFresh
  <1>3. /\ file[w].state = "written" /\ FileTells(file[w], attempts)
        /\ file[w].token = TokenOf(w) /\ TokenOf(w) \in Tokens
    BY RunnerFacts DEF ClaimFresh, At, CycleTells, FileTells, TokenOf
  <1>4. wait \in Nat
    BY ControlAssumption
  <1>5. ControlInvariant'
    BY <1>1, <1>3, <1>4, ClaimNextKeeps DEF StepKeeps, RunnerInvariant
  <1>6. /\ Serves(attempts, attempts', TokenOf(w))
        /\ BoundTo(attempts, TokenOf(w)) = {} /\ BoundTo(attempts', TokenOf(w)) # {}
        /\ \A a \in BoundTo(attempts', TokenOf(w)) : attempts'[a].checkpoints = 0
    BY <1>1, <1>3, <1>4, ClaimedRows
  <1>7. file[w].claim = 0
    BY <1>3, <1>6 DEF FileTells
  <1>8. FileTells(file[w], attempts')
    BY <1>3, <1>7 DEF FileTells
  <1>9. "RUNNING" \in AttemptStatus
    BY DEF AttemptStatus
  <1>10. Reply(w, "RUNNING") \in Process /\ Reply(w, "RUNNING").pc = "reply"
    BY <1>9, Replies
  <1>11. CycleTells(Reply(w, "RUNNING"), file[w], attempts', cursor')
    BY <1>3, <1>6, <1>10 DEF CycleTells, Working
  <1>12. cursor[TokenOf(w)] = 0
    BY <1>3, <1>6 DEF RunnerInvariant, ChainsAhead
  <1>13. \A a \in BoundTo(attempts', TokenOf(w)) :
           cursor[TokenOf(w)] - attempts'[a].checkpoints \in {0, 1}
    BY <1>6, <1>12
  <1>. QED
    BY <1>2, <1>5, <1>6, <1>8, <1>10, <1>11, <1>13, CallStep

\* A claim that finds no work may still have recovered an attempt.
LEMMA OnlyRecovered ==
  ASSUME RunnerInvariant, NEW token \in Tokens, NEW wait \in Nat, NEW s \in DOMAIN attempts,
         RecoverOnly(token, wait, s)
  PROVE  /\ DOMAIN attempts' = DOMAIN attempts
         /\ Serves(attempts, attempts', token) /\ BoundTo(attempts', token) = {}
         /\ \A a \in DOMAIN attempts : \/ attempts'[a].error = attempts[a].error
                                       \/ attempts'[a].error = "expired"
  <1>1. FreshToken(token) /\ attempts' = AttemptsRecovering(s) /\ Recoverable(s, wait)
    BY DEF RecoverOnly
  <1>2. /\ DOMAIN attempts' = DOMAIN attempts
        /\ \A a \in DOMAIN attempts :
             /\ attempts'[a].token = attempts[a].token
             /\ attempts'[a].checkpoints = attempts[a].checkpoints
             /\ attempts'[a] = attempts[a]
                  \/ (attempts'[a].status = "FAILED" /\ attempts'[a].error = "expired")
    BY <1>1, RecoveredRows DEF RunnerInvariant
  <1>3. BoundTo(attempts', token) = {}
    BY <1>1, <1>2 DEF FreshToken, BoundTo
  <1>4. Serves(attempts, attempts', token)
    BY <1>2 DEF Serves
  <1>. QED
    BY <1>2, <1>3, <1>4

LEMMA ClaimIdleKeeps ==
  ASSUME RunnerInvariant, NEW w \in Workers, ClaimIdle(w)
  PROVE  RunnerInvariant'
  <1> DEFINE next == [proc[w] EXCEPT !.pc = "consume"]
  <1>1. /\ Answer(w, next) /\ UNCHANGED <<file, cursor>>
        /\ file[w].state = "written" /\ FileTells(file[w], attempts)
        /\ file[w].token = TokenOf(w) /\ TokenOf(w) \in Tokens
        /\ BoundTo(attempts, TokenOf(w)) = {}
    BY RunnerFacts DEF ClaimIdle, At, CycleTells, FileTells, TokenOf
  <1>2. next \in Process /\ next.pc = "consume"
    BY RunnerFacts DEF Process, Steps
  <1>. HIDE DEF next
  <1>3. ASSUME NEW att, BoundTo(att, TokenOf(w)) = {}
        PROVE  CycleTells(next, file[w], att, cursor) /\ FileTells(file[w], att)
    <2>1. CycleTells(next, file[w], att, cursor)
      BY <1>1, <1>2, <1>3 DEF CycleTells, Working
    <2>2. file[w].claim = 0
      BY <1>1 DEF FileTells
    <2>. QED
      BY <1>1, <2>1, <2>2 DEF FileTells
  <1>4. ASSUME UNCHANGED controlVars PROVE RunnerInvariant'
    BY <1>1, <1>2, <1>3, <1>4, EmptyCall
  <1>5. ASSUME NEW wait \in 0 .. MaxWait, NEW s \in DOMAIN attempts,
               RecoverOnly(TokenOf(w), wait, s)
        PROVE  RunnerInvariant'
    <2>1. wait \in Nat
      BY ControlAssumption
    <2>2. ControlInvariant'
      BY <1>1, <1>5, <2>1, RecoverOnlyKeeps DEF StepKeeps, RunnerInvariant
    <2>3. Serves(attempts, attempts', TokenOf(w)) /\ BoundTo(attempts', TokenOf(w)) = {}
      BY <1>1, <1>5, <2>1, OnlyRecovered
    <2>4. CycleTells(next, file[w], attempts', cursor') /\ FileTells(file[w], attempts')
      BY <1>1, <1>3, <2>3
    <2>. QED
      BY <1>1, <1>2, <2>2, <2>3, <2>4, CallStep
  <1>. QED
    BY <1>4, <1>5 DEF ClaimIdle

\* A worker at work has one row, the one it claimed.
LEMMA AtWork ==
  ASSUME RunnerInvariant, NEW w \in Workers, proc[w].pc \in Working \cup {"fail"}
  PROVE  /\ file[w].state = "written" /\ file[w].claim # 0
         /\ Claimed(w) \in Bound(w) /\ BoundTo(attempts, TokenOf(w)) = {Claimed(w)}
         /\ file[w].token = TokenOf(w) /\ file[w].claim = Claimed(w)
  <1>1. /\ file[w].claim # 0 /\ file[w].state = "written"
        /\ BoundTo(attempts, file[w].token) = {file[w].claim}
        /\ Bound(w) = BoundTo(attempts, file[w].token)
    BY RunnerFacts DEF CycleTells, FileTells, Working, TokenOf
  <1>. QED
    BY <1>1 DEF Claimed, TokenOf

LEMMA PublishCheckpointKeeps ==
  ASSUME RunnerInvariant, NEW w \in Workers, PublishCheckpoint(w)
  PROVE  RunnerInvariant'
  <1> DEFINE a == Claimed(w)
             pc == IF Local(w) = Shards THEN "result" ELSE "shard"
             next == [proc[w] EXCEPT !.pc = pc]
  <1>1. proc[w].pc = "ckpt" /\ UNCHANGED <<file, cursor>> /\ Local(w) = cursor[TokenOf(w)]
    BY DEF PublishCheckpoint, At, Local
  <1>2. /\ file[w].state = "written" /\ file[w].claim = a /\ a # 0 /\ a \in Bound(w)
        /\ BoundTo(attempts, TokenOf(w)) = {a} /\ file[w].token = TokenOf(w)
    BY <1>1, AtWork DEF Working
  <1>3. next \in Process /\ next.pc = pc /\ pc \in {"result", "shard"}
    BY RunnerFacts DEF Process, Steps, Working
  <1>4. pc = "shard" => cursor[TokenOf(w)] # Shards
    BY <1>1
  <1>. HIDE DEF next, pc, a
  <1>5. ASSUME NEW att, cursor[TokenOf(w)] = att[a].checkpoints
        PROVE  CycleTells(next, file[w], att, cursor)
    BY <1>2, <1>3, <1>4, <1>5 DEF CycleTells, Working
  <1>6. ASSUME Local(w) <= attempts[a].checkpoints, UNCHANGED controlVars, Answer(w, next)
        PROVE  RunnerInvariant'
    <2>1. cursor[TokenOf(w)] - attempts[a].checkpoints \in {0, 1}
          /\ attempts[a].checkpoints \in 0 .. Shards
      BY <1>2, OwnChain
    <2>2. cursor[TokenOf(w)] \in 0 .. Shards
      BY <1>2, RunnerFacts DEF CycleTells, FileTells, RunnerInvariant, RunnerTypes, Bound
    <2>3. cursor[TokenOf(w)] = attempts[a].checkpoints
      BY <1>1, <1>6, <2>1, <2>2, ControlAssumption
    <2>4. CycleTells(next, file[w], attempts, cursor)
      BY <1>5, <2>3
    <2>. QED
      BY <1>1, <1>3, <1>6, <2>4, EmptyCall
  <1>7. ASSUME Local(w) = attempts[a].checkpoints + 1, NEW wait \in 0 .. MaxWait,
               Checkpoint(a, wait), Answer(w, next)
        PROVE  RunnerInvariant'
    <2>1. /\ ControlInvariant' /\ \E r : OwnRow(w, a, r)
          /\ attempts'[a].checkpoints = cursor[TokenOf(w)]
      BY <1>1, <1>2, <1>7, CheckpointedRow
    <2>2. PICK r : OwnRow(w, a, r)
      BY <2>1
    <2>3. CycleTells(next, file[w], attempts', cursor') /\ cursor' = cursor
      BY <1>1, <1>5, <2>1
    <2>. QED
      BY <1>1, <1>2, <1>3, <1>7, <2>1, <2>2, <2>3, OwnCall
  <1>8. ASSUME Raise(w), UNCHANGED <<controlVars, faults>> PROVE RunnerInvariant'
    BY <1>1, <1>8, SameFaults, RaiseStep
  <1>. QED
    BY <1>6, <1>7, <1>8 DEF PublishCheckpoint, next, pc, a

\* A decided attempt has succeeded.
LEMMA DecidedDone ==
  ASSUME RunnerInvariant, NEW a, Decided(a)
  PROVE  attempts[a].status = "SUCCEEDED"
  <1>1. DecisionsTell(attempts, decisions)
    BY DEF RunnerInvariant, ControlInvariant, RowsAgree
  <1>. QED
    BY <1>1 DEF Decided, DecisionsTell

\* Past the result or the failure, when w's own row is no longer running.
LEMMA ClosedTells ==
  ASSUME NEW w \in Workers, NEW att, NEW a, BoundTo(att, TokenOf(w)) = {a},
         att[a].status # "RUNNING", file[w].state = "written", NEW p, p.pc = "consume"
  PROVE  CycleTells(p, file[w], att, cursor)
BY DEF CycleTells, Working, TokenOf

LEMMA PublishResultKeeps ==
  ASSUME RunnerInvariant, NEW w \in Workers, PublishResult(w)
  PROVE  RunnerInvariant'
  <1> DEFINE a == Claimed(w)
             next == AfterResult(w)
  <1>1. proc[w].pc = "result" /\ UNCHANGED <<file, cursor>>
    BY DEF PublishResult, At
  <1>2. /\ file[w].state = "written" /\ a \in Bound(w) /\ a \in DOMAIN attempts
        /\ BoundTo(attempts, TokenOf(w)) = {a}
    BY <1>1, AtWork, OneBound DEF Working
  <1>3. next \in Process /\ (next = Down("raised") \/ next.pc = "consume")
    <2>1. [proc[w] EXCEPT !.pc = "consume"] \in Process
          /\ [proc[w] EXCEPT !.pc = "consume"].pc = "consume"
      BY RunnerFacts DEF Process, Steps
    <2>. QED
      BY <2>1, DownTells DEF AfterResult
  <1>. HIDE DEF next, a
  <1>4. ASSUME NEW att, BoundTo(att, TokenOf(w)) = {a}, att[a].status # "RUNNING"
        PROVE  CycleTells(next, file[w], att, cursor)
    <2>1. CASE next = Down("raised")
      BY <2>1, DownTells
    <2>2. CASE next.pc = "consume"
      BY <2>2, <1>2, <1>4, ClosedTells
    <2>. QED
      BY <1>3, <2>1, <2>2
  <1>5. ASSUME Decided(a), UNCHANGED controlVars, Answer(w, next) PROVE RunnerInvariant'
    <2>1. attempts[a].status # "RUNNING"
      BY <1>5, DecidedDone
    <2>2. CycleTells(next, file[w], attempts, cursor)
      BY <1>2, <1>4, <2>1
    <2>. QED
      BY <1>1, <1>3, <1>5, <2>2, EmptyCall
  <1>6. ASSUME NEW wait \in 0 .. MaxWait, Terminalize(a, wait), Answer(w, next)
        PROVE  RunnerInvariant'
    <2>1. attempts' = [attempts EXCEPT ![a] = EndedAttempt(@, "SUCCEEDED", "none", FALSE)]
      BY <1>6 DEF Terminalize
    <2>2. wait \in Nat
      BY ControlAssumption
    <2>3. ControlInvariant'
      BY <1>2, <1>6, <2>2, TerminalizeKeeps DEF StepKeeps, RunnerInvariant
    <2>4. "none" \in Errors /\ FALSE \in BOOLEAN
      BY DEF Errors
    <2>5. (\E r : OwnRow(w, a, r)) /\ attempts'[a].status = "SUCCEEDED"
      BY <1>2, <2>1, <2>4, EndedOwnRow
    <2>6. PICK r : OwnRow(w, a, r)
      BY <2>5
    <2>7. BoundTo(attempts', TokenOf(w)) = {a} /\ cursor' = cursor
      BY <1>1, <1>2, <2>6, OwnRowTells
    <2>8. CycleTells(next, file[w], attempts', cursor')
      BY <1>4, <2>5, <2>7
    <2>. QED
      BY <1>1, <1>2, <1>3, <1>6, <2>3, <2>6, <2>8, OwnCall
  <1>7. ASSUME Raise(w), UNCHANGED <<controlVars, faults>> PROVE RunnerInvariant'
    BY <1>1, <1>7, SameFaults, RaiseStep
  <1>. QED
    BY <1>5, <1>6, <1>7 DEF PublishResult, next, a

LEMMA PublishFailureKeeps ==
  ASSUME RunnerInvariant, NEW w \in Workers, PublishFailure(w)
  PROVE  RunnerInvariant'
  <1> DEFINE a == Claimed(w)
             next == [proc[w] EXCEPT !.pc = "consume"]
  <1>1. proc[w].pc = "fail" /\ UNCHANGED <<file, cursor>>
    BY DEF PublishFailure, At
  <1>2. /\ file[w].state = "written" /\ a \in Bound(w) /\ a \in DOMAIN attempts
        /\ BoundTo(attempts, TokenOf(w)) = {a}
    BY <1>1, AtWork, OneBound
  <1>3. next \in Process /\ next.pc = "consume"
    BY RunnerFacts DEF Process, Steps
  <1>. HIDE DEF next, a
  <1>4. ASSUME NEW att, BoundTo(att, TokenOf(w)) = {a}, att[a].status # "RUNNING"
        PROVE  CycleTells(next, file[w], att, cursor)
    BY <1>2, <1>3, <1>4, ClosedTells
  <1>5. ASSUME attempts[a].status = "FAILED", UNCHANGED controlVars, Answer(w, next)
        PROVE  RunnerInvariant'
    <2>1. CycleTells(next, file[w], attempts, cursor)
      BY <1>2, <1>4, <1>5
    <2>. QED
      BY <1>1, <1>3, <1>5, <2>1, EmptyCall
  <1>6. ASSUME NEW wait \in 0 .. MaxWait, Fail(a, wait, TRUE), Answer(w, next)
        PROVE  RunnerInvariant'
    <2>1. attempts' = [attempts EXCEPT ![a] = EndedAttempt(@, "FAILED", "work", TRUE)]
      BY <1>6 DEF Fail
    <2>2. wait \in Nat /\ TRUE \in BOOLEAN
      BY ControlAssumption
    <2>3. ControlInvariant'
      BY <1>2, <1>6, <2>2, FailKeeps DEF StepKeeps, RunnerInvariant
    <2>4. "work" \in Errors
      BY DEF Errors
    <2>5. (\E r : OwnRow(w, a, r)) /\ attempts'[a].status = "FAILED"
      BY <1>2, <2>1, <2>2, <2>4, EndedOwnRow
    <2>6. PICK r : OwnRow(w, a, r)
      BY <2>5
    <2>7. BoundTo(attempts', TokenOf(w)) = {a} /\ cursor' = cursor
      BY <1>1, <1>2, <2>6, OwnRowTells
    <2>8. CycleTells(next, file[w], attempts', cursor')
      BY <1>4, <2>5, <2>7
    <2>. QED
      BY <1>1, <1>2, <1>3, <1>6, <2>3, <2>6, <2>8, OwnCall
  <1>7. ASSUME Raise(w), UNCHANGED <<controlVars, faults>> PROVE RunnerInvariant'
    BY <1>1, <1>7, SameFaults, RaiseStep
  <1>. QED
    BY <1>5, <1>6, <1>7 DEF PublishFailure, next, a

\* The heartbeat beside the work: only how it fares changes.
LEMMA HeartStep ==
  ASSUME RunnerInvariant, NEW w \in Workers, NEW state \in {"on", "off", "failed"},
         Heart(w, state)
  PROVE  \E p \in Process : p.pc = proc[w].pc /\ proc' = [proc EXCEPT ![w] = p]
  <1> DEFINE p == [proc[w] EXCEPT !.heartbeat = state]
  <1>1. proc[w] \in Process /\ proc \in [Workers -> Process]
    BY DEF RunnerInvariant, RunnerTypes
  <1>2. p \in Process /\ p.pc = proc[w].pc
    BY <1>1 DEF Process
  <1>3. proc' = [proc EXCEPT ![w] = p]
    BY <1>1 DEF Heart
  <1>. QED
    BY <1>2, <1>3

LEMMA HeartbeatKeeps ==
  ASSUME RunnerInvariant, NEW w \in Workers, Heartbeat(w)
  PROVE  RunnerInvariant'
  <1> DEFINE a == Claimed(w)
  <1>1. /\ proc[w].pc \in Working /\ UNCHANGED <<file, cursor>>
        /\ file' = [file EXCEPT ![w] = file[w]] /\ file[w] \in TokenFile
        /\ FileTells(file[w], attempts)
        /\ CycleTells(proc[w], file[w], attempts, cursor)
    BY SameFile, RunnerFacts DEF Heartbeat, Beats
  <1>2. /\ file[w].state = "written" /\ file[w].claim = a /\ a # 0 /\ a \in Bound(w)
        /\ a \in DOMAIN attempts
        /\ BoundTo(attempts, TokenOf(w)) = {a} /\ file[w].token = TokenOf(w)
    BY <1>1, AtWork, OneBound
  <1>. HIDE DEF a
  <1>3. ASSUME NEW p \in Process, p.pc = proc[w].pc, NEW att,
               BoundTo(att, TokenOf(w)) = {a}, att[a].checkpoints = attempts[a].checkpoints
        PROVE  CycleTells(p, file[w], att, cursor)
    BY <1>1, <1>2, <1>3 DEF CycleTells, Working
  <1>4. ASSUME NEW p \in Process, p.pc = proc[w].pc, proc' = [proc EXCEPT ![w] = p],
               faults' \in 0 .. MaxFaults, UNCHANGED controlVars
        PROVE  RunnerInvariant'
    <2>1. CycleTells(p, file[w], attempts, cursor)
      BY <1>2, <1>3, <1>4
    <2>. QED
      BY <1>1, <1>2, <1>4, <2>1, LocalStep
  <1>5. ASSUME NEW p \in Process, p.pc = proc[w].pc, proc' = [proc EXCEPT ![w] = p],
               faults' \in 0 .. MaxFaults, NEW wait \in 0 .. MaxWait, RenewLease(a, wait)
        PROVE  RunnerInvariant'
    <2>1. /\ ControlInvariant' /\ \E r : OwnRow(w, a, r)
          /\ attempts'[a].checkpoints = attempts[a].checkpoints
      BY <1>2, <1>5, RenewedRow
    <2>2. PICK r : OwnRow(w, a, r)
      BY <2>1
    <2>3. /\ Serves(attempts, attempts', TokenOf(w))
          /\ BoundTo(attempts', TokenOf(w)) = {a} /\ FileTells(file[w], attempts')
          /\ \A b \in BoundTo(attempts', TokenOf(w)) :
               cursor[TokenOf(w)] - attempts'[b].checkpoints \in {0, 1}
      BY <1>2, <2>2, OwnRowTells
    <2>4. CycleTells(p, file[w], attempts', cursor)
      BY <1>3, <1>5, <2>1, <2>3
    <2>5. cursor' = cursor
      BY <1>1
    <2>6. OwnStep(w, p, file[w])
      BY <1>1, <1>2, <1>5, <2>3, <2>4, <2>5 DEF OwnStep, Tells
    <2>7. CursorStep(w)
      BY <2>5 DEF CursorStep, RunnerInvariant, RunnerTypes
    <2>. QED
      BY <1>5, <2>1, <2>3, <2>6, <2>7, WorkerStep
  <1>6. faults \in 0 .. MaxFaults /\ proc[w] \in Process /\ proc = [proc EXCEPT ![w] = proc[w]]
    BY SameFaults DEF RunnerInvariant, RunnerTypes
  <1>7. ASSUME NEW wait \in 0 .. MaxWait, RenewLease(a, wait), UNCHANGED <<proc, faults>>
        PROVE  RunnerInvariant'
    BY <1>5, <1>6, <1>7
  <1>8. ASSUME NEW wait \in 0 .. MaxWait, RenewLease(a, wait), Heart(w, "failed"),
               faults' \in 0 .. MaxFaults
        PROVE  RunnerInvariant'
    BY <1>5, <1>8, HeartStep
  <1>9. ASSUME Heart(w, "failed") \/ Heart(w, "off"), faults' \in 0 .. MaxFaults,
               UNCHANGED controlVars
        PROVE  RunnerInvariant'
    BY <1>4, <1>9, HeartStep
  <1>. QED
    <2>1. UNCHANGED faults => faults' \in 0 .. MaxFaults
      BY <1>6
    <2>2. Fault("lost") => faults' \in 0 .. MaxFaults
      BY MoreFaults
    <2>. QED
      BY <1>7, <1>8, <1>9, <2>1, <2>2 DEF Heartbeat, a

-----------------------------------------------------------------------------
(* The clock and the operator.                                             *)

\* No worker takes the step.
LEMMA OutsideStep ==
  ASSUME RunnerInvariant, ControlInvariant', UNCHANGED runnerVars,
         Serves(attempts, attempts', NoToken), DOMAIN attempts' = DOMAIN attempts
  PROVE  RunnerInvariant'
  <1>1. proc' = proc /\ file' = file /\ cursor' = cursor /\ faults' = faults
    BY DEF runnerVars
  <1>2. RunnerTypes'
    BY <1>1 DEF RunnerInvariant, RunnerTypes
  <1>3. \A a \in DOMAIN attempts : attempts[a].token \in Tokens
    BY Tables DEF RunnerInvariant, Attempt
  <1>4. \A a \in DOMAIN attempts' : attempts'[a].token \in Tokens
    BY <1>3 DEF Serves
  <1>5. BoundTo(attempts', NoToken) = {}
    BY <1>4, RunnerAssumption DEF BoundTo
  <1>6. ASSUME NEW v \in Workers PROVE Tells(proc[v], file[v], attempts', cursor)
    <2>1. Tells(proc[v], file[v], attempts, cursor)
      BY DEF RunnerInvariant
    <2>. QED
      BY <2>1, OtherTells
  <1>7. ChainsAhead(attempts', cursor)
    <2>1. ChainsAhead(attempts, cursor)
      BY DEF RunnerInvariant
    <2>. QED
      BY <2>1, <1>4, <1>5, ChainsKept
  <1>8. LeasesHeld(attempts', file)
    <2>1. LeasesHeld(attempts, file)
      BY DEF RunnerInvariant
    <2>. QED
      BY <2>1, <1>5, LeasesKept
  <1>. QED
    BY <1>1, <1>2, <1>6, <1>7, <1>8 DEF RunnerInvariant

LEMMA TickedRows ==
  ASSUME RunnerInvariant, Tick
  PROVE  /\ Serves(attempts, attempts', NoToken) /\ DOMAIN attempts' = DOMAIN attempts
         /\ \A a \in DOMAIN attempts : attempts'[a].error = attempts[a].error
  <1>1. attempts' = [a \in DOMAIN attempts |->
          IF attempts[a].lease = "ACTIVE" /\ attempts[a].left > -MaxWait - 1
          THEN [attempts[a] EXCEPT !.left = @ - 1] ELSE attempts[a]]
    BY DEF Tick
  <1>2. ASSUME NEW a \in DOMAIN attempts
        PROVE  /\ attempts'[a].token = attempts[a].token
               /\ attempts'[a].status = attempts[a].status
               /\ attempts'[a].checkpoints = attempts[a].checkpoints
               /\ attempts'[a].error = attempts[a].error
               /\ attempts'[a].left > 0 => attempts[a].left > 0
    <2>1. attempts[a] \in Attempt
      BY Tables DEF RunnerInvariant
    <2>. QED
      BY <1>1, <2>1 DEF Attempt
  <1>. QED
    BY <1>1, <1>2 DEF Serves

LEMMA ClockKeeps ==
  ASSUME RunnerInvariant, Clock
  PROVE  RunnerInvariant'
  <1>1. Tick /\ UNCHANGED runnerVars
    BY DEF Clock
  <1>2. ControlInvariant'
    BY <1>1, TickKeeps DEF StepKeeps, RunnerInvariant
  <1>. QED
    BY <1>1, <1>2, TickedRows, OutsideStep

LEMMA OperatorSteps ==
  ASSUME Operator
  PROVE  Next /\ UNCHANGED runnerVars /\ attempts' = attempts
BY DEF Operator, Next, RegisterCandidate, StartEpoch, FinishEpoch

LEMMA OperatorKeeps ==
  ASSUME RunnerInvariant, Operator
  PROVE  RunnerInvariant'
  <1>1. ControlInvariant'
    BY OperatorSteps, StepAgrees DEF StepKeeps, RunnerInvariant
  <1>. QED
    BY <1>1, OperatorSteps, ServesNothing, OutsideStep

-----------------------------------------------------------------------------
(* The invariant holds of every run.                                       *)

LEMMA RunnerInitHolds == RunnerInit => RunnerInvariant
  <1>. SUFFICES ASSUME RunnerInit PROVE RunnerInvariant
    OBVIOUS
  <1>1. ControlInvariant
    BY InitAgrees DEF RunnerInit
  <1>2. /\ proc = [w \in Workers |-> Down("none")] /\ file = [w \in Workers |-> NoFile]
        /\ cursor = [token \in Tokens |-> 0] /\ faults = 0 /\ attempts = <<>>
    BY DEF RunnerInit, Init
  <1>3. RunnerTypes
    BY <1>2, DownTells, RunnerAssumption, ControlAssumption
    DEF RunnerTypes, NoFile, TokenFile
  <1>4. ASSUME NEW w \in Workers PROVE Tells(proc[w], file[w], attempts, cursor)
    BY <1>2, DownTells DEF Tells, FileTells, NoFile
  <1>5. TokensApart(file)
    BY <1>2 DEF TokensApart, NoFile
  <1>6. ChainsAhead(attempts, cursor) /\ LeasesHeld(attempts, file)
    BY <1>2 DEF ChainsAhead, LeasesHeld
  <1>. QED
    BY <1>1, <1>3, <1>4, <1>5, <1>6 DEF RunnerInvariant

LEMMA StutterKeeps ==
  ASSUME RunnerInvariant, UNCHANGED vars
  PROVE  RunnerInvariant'
  <1>1. UNCHANGED controlVars /\ UNCHANGED runnerVars
    BY DEF vars
  <1>2. ControlInvariant' /\ attempts' = attempts
    BY <1>1, StepAgrees DEF StepKeeps, RunnerInvariant, controlVars
  <1>. QED
    BY <1>1, <1>2, ServesNothing, OutsideStep

LEMMA RunnerStepKeeps ==
  ASSUME RunnerInvariant, [RunnerNext]_vars
  PROVE  RunnerInvariant'
  <1>1. ASSUME NEW w \in Workers, Cycle(w) PROVE RunnerInvariant'
    BY <1>1, StartKeeps, OpenTokenKeeps, WriteTokenKeeps, ClaimReplayKeeps, ClaimFreshKeeps,
       ClaimIdleKeeps, RotateTokenKeeps, AcceptClaimKeeps, LoadKeeps, ProcessRangeKeeps,
       PublishCheckpointKeeps, PublishResultKeeps, PublishFailureKeeps, ConsumeTokenKeeps
    DEF Cycle
  <1>2. ASSUME NEW w \in Workers, Heartbeat(w) \/ WorkError(w) \/ Stop(w) PROVE RunnerInvariant'
    BY <1>2, HeartbeatKeeps, WorkErrorKeeps, StopKeeps
  <1>. QED
    BY <1>1, <1>2, ClockKeeps, OperatorKeeps, StutterKeeps DEF RunnerNext

\* The worker files, the local chains and the rows always agree.
THEOREM RunnerAgrees == RunnerSpec => []RunnerInvariant
  <1>1. RunnerInvariant /\ [RunnerNext]_vars => RunnerInvariant'
    BY RunnerStepKeeps
  <1>. QED
    BY <1>1, RunnerInitHolds, PTL DEF RunnerSpec

-----------------------------------------------------------------------------
(* Every step is one of the control plane's, or none.                      *)

LEMMA CycleIsControl ==
  ASSUME RunnerInvariant, NEW w \in Workers, Cycle(w)
  PROVE  [Next]_controlVars
  <1>1. ASSUME ClaimReplay(w) PROVE [Next]_controlVars
    <2>1. \A a \in Bound(w) : a \in DOMAIN attempts
      BY OneBound
    <2>. QED
      BY <1>1, <2>1 DEF ClaimReplay, Next
  <1>2. proc[w].pc = "claim" => TokenOf(w) \in Tokens
    BY RunnerFacts DEF CycleTells, FileTells, TokenOf
  <1>3. ASSUME ClaimFresh(w) PROVE [Next]_controlVars
    BY <1>2, <1>3 DEF ClaimFresh, At, Next
  <1>4. ASSUME ClaimIdle(w) PROVE [Next]_controlVars
    BY <1>2, <1>4 DEF ClaimIdle, At, Next
  <1>5. proc[w].pc \in Working \cup {"fail"} => Claimed(w) \in DOMAIN attempts
    BY AtWork, OneBound
  <1>6. ASSUME PublishCheckpoint(w) PROVE [Next]_controlVars
    BY <1>5, <1>6 DEF PublishCheckpoint, At, Working, Next
  <1>7. ASSUME PublishResult(w) PROVE [Next]_controlVars
    BY <1>5, <1>7 DEF PublishResult, At, Working, Next
  <1>8. ASSUME PublishFailure(w) PROVE [Next]_controlVars
    <2>1. Claimed(w) \in DOMAIN attempts /\ TRUE \in BOOLEAN
      BY <1>5, <1>8 DEF PublishFailure, At
    <2>. QED
      BY <1>8, <2>1 DEF PublishFailure, Next
  <1>9. ASSUME \/ Start(w) \/ OpenToken(w) \/ WriteToken(w) \/ RotateToken(w)
               \/ AcceptClaim(w) \/ Load(w) \/ ProcessRange(w) \/ ConsumeToken(w)
        PROVE  UNCHANGED controlVars
    BY <1>9 DEF Start, OpenToken, WriteToken, RotateToken, AcceptClaim, Load, ProcessRange,
                ConsumeToken
  <1>. QED
    BY <1>1, <1>3, <1>4, <1>6, <1>7, <1>8, <1>9 DEF Cycle

LEMMA StepIsControl ==
  ASSUME RunnerInvariant, [RunnerNext]_vars
  PROVE  [Next]_controlVars
  <1>1. ASSUME NEW w \in Workers, Heartbeat(w) PROVE [Next]_controlVars
    <2>1. Claimed(w) \in DOMAIN attempts
      BY <1>1, AtWork, OneBound DEF Heartbeat, Beats
    <2>. QED
      BY <1>1, <2>1 DEF Heartbeat, Next
  <1>2. ASSUME NEW w \in Workers, WorkError(w) \/ Stop(w) PROVE [Next]_controlVars
    BY <1>2 DEF WorkError, Stop
  <1>3. ASSUME Clock PROVE [Next]_controlVars
    BY <1>3 DEF Clock, Next
  <1>4. ASSUME Operator PROVE [Next]_controlVars
    BY <1>4, OperatorSteps
  <1>5. ASSUME UNCHANGED vars PROVE [Next]_controlVars
    BY <1>5 DEF vars
  <1>. QED
    BY <1>1, <1>2, <1>3, <1>4, <1>5, CycleIsControl DEF RunnerNext

\* Workers as the code runs them, killed and restarted at any point, do nothing
\* to the database that the control plane's specification does not describe.
THEOREM WorkersObeyControl == RunnerSpec => Spec
  <1>1. RunnerInit => Init
    BY DEF RunnerInit
  <1>2. RunnerInvariant /\ [RunnerNext]_vars => [Next]_controlVars
    BY StepIsControl
  <1>. QED
    BY <1>1, <1>2, RunnerAgrees, PTL DEF RunnerSpec, Spec

-----------------------------------------------------------------------------
(* The theorems.                                                           *)

\* Type correctness of every run of the workers.
THEOREM RunnerTypeCorrect == RunnerSpec => []RunnerTypeOK
  <1>1. RunnerInvariant => RunnerTypeOK
    BY AgreesTypes DEF RunnerInvariant, RunnerTypes, RunnerTypeOK
  <1>. QED
    BY <1>1, RunnerAgrees, PTL

LEMMA AgreesFiles == RunnerInvariant => FilesNameOwnAttempt
  <1>. SUFFICES ASSUME RunnerInvariant, NEW w \in Workers
                PROVE  /\ file[w].claim # 0 => Bound(w) = {file[w].claim}
                       /\ file[w].pending => file[w].claim # 0
                       /\ \A v \in Workers \ {w} : TokenOf(w) = TokenOf(v) => TokenOf(w) = NoToken
    BY DEF FilesNameOwnAttempt
  <1>1. FileTells(file[w], attempts) /\ Bound(w) = BoundTo(attempts, TokenOf(w))
    BY RunnerFacts
  <1>2. TokensApart(file)
    BY DEF RunnerInvariant
  <1>. QED
    BY <1>1, <1>2 DEF FileTells, TokensApart, TokenOf

\* No two token files hold one token, a saved claim names the attempt the database
\* bound to that token, the local chain is never behind the stored one and at most
\* one checkpoint ahead, and only expired attempts are left by their file.
THEOREM FilesHold == RunnerSpec => []FilesAgree
  <1>1. RunnerInvariant => LocalChainAhead
    BY DEF RunnerInvariant, ChainsAhead, LocalChainAhead
  <1>2. RunnerInvariant => AbandonedIsExpired
    BY DEF RunnerInvariant, LeasesHeld, LeaseHeld, AbandonedIsExpired, TokenOf
  <1>3. RunnerInvariant => FilesAgree
    BY <1>1, <1>2, AgreesFiles DEF FilesAgree
  <1>. QED
    BY <1>3, RunnerAgrees, PTL

-----------------------------------------------------------------------------
(* What is owed to the database outlives kills.                            *)

LEMMA StepKeepsFile ==
  ASSUME RunnerInvariant, RunnerNext, NEW w \in Workers,
         file[w].state = "written", file'[w].state = "none"
  PROVE  ConsumeToken(w)
  <1>0. file \in [Workers -> TokenFile]
    BY DEF RunnerInvariant, RunnerTypes
  <1>1. ASSUME NEW v \in Workers, Cycle(v) PROVE ConsumeToken(w)
    <2>1. CASE v = w
      <3>1. \/ OpenToken(w) \/ WriteToken(w) \/ RotateToken(w) \/ AcceptClaim(w)
            \/ ConsumeToken(w)
        BY <1>1, <2>1
        DEF Cycle, Start, ClaimReplay, ClaimFresh, ClaimIdle, Load, ProcessRange,
            PublishCheckpoint, PublishResult, PublishFailure
      <3>2. ~OpenToken(w)
        BY <1>0 DEF OpenToken, EmptyFile
      <3>3. ~WriteToken(w)
        BY <1>0 DEF WriteToken, NewFile
      <3>4. ~RotateToken(w)
        BY <1>0 DEF RotateToken, Rotated, NewFile
      <3>5. ~AcceptClaim(w)
        BY <1>0 DEF AcceptClaim, TokenFile
      <3>. QED
        BY <3>1, <3>2, <3>3, <3>4, <3>5
    <2>2. CASE v # w
      <3>1. file'[w] = file[w]
        BY <1>0, <1>1, <2>2
        DEF Cycle, Start, OpenToken, WriteToken, ClaimReplay, ClaimFresh, ClaimIdle,
            RotateToken, AcceptClaim, Load, ProcessRange, PublishCheckpoint, PublishResult,
            PublishFailure, ConsumeToken
      <3>. QED
        BY <3>1
    <2>. QED
      BY <2>1, <2>2
  <1>2. ASSUME NEW v \in Workers, Heartbeat(v) \/ WorkError(v) \/ Stop(v)
        PROVE  file'[w].state = file[w].state
    BY <1>0, <1>2 DEF Heartbeat, WorkError, Stop, SavedFailure, TokenFile
  <1>3. ASSUME Clock \/ Operator PROVE file' = file
    BY <1>3 DEF Clock, Operator, runnerVars
  <1>. QED
    BY <1>1, <1>2, <1>3 DEF RunnerNext

\* Which step tells the database of a failure of the work.
LEMMA StepFails ==
  ASSUME RunnerInvariant, RunnerNext, NEW a \in DOMAIN attempts,
         attempts[a].error # "work", attempts'[a].error = "work"
  PROVE  \E w \in Workers : PublishFailure(w) /\ Claimed(w) = a
  <1>0. \A wait \in 0 .. MaxWait : wait \in Nat
    BY ControlAssumption
  <1>1. ASSUME NEW w \in Workers, NEW b \in Bound(w), NEW wait \in 0 .. MaxWait,
               RenewLease(b, wait)
        PROVE  FALSE
    BY <1>1, RenewedRow
  <1>2. ASSUME NEW w \in Workers, NEW b \in Bound(w), NEW wait \in 0 .. MaxWait,
               Checkpoint(b, wait), cursor[TokenOf(w)] = attempts[b].checkpoints + 1
        PROVE  FALSE
    BY <1>2, CheckpointedRow
  <1>3. ASSUME NEW w \in Workers, NEW b \in Bound(w), NEW wait \in 0 .. MaxWait,
               Terminalize(b, wait)
        PROVE  FALSE
    <2>1. attempts' = [attempts EXCEPT ![b] = EndedAttempt(@, "SUCCEEDED", "none", FALSE)]
      BY <1>3 DEF Terminalize
    <2>2. "none" \in Errors /\ FALSE \in BOOLEAN
      BY DEF Errors
    <2>3. attempts'[b].error = "none" /\ \A c \in DOMAIN attempts : c # b => attempts'[c] = attempts[c]
      BY <2>1, <2>2, EndedOwnRow
    <2>. QED
      BY <2>3
  <1>4. ASSUME NEW w \in Workers, NEW b \in Bound(w), NEW wait \in 0 .. MaxWait,
               Fail(b, wait, TRUE)
        PROVE  b = a
    <2>1. attempts' = [attempts EXCEPT ![b] = EndedAttempt(@, "FAILED", "work", TRUE)]
      BY <1>4 DEF Fail
    <2>2. "work" \in Errors /\ TRUE \in BOOLEAN
      BY DEF Errors
    <2>3. \A c \in DOMAIN attempts : c # b => attempts'[c] = attempts[c]
      BY <2>1, <2>2, EndedOwnRow
    <2>. QED
      BY <2>3
  <1>5. ~UNCHANGED controlVars
    BY DEF controlVars
  <1>6. ASSUME NEW w \in Workers, Cycle(w) PROVE PublishFailure(w) /\ Claimed(w) = a
    <2>1. proc[w].pc \in Working \cup {"fail"} => Claimed(w) \in Bound(w)
      BY AtWork
    <2>2. proc[w].pc = "claim" => TokenOf(w) \in Tokens
      BY RunnerFacts DEF CycleTells, FileTells, TokenOf
    <2>3. ~ClaimReplay(w)
      BY <1>1, <1>5 DEF ClaimReplay
    <2>4. ~ClaimFresh(w)
      BY <1>0, <2>2, ClaimedRows DEF ClaimFresh, At
    <2>5. ~ClaimIdle(w)
      BY <1>0, <1>5, <2>2, OnlyRecovered DEF ClaimIdle, At
    <2>6. ~PublishCheckpoint(w)
      BY <1>2, <1>5, <2>1 DEF PublishCheckpoint, At, Working, Local
    <2>7. ~PublishResult(w)
      BY <1>3, <1>5, <2>1 DEF PublishResult, At, Working
    <2>8. PublishFailure(w) => Claimed(w) = a
      BY <1>4, <1>5, <2>1 DEF PublishFailure, At
    <2>9. ~(Start(w) \/ OpenToken(w) \/ WriteToken(w) \/ RotateToken(w) \/ AcceptClaim(w)
            \/ Load(w) \/ ProcessRange(w) \/ ConsumeToken(w))
      BY <1>5 DEF Start, OpenToken, WriteToken, RotateToken, AcceptClaim, Load, ProcessRange,
                  ConsumeToken
    <2>. QED
      BY <1>6, <2>3, <2>4, <2>5, <2>6, <2>7, <2>8, <2>9 DEF Cycle
  <1>7. ASSUME NEW w \in Workers, Heartbeat(w) PROVE FALSE
    <2>1. Claimed(w) \in Bound(w)
      BY <1>7, AtWork DEF Heartbeat, Beats
    <2>. QED
      BY <1>1, <1>5, <1>7, <2>1 DEF Heartbeat
  <1>8. ASSUME NEW w \in Workers, WorkError(w) \/ Stop(w) PROVE FALSE
    BY <1>5, <1>8 DEF WorkError, Stop
  <1>9. ~Clock
    BY TickedRows DEF Clock
  <1>10. ~Operator
    BY OperatorSteps
  <1>. QED
    BY <1>6, <1>7, <1>8, <1>9, <1>10 DEF RunnerNext

LEMMA StepOutlives ==
  ASSUME RunnerInvariant, RunnerNext
  PROVE  KeptUntilClosed /\ FailureSavedFirst
  <1>1. ASSUME NEW w \in Workers, file[w].state = "written", file'[w].state = "none",
               NEW a \in Bound(w)
        PROVE  attempts[a].status # "RUNNING"
    <2>1. proc[w].pc = "consume"
      BY <1>1, StepKeepsFile DEF ConsumeToken, At
    <2>. QED
      BY <1>1, <2>1, RunnerFacts DEF CycleTells, TokenOf
  <1>2. ASSUME NEW a \in DOMAIN attempts, attempts[a].error # "work",
               attempts'[a].error = "work"
        PROVE  \E w \in Workers : file[w].claim = a /\ file[w].pending
    <2>1. PICK w \in Workers : PublishFailure(w) /\ Claimed(w) = a
      BY <1>2, StepFails
    <2>2. proc[w].pc = "fail"
      BY <2>1 DEF PublishFailure, At
    <2>3. file[w].pending
      BY <2>2, RunnerFacts DEF CycleTells
    <2>. QED
      BY <2>1, <2>3 DEF Claimed
  <1>. QED
    BY <1>1, <1>2 DEF KeptUntilClosed, FailureSavedFirst

\* A token file goes only when its attempt is closed, and a failure of the work
\* reaches the database only from a file that already says so, whatever is killed
\* and whatever is lost.
THEOREM FilesOutlive == RunnerSpec => FilesOutliveKills
  <1>1. RunnerInvariant /\ [RunnerNext]_vars => [KeptUntilClosed /\ FailureSavedFirst]_vars
    BY StepOutlives
  <1>. QED
    BY <1>1, RunnerAgrees, PTL DEF RunnerSpec, FilesOutliveKills

\* Under these workers the rows agree, no call is aborted by a trigger, and no live
\* lease is taken from its holder.
THEOREM WorkersKeepRows ==
  RunnerSpec => []TablesAgree /\ TriggersNeverAbort /\ LiveLeaseNotTaken
BY WorkersObeyControl, RowsHold, TriggersHold, LiveLeaseHeld, PTL

\* The workers, their files and their kills implement the contract of the control
\* plane: no crash of a cycle loses or reclassifies a result.
THEOREM WorkersKeepContract == RunnerSpec => KeepsContract
BY WorkersObeyControl, ControlRefines, PTL
=============================================================================
