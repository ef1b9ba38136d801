------------------------- MODULE SharedReplaySafety -------------------------
(***************************************************************************)
(* The shared replay accounts for every signal, scenario and cell exactly  *)
(* once, its occupancy is exactly that of its reservations and positions,  *)
(* its decisions see exactly the past, and its entries fill exactly where  *)
(* the routing rules say: for any grid, scenarios, signal lists and quotes.*)
(*                                                                         *)
(* The argument.  A cell of the replay belongs to an identity, <<signal,   *)
(* scenario, cell>>.  Every step of a flush does one of two things to      *)
(* identities: it opens those of the next signal (ActivateSignal), or it   *)
(* settles live ones, each with one result (the advance of groups and of   *)
(* pending entries, and the refusals of finish).  Core says what a replay  *)
(* that has seen n events owes them; each of the two kinds of step keeps   *)
(* it, whatever the quotes were.  Traced follows each entry along the      *)
(* events of its contract: what a verdict was given for stays true of the  *)
(* stream, however it grows, since it names only events already met.       *)
(***************************************************************************)
EXTENDS SharedReplay, WellFoundedInduction, TLAPS

-----------------------------------------------------------------------------
(* First and last positions.                                               *)

\* A set of naturals has a least element.
LEMMA Least ==
  ASSUME NEW S, S \subseteq Nat, S # {}
  PROVE  \E m \in S : \A k \in S : m <= k
  <1>1. PICK m \in S : \A k \in S : <<k, m>> \notin OpToRel(<, Nat)
    BY WFMin, NatLessThanWellFounded, Zenon
  <1>2. \A k \in S : ~(k < m)
    BY <1>1 DEF OpToRel
  <1>. QED
    BY <1>2

\* A bounded one has a greatest.
LEMMA Greatest ==
  ASSUME NEW n \in Nat, NEW S, S \subseteq 0..n, S # {}
  PROVE  \E m \in S : \A k \in S : m >= k
  <1> DEFINE B == {u \in 0..n : \A k \in S : k <= u}
  <1>1. n \in B /\ B \subseteq Nat
    OBVIOUS
  <1>2. PICK u \in B : \A v \in B : u <= v
    <2> HIDE DEF B
    <2>. QED
      BY <1>1, Least
  <1>3. u \in S
    <2>. SUFFICES ASSUME u \notin S PROVE FALSE
      OBVIOUS
    <2>1. u \in 0..n /\ \A k \in S : k \in 0..n /\ k < u
      BY <1>2
    <2>2. u >= 1
      <3>1. PICK k \in S : TRUE
        OBVIOUS
      <3>. QED
        BY <2>1, <3>1
    <2>3. u - 1 \in 0..n /\ \A k \in S : k <= u - 1
      BY <2>1, <2>2
    <2>4. u - 1 \in B
      BY <2>3
    <2>. QED
      BY <2>1, <2>4, <1>2
  <1>. QED
    BY <1>2, <1>3

LEMMA MinIs ==
  ASSUME NEW S, S \subseteq Nat, S # {}
  PROVE  Min(S) \in S /\ \A k \in S : Min(S) <= k
BY Least, Zenon DEF Min

LEMMA MaxIs ==
  ASSUME NEW n \in Nat, NEW S, S \subseteq 0..n, S # {}
  PROVE  Max(S) \in S /\ \A k \in S : Max(S) >= k
BY Greatest, Zenon DEF Max

LEMMA FirstOfIs ==
  ASSUME NEW S, S \subseteq Nat \ {0}
  PROVE  /\ FirstOf(S) = 0 <=> S = {}
         /\ S # {} => FirstOf(S) \in S /\ \A k \in S : FirstOf(S) <= k
  <1>1. CASE S = {}
    BY <1>1 DEF FirstOf
  <1>2. CASE S # {}
    <2>1. Min(S) \in S /\ \A k \in S : Min(S) <= k
      BY <1>2, MinIs
    <2>. QED
      BY <1>2, <2>1 DEF FirstOf
  <1>. QED
    BY <1>1, <1>2

LEMMA LastOfIs ==
  ASSUME NEW n \in Nat, NEW S, S \subseteq 1..n
  PROVE  /\ LastOf(S) \in 0..n
         /\ LastOf(S) = 0 <=> S = {}
         /\ S # {} => LastOf(S) \in S /\ \A k \in S : LastOf(S) >= k
  <1>1. CASE S = {}
    BY <1>1 DEF LastOf
  <1>2. CASE S # {}
    <2>1. Max(S) \in S /\ \A k \in S : Max(S) >= k
      BY <1>2, MaxIs, S \subseteq 0..n
    <2>2. LastOf(S) = Max(S)
      BY <1>2 DEF LastOf
    <2>3. Max(S) \in 1..n
      BY <2>1
    <2>. QED
      BY <1>2, <2>1, <2>2, <2>3
  <1>. QED
    BY <1>1, <1>2

-----------------------------------------------------------------------------
(* Identities and what a replay owes them.                                 *)

Identities == Signals \X Scenarios \X Cells
SlotOf(id) == Slot(id[1], id[2], id[3])
Ids(results) == {Identity(x) : x \in results}

\* The identities that hold a cell: of a pending entry or of an open position.
Holds(r, id) ==
  \/ \E p \in r.pending : p.signal = id[1] /\ p.scenario = id[2] /\ id[3] \in p.cells
  \/ \E g \in r.groups : g.signal = id[1] /\ g.scenario = id[2] /\ id[3] \in g.active
Live(r) == {id \in Identities : Holds(r, id)}

\* A replay has the fields of the object.
IsReplay(r) ==
  r = [cursor |-> r.cursor, pending |-> r.pending, groups |-> r.groups,
       records |-> r.records, occupied |-> r.occupied, latest |-> r.latest,
       terminated |-> r.terminated]

PendingOf(p, n) ==
  /\ p = [signal |-> p.signal, scenario |-> p.scenario, cells |-> p.cells,
          decision |-> p.decision, gate |-> p.gate]
  /\ p.signal \in Signals /\ p.scenario \in Scenarios
  /\ p.cells \in SUBSET Cells /\ p.cells # {}
  /\ p.decision \in 1..n /\ p.gate \in 1..n

GroupOf(g, n) ==
  /\ g = [signal |-> g.signal, scenario |-> g.scenario, active |-> g.active,
          decision |-> g.decision, entry |-> g.entry, price |-> g.price,
          triggers |-> g.triggers, censored |-> g.censored, censor |-> g.censor]
  /\ g.signal \in Signals /\ g.scenario \in Scenarios
  /\ g.active \in SUBSET Cells /\ g.active # {}
  /\ g.decision \in 1..n /\ g.entry \in 1..n
  /\ g.triggers \in [Grid -> 0..n] /\ g.censored \in SUBSET Cells

ResultOf(x, n) ==
  /\ Identity(x) \in Identities
  /\ x.status \in {"SKIPPED_OCCUPIED", "ENTRY_NOT_FILLED", "ENTRY_FILLED"}
  /\ x.decision \in 0..n /\ x.failure \in 0..n
  /\ x.status = "ENTRY_FILLED" => x.entry \in 1..n /\ x.fill \in 1..n
  /\ x.status # "ENTRY_FILLED" => x.entry = 0

\* The replay has seen the first n events at most.
Shaped(r, n) ==
  /\ IsReplay(r)
  /\ r.cursor \in 0..Len(seeds)
  /\ \A p \in r.pending : PendingOf(p, n)
  /\ \A g \in r.groups : GroupOf(g, n)
  /\ \A x \in r.records : ResultOf(x, n)
  /\ r.terminated \subseteq Contracts

\* A signal claims the cells of a scenario once.
Sole(r) == \A d, e \in r.pending \cup r.groups :
  d.signal = e.signal /\ d.scenario = e.scenario => d = e

\* The occupied cells are those of the live identities.
Exact(r) ==
  /\ r.occupied \in [Slots -> 0..Len(seeds)]
  /\ \A id \in Live(r) : r.occupied[SlotOf(id)] = id[1]
  /\ \A slot \in Slots : r.occupied[slot] # 0 => \E id \in Live(r) : SlotOf(id) = slot

\* Every identity of a signal that was activated is live, or has its one result.
Accounts(r) ==
  /\ \A x, y \in r.records : Identity(x) = Identity(y) => x = y
  /\ Ids(r.records) \cap Live(r) = {}
  /\ (Ids(r.records) \cup Live(r)) \cap drained = {}
  /\ Ids(r.records) \cup Live(r) \cup drained = (1..r.cursor) \X Scenarios \X Cells

\* The last quote a decision of a signal may see.
SeenBy(s) == LastOf({i \in DOMAIN stream : /\ stream[i].contract = seeds[s].contract
                                           /\ Time(i) <= seeds[s].ts})
Sights(r) == \A x \in r.records \cup r.pending \cup r.groups : x.decision = SeenBy(x.signal)

Flat(r) == \A x \in r.pending \cup r.groups : seeds[x.signal].contract \notin r.terminated

\* The holders of a cell follow one another.
Before(id, later) == id[1] < later[1] /\ SlotOf(id) = SlotOf(later)
Serial(r) ==
  /\ \A x \in r.records : x.status = "ENTRY_FILLED" =>
       /\ \A y \in r.records : y.entry # 0 /\ Before(Identity(x), Identity(y)) =>
            Time(x.fill) <= seeds[y.signal].ts
       /\ \A id \in Live(r) : Before(Identity(x), id) => Time(x.fill) <= seeds[id[1]].ts
  /\ \A id \in Live(r) : \A y \in r.records : Before(id, Identity(y)) => y.entry = 0

\* A skip names a holder that is live, or outlasted the decision of the skip.
Owner(x) == <<x.owner, x.scenario, x.cell>>
Skips(r) ==
  \A x \in r.records : x.status = "SKIPPED_OCCUPIED" =>
    /\ Owner(x) \in Identities /\ Before(Owner(x), Identity(x))
    /\ \/ Owner(x) \in Live(r)
       \/ \E y \in r.records : Identity(y) = Owner(x) /\ HeldBeyond(y, seeds[x.signal].ts)

Core(r, n) ==
  Shaped(r, n) /\ Sole(r) /\ Exact(r) /\ Accounts(r) /\ Sights(r) /\ Flat(r) /\ Serial(r) /\ Skips(r)

\* What a replay that has seen the first n events knows of them.
Observed(r, n) ==
  /\ r.latest = [c \in Contracts |-> LastOf({i \in 1..n : stream[i].contract = c})]
  /\ \A c \in Contracts :
       c \in r.terminated <=> \E i \in 1..n : stream[i].contract = c /\ stream[i].terminal

\* The stream is ordered, and its buffered events are of one, later, timestamp.
Quote == [ts : Nat, contract : Contracts, bid : Int, ask : Int,
          valid : BOOLEAN, terminal : BOOLEAN, session : Nat]
Buffered ==
  /\ stream \in Seq(Quote)
  /\ \A i, j \in DOMAIN stream : i <= j => Time(i) <= Time(j)
  /\ flushed \in 0..Len(stream)
  /\ \A i \in flushed + 1..Len(stream) : Time(i) = Time(Len(stream))
  /\ \A i \in 1..flushed, j \in flushed + 1..Len(stream) : Time(i) < Time(j)

\* A running replay has activated the signals up to the last flushed timestamp and no
\* others, and the next event comes later than a flushed one.
PacedAt(r, n) ==
  /\ \A s \in 1..r.cursor : n # 0 /\ seeds[s].ts <= Time(n)
  /\ \A s \in r.cursor + 1..Len(seeds) : \A i \in 1..n : Time(i) < seeds[s].ts
Paced ==
  /\ PacedAt(replay, flushed)
  /\ flushed = Len(stream) /\ flushed # 0 => boundary >= Time(flushed)

Ended ==
  /\ replay.cursor = Len(seeds) /\ replay.pending = {} /\ flushed = Len(stream)
  /\ status = "finished" => replay.groups = {}

\* The contract's events after the decision of x, up to the n-th, and with the decision.
Way(x, n) == {k \in x.decision + 1..n : stream[k].contract = seeds[x.signal].contract}
Gates(x, n) == {x.decision} \cup Way(x, n)
Due(x) == Eligibility(x.signal, x.scenario)

\* m is the event of the contract that follows k.
Follows(x, k, m) == m > k /\ ~\E l \in Way(x, m) : k < l /\ l < m

\* p waits for its eligibility after n events: its gate is the last of them, each was valid
\* and none came too late.
EnRoute(p, n) ==
  /\ p.decision \in 1..n /\ p.gate \in Gates(p, n)
  /\ \A k \in Way(p, n) : Time(k) < Due(p)
  /\ \A k \in Gates(p, n) : k <= p.gate /\ Valid(k) /\ ~stream[k].terminal
  /\ \A k \in Gates(p, n) \ {p.gate} : \E m \in Way(p, n) :
       Follows(p, k, m) /\ Time(m) - Time(k) <= MaxQuoteAge

\* RouteIsClean, of an event of the contract, in terms of the events up to it.
CleanRoute(x, i) ==
  /\ Time(i) >= Due(x)
  /\ \A k \in Way(x, i - 1) : Time(k) < Due(x)
  /\ \A k \in Gates(x, i) : Valid(k) /\ ~stream[k].terminal
  /\ \A k \in Gates(x, i - 1) : \E m \in Way(x, i) :
       Follows(x, k, m) /\ Min({Time(m), Due(x)}) - Time(k) <= MaxQuoteAge
  /\ Loss(Side(x.signal), EntryPrice(x, i),
          Opposite(IF Time(i) = Due(x) THEN i ELSE Max(Gates(x, i - 1)), Side(x.signal))) <= 0

Followed(x, n) == x.decision \in 1..n /\ x.entry \in Way(x, n) /\ CleanRoute(x, x.entry)

\* An event that no clean route passes.
Breaks(x, f) ==
  \/ Time(f) >= Due(x) /\ ~CleanRoute(x, f)
  \/ /\ Time(f) < Due(x)
     /\ \/ ~Valid(f) \/ stream[f].terminal
        \/ \E k \in Gates(x, f - 1) : Follows(x, k, f) /\ Time(f) - Time(k) > MaxQuoteAge

\* x has met such an event, or the stream is over and never reached its eligibility.
Barred(x, n, over) ==
  /\ x.decision \in 1..n
  /\ \/ \E f \in Way(x, n) : Breaks(x, f) /\ \A k \in Way(x, f - 1) : Time(k) < Due(x)
     \/ over /\ \A k \in Way(x, n) : Time(k) < Due(x)

\* Every waiting entry is on its way, and every verdict is that of a route already met.
EnRoutes(r, n) == \A p \in r.pending : EnRoute(p, n)
Routed(r, n, over) ==
  /\ \A g \in r.groups : Followed(g, n)
  /\ \A x \in r.records :
       /\ x.status = "ENTRY_FILLED" => Followed(x, n)
       /\ x.status = "ENTRY_NOT_FILLED" /\ x.decision # 0 /\ x.failure # x.decision =>
            Barred(x, n, over)
Traced(r, n, over) == EnRoutes(r, n) /\ Routed(r, n, over)

ReplayInv ==
  /\ seeds \in SeedLists /\ dates \in Nat /\ boundary \in Int
  /\ status \in {"running", "finished", "raised"}
  /\ Buffered
  /\ Core(replay, flushed) /\ Observed(replay, flushed)
  /\ IF status = "running" THEN Paced /\ Traced(replay, flushed, FALSE)
     ELSE Ended /\ Traced(replay, flushed, TRUE)

-----------------------------------------------------------------------------
(* Slots and identities.                                                   *)

LEMMA SeedTypes ==
  ASSUME seeds \in SeedLists
  PROVE  /\ Len(seeds) \in Nat /\ Signals = 1..Len(seeds)
         /\ \A s \in Signals : /\ seeds[s].ts \in Nat /\ seeds[s].contract \in Contracts
                               /\ seeds[s].side \in {"LONG", "SHORT"}
         /\ \A s, t \in Signals : s <= t => seeds[s].ts <= seeds[t].ts
  <1> DEFINE Seed == [ts : Nat, side : {"LONG", "SHORT"}, contract : Contracts]
  <1>1. seeds \in Seq(Seed)
    BY SeedsAreSorted
  <1>2. \A s, t \in Signals : s <= t => seeds[s].ts <= seeds[t].ts
    BY SeedsAreSorted DEF Signals
  <1>3. Len(seeds) \in Nat /\ Signals = 1..Len(seeds) /\ \A s \in Signals : seeds[s] \in Seed
    <2> HIDE DEF Seed
    <2>. QED
      BY <1>1 DEF Signals
  <1>. QED
    BY <1>2, <1>3

LEMMA StreamTypes ==
  ASSUME stream \in Seq(Quote)
  PROVE  /\ Len(stream) \in Nat /\ DOMAIN stream = 1..Len(stream)
         /\ \A i \in 1..Len(stream) : Time(i) \in Nat /\ stream[i].contract \in Contracts
  <1>1. Len(stream) \in Nat /\ DOMAIN stream = 1..Len(stream)
        /\ \A i \in 1..Len(stream) : stream[i] \in Quote
    OBVIOUS
  <1>. QED
    BY <1>1 DEF Quote, Time

LEMMA SlotIs ==
  ASSUME seeds \in SeedLists, NEW id \in Identities
  PROVE  /\ SlotOf(id) \in Slots /\ SlotOf(id)[1] = id[2] /\ SlotOf(id)[4] = id[3]
         /\ id = <<id[1], id[2], id[3]>>
         /\ id[1] \in Signals /\ id[2] \in Scenarios /\ id[3] \in Cells
  <1>1. id[1] \in Signals /\ id[2] \in Scenarios /\ id[3] \in Cells /\ id = <<id[1], id[2], id[3]>>
    BY DEF Identities
  <1>2. Side(id[1]) \in {"LONG", "SHORT"} /\ seeds[id[1]].contract \in Contracts
    BY <1>1, SeedTypes DEF Side
  <1>. QED
    BY <1>1, <1>2 DEF SlotOf, Slot, Slots

\* A signal has one identity in a slot.
LEMMA SlotTells ==
  ASSUME seeds \in SeedLists, NEW id \in Identities, NEW other \in Identities,
         SlotOf(id) = SlotOf(other), id[1] = other[1]
  PROVE  id = other
BY SlotIs

LEMMA LiveIds == ASSUME NEW r PROVE Live(r) \subseteq Identities
BY DEF Live

LEMMA OccupyAt ==
  ASSUME NEW occupied, NEW slots, NEW owner, NEW slot \in Slots
  PROVE  Occupy(occupied, slots, owner)[slot] = IF slot \in slots THEN owner ELSE occupied[slot]
BY DEF Occupy

\* Two holders of one cell are one.
LEMMA OneHolder ==
  ASSUME seeds \in SeedLists, NEW r, Exact(r), NEW id \in Live(r), NEW other \in Live(r),
         SlotOf(id) = SlotOf(other)
  PROVE  id = other
  <1>1. id[1] = other[1]
    BY DEF Exact
  <1>. QED
    BY <1>1, SlotTells, LiveIds

-----------------------------------------------------------------------------
(* Settling live identities.                                               *)

\* r becomes q by giving live identities their results: each of the results is of one
\* live identity, which lives no more, and what is left of the claims is of r's.
Settles(r, q, results, n) ==
  /\ IsReplay(q)
  /\ q.cursor = r.cursor /\ q.latest = r.latest /\ q.terminated = r.terminated
  /\ q.records = r.records \cup results
  /\ q.occupied = Occupy(r.occupied, {SlotOf(id) : id \in Ids(results)}, 0)
  /\ Ids(results) \subseteq Live(r)
  /\ Live(q) = Live(r) \ Ids(results)
  /\ \A x, y \in results : Identity(x) = Identity(y) => x = y
  /\ \A x \in results : /\ ResultOf(x, n) /\ x.status # "SKIPPED_OCCUPIED"
                        /\ x.decision = SeenBy(x.signal)
                        /\ \A s \in x.signal + 1..r.cursor : HeldBeyond(x, seeds[s].ts)
  /\ (\A p \in q.pending : PendingOf(p, n)) /\ (\A g \in q.groups : GroupOf(g, n))
  /\ \A d \in q.pending \cup q.groups : \E e \in r.pending \cup r.groups :
       d.signal = e.signal /\ d.decision = e.decision
  /\ Sole(q)

LEMMA SettlesExact ==
  ASSUME seeds \in SeedLists, NEW r, NEW q, NEW results, NEW n, Exact(r), Settles(r, q, results, n)
  PROVE  Exact(q)
  <1> DEFINE freed == {SlotOf(id) : id \in Ids(results)}
  <1>1. Ids(results) \subseteq Live(r) /\ Live(q) = Live(r) \ Ids(results)
        /\ q.occupied = Occupy(r.occupied, freed, 0)
    BY DEF Settles
  <1>2. Live(r) \subseteq Identities
    BY LiveIds
  <1>3. q.occupied \in [Slots -> 0..Len(seeds)]
    BY <1>1, SeedTypes DEF Exact, Occupy
  <1>4. ASSUME NEW id \in Live(q) PROVE q.occupied[SlotOf(id)] = id[1]
    <2>1. id \in Live(r) /\ SlotOf(id) \in Slots
      BY <1>1, <1>2, SlotIs
    <2>2. SlotOf(id) \notin freed
      BY <1>1, <2>1, OneHolder
    <2>3. q.occupied[SlotOf(id)] = r.occupied[SlotOf(id)]
      BY <1>1, <2>1, <2>2, OccupyAt
    <2>. QED
      BY <2>1, <2>3 DEF Exact
  <1>5. ASSUME NEW slot \in Slots, q.occupied[slot] # 0
        PROVE  \E id \in Live(q) : SlotOf(id) = slot
    <2>1. slot \notin freed /\ q.occupied[slot] = r.occupied[slot]
      BY <1>1, <1>5, OccupyAt
    <2>2. PICK id \in Live(r) : SlotOf(id) = slot
      BY <1>5, <2>1 DEF Exact
    <2>3. id \notin Ids(results)
      BY <2>1, <2>2
    <2>. QED
      BY <1>1, <2>2, <2>3
  <1>. QED
    BY <1>3, <1>4, <1>5 DEF Exact

LEMMA SettlesAccounts ==
  ASSUME NEW r, NEW q, NEW results, NEW n, Accounts(r), Settles(r, q, results, n)
  PROVE  Accounts(q)
  <1>1. /\ Ids(results) \subseteq Live(r) /\ Live(q) = Live(r) \ Ids(results)
        /\ q.records = r.records \cup results /\ q.cursor = r.cursor
        /\ \A x, y \in results : Identity(x) = Identity(y) => x = y
    BY DEF Settles
  <1>2. Ids(q.records) = Ids(r.records) \cup Ids(results)
    BY <1>1 DEF Ids
  <1>3. \A x \in r.records : Identity(x) \notin Live(r)
    BY DEF Accounts, Ids
  <1>4. ASSUME NEW x \in q.records, NEW y \in q.records, Identity(x) = Identity(y)
        PROVE  x = y
    <2>1. \A z \in results : Identity(z) \in Live(r)
      BY <1>1 DEF Ids
    <2>2. CASE x \in r.records /\ y \in r.records
      BY <1>4, <2>2 DEF Accounts
    <2>3. CASE x \in results /\ y \in results
      BY <1>1, <1>4, <2>3
    <2>. QED
      BY <1>1, <1>3, <1>4, <2>1, <2>2, <2>3
  <1>. QED
    BY <1>1, <1>2, <1>4 DEF Accounts

LEMMA SettlesSerial ==
  ASSUME seeds \in SeedLists, NEW r, NEW q, NEW results, NEW n,
         Exact(r), Serial(r), Settles(r, q, results, n)
  PROVE  Serial(q)
  <1>1. /\ Live(q) \subseteq Live(r) /\ q.records = r.records \cup results
        /\ \A x \in results : Identity(x) \in Live(r)
    BY DEF Settles, Ids
  <1>2. \A x : Identity(x)[1] = x.signal
    BY DEF Identity
  <1>3. \A id, other \in Live(r) : ~Before(id, other)
    <2>. SUFFICES ASSUME NEW id \in Live(r), NEW other \in Live(r), Before(id, other) PROVE FALSE
      OBVIOUS
    <2>1. id = other /\ id[1] < other[1] /\ id[1] \in Nat
      BY OneHolder, SeedTypes, LiveIds, SlotIs DEF Before
    <2>. QED
      BY <2>1
  <1>4. ASSUME NEW x \in q.records, x.status = "ENTRY_FILLED", NEW y \in q.records,
               y.entry # 0, Before(Identity(x), Identity(y))
        PROVE  Time(x.fill) <= seeds[y.signal].ts
    <2>1. CASE x \in r.records /\ y \in r.records
      BY <1>4, <2>1 DEF Serial
    <2>2. CASE x \in r.records /\ y \in results
      BY <1>1, <1>2, <1>4, <2>2 DEF Serial
    <2>3. CASE x \in results /\ y \in r.records
      BY <1>1, <1>4, <2>3 DEF Serial
    <2>4. CASE x \in results /\ y \in results
      BY <1>1, <1>3, <1>4, <2>4
    <2>. QED
      BY <1>1, <2>1, <2>2, <2>3, <2>4
  <1>5. ASSUME NEW x \in q.records, x.status = "ENTRY_FILLED", NEW id \in Live(q),
               Before(Identity(x), id)
        PROVE  Time(x.fill) <= seeds[id[1]].ts
    <2>1. CASE x \in r.records
      BY <1>1, <1>5, <2>1 DEF Serial
    <2>2. CASE x \in results
      BY <1>1, <1>3, <1>5, <2>2
    <2>. QED
      BY <1>1, <2>1, <2>2
  <1>6. ASSUME NEW id \in Live(q), NEW y \in q.records, Before(id, Identity(y))
        PROVE  y.entry = 0
    <2>1. CASE y \in r.records
      BY <1>1, <1>6, <2>1 DEF Serial
    <2>2. CASE y \in results
      BY <1>1, <1>3, <1>6, <2>2
    <2>. QED
      BY <1>1, <2>1, <2>2
  <1>. QED
    BY <1>4, <1>5, <1>6 DEF Serial

LEMMA SettlesSkips ==
  ASSUME seeds \in SeedLists, NEW r, NEW q, NEW results, NEW n \in Nat,
         Shaped(r, n), Accounts(r), Skips(r), Settles(r, q, results, n)
  PROVE  Skips(q)
  <1>1. /\ Live(q) = Live(r) \ Ids(results) /\ q.records = r.records \cup results
        /\ \A x \in results : x.status # "SKIPPED_OCCUPIED"
        /\ \A x \in results : \A s \in x.signal + 1..r.cursor : HeldBeyond(x, seeds[s].ts)
    BY DEF Settles
  <1>. SUFFICES ASSUME NEW x \in r.records, x.status = "SKIPPED_OCCUPIED"
                PROVE  /\ Owner(x) \in Identities /\ Before(Owner(x), Identity(x))
                       /\ \/ Owner(x) \in Live(q)
                          \/ \E y \in q.records :
                               Identity(y) = Owner(x) /\ HeldBeyond(y, seeds[x.signal].ts)
    BY <1>1 DEF Skips
  <1>2. Owner(x) \in Identities /\ Before(Owner(x), Identity(x))
    BY DEF Skips
  <1>3. CASE \E y \in r.records : Identity(y) = Owner(x) /\ HeldBeyond(y, seeds[x.signal].ts)
    BY <1>1, <1>2, <1>3
  <1>4. CASE Owner(x) \in Live(r) /\ Owner(x) \notin Ids(results)
    BY <1>1, <1>2, <1>4
  <1>5. CASE Owner(x) \in Ids(results)
    <2>1. PICK y \in results : Identity(y) = Owner(x)
      BY <1>5 DEF Ids
    <2>2. y.signal = x.owner /\ x.owner < x.signal /\ x.owner \in Nat
      BY <1>2, <2>1, SlotIs, SeedTypes DEF Before, Identity, Owner
    <2>3. x.signal \in 1..r.cursor
      <3>1. Identity(x) \in (1..r.cursor) \X Scenarios \X Cells
        BY DEF Accounts, Ids
      <3>. QED
        BY <3>1 DEF Identity
    <2>4. x.signal \in y.signal + 1..r.cursor
      BY <2>2, <2>3 DEF Shaped
    <2>. QED
      BY <1>1, <1>2, <2>1, <2>4
  <1>. QED
    BY <1>3, <1>4, <1>5 DEF Skips

LEMMA SettlesKeeps ==
  ASSUME seeds \in SeedLists, NEW r, NEW q, NEW results, NEW n \in Nat,
         Core(r, n), Settles(r, q, results, n)
  PROVE  Core(q, n)
  <1>1. Shaped(q, n)
    BY DEF Core, Shaped, Settles
  <1>2. Sole(q)
    BY DEF Settles
  <1>3. Exact(q) /\ Accounts(q) /\ Serial(q) /\ Skips(q)
    BY SettlesExact, SettlesAccounts, SettlesSerial, SettlesSkips DEF Core
  <1>4. Sights(q) /\ Flat(q)
    <2>1. \A d \in q.pending \cup q.groups : \E e \in r.pending \cup r.groups :
            d.signal = e.signal /\ d.decision = e.decision
      BY DEF Settles
    <2>2. q.records = r.records \cup results /\ q.terminated = r.terminated
          /\ \A x \in results : x.decision = SeenBy(x.signal)
      BY DEF Settles
    <2>3. Sights(r) /\ Flat(r)
      BY DEF Core
    <2>4. Sights(q)
      BY <2>1, <2>2, <2>3 DEF Sights
    <2>5. Flat(q)
      BY <2>1, <2>2, <2>3 DEF Flat
    <2>. QED
      BY <2>4, <2>5
  <1>. QED
    BY <1>1, <1>2, <1>3, <1>4 DEF Core

-----------------------------------------------------------------------------
(* Opening the identities of the next signal.                              *)

Of(s) == {id \in Identities : id[1] = s}

\* r becomes q by the activation of s: the identities opened were free, the others
\* have their result at once.
Opens(r, q, s, results, opened, n) ==
  /\ IsReplay(q)
  /\ q.cursor = s /\ q.latest = r.latest /\ q.terminated = r.terminated
  /\ q.records = r.records \cup results
  /\ opened \subseteq Of(s) /\ \A id \in opened : r.occupied[SlotOf(id)] = 0
  /\ q.occupied = Occupy(r.occupied, {SlotOf(id) : id \in opened}, s)
  /\ Live(q) = Live(r) \cup opened
  /\ Ids(results) = Of(s) \ opened
  /\ \A x, y \in results : Identity(x) = Identity(y) => x = y
  /\ \A x \in results : /\ ResultOf(x, n) /\ x.status # "ENTRY_FILLED" /\ x.decision = SeenBy(s)
                        /\ x.status = "SKIPPED_OCCUPIED" =>
                             x.owner = r.occupied[SlotOf(Identity(x))] /\ x.owner # 0
  /\ (\A p \in q.pending : PendingOf(p, n)) /\ (\A g \in q.groups : GroupOf(g, n))
  /\ \A d \in q.pending \cup q.groups :
       \/ d \in r.pending \cup r.groups
       \/ d.signal = s /\ d.decision = SeenBy(s) /\ seeds[s].contract \notin r.terminated
  /\ Sole(q)

\* What was accounted for is of signals up to the cursor.
LEMMA AccountedBy ==
  ASSUME NEW r, Accounts(r),
         NEW id, id \in Ids(r.records) \cup Live(r) \cup drained
  PROVE  id[1] \in 1..r.cursor
  <1>1. id \in (1..r.cursor) \X Scenarios \X Cells
    BY DEF Accounts
  <1>. QED
    BY <1>1

LEMMA OpensExact ==
  ASSUME seeds \in SeedLists, NEW r, NEW q, NEW s \in Signals, NEW results, NEW opened, NEW n,
         Exact(r), Opens(r, q, s, results, opened, n)
  PROVE  Exact(q)
  <1> DEFINE taken == {SlotOf(id) : id \in opened}
  <1>1. /\ opened \subseteq Identities /\ \A id \in opened : id[1] = s /\ r.occupied[SlotOf(id)] = 0
        /\ q.occupied = Occupy(r.occupied, taken, s)
        /\ Live(q) = Live(r) \cup opened
    BY DEF Opens, Of
  <1>2. Live(r) \subseteq Identities
    BY LiveIds
  <1>0. s \in 0..Len(seeds) /\ s # 0
    BY SeedTypes
  <1>3. q.occupied \in [Slots -> 0..Len(seeds)]
    BY <1>0, <1>1 DEF Exact, Occupy
  <1>4. ASSUME NEW id \in Live(q) PROVE q.occupied[SlotOf(id)] = id[1]
    <2>1. SlotOf(id) \in Slots
      BY <1>1, <1>2, SlotIs
    <2>2. CASE id \in opened
      BY <1>1, <2>1, <2>2, OccupyAt
    <2>3. CASE id \in Live(r)
      <3>1. r.occupied[SlotOf(id)] = id[1] /\ id[1] # 0
        BY <1>2, <2>3, SlotIs, SeedTypes DEF Exact
      <3>2. SlotOf(id) \notin taken
        BY <1>1, <3>1
      <3>. QED
        BY <1>1, <2>1, <3>1, <3>2, OccupyAt
    <2>. QED
      BY <1>1, <2>2, <2>3
  <1>5. ASSUME NEW slot \in Slots, q.occupied[slot] # 0
        PROVE  \E id \in Live(q) : SlotOf(id) = slot
    <2>1. CASE slot \in taken
      BY <1>1, <2>1
    <2>2. CASE slot \notin taken
      <3>1. q.occupied[slot] = r.occupied[slot]
        BY <1>1, <2>2, OccupyAt
      <3>. QED
        BY <1>1, <1>5, <3>1 DEF Exact
    <2>. QED
      BY <2>1, <2>2
  <1>. QED
    BY <1>3, <1>4, <1>5 DEF Exact

LEMMA OpensAccounts ==
  ASSUME seeds \in SeedLists, NEW r, NEW q, NEW s \in Signals, NEW results, NEW opened, NEW n,
         r.cursor \in Nat, s = r.cursor + 1,
         Accounts(r), Opens(r, q, s, results, opened, n)
  PROVE  Accounts(q)
  <1>1. /\ opened \subseteq Of(s) /\ Live(q) = Live(r) \cup opened
        /\ Ids(results) = Of(s) \ opened
        /\ q.records = r.records \cup results /\ q.cursor = s
        /\ \A x, y \in results : Identity(x) = Identity(y) => x = y
    BY DEF Opens
  <1>2. Ids(q.records) = Ids(r.records) \cup Ids(results)
    BY <1>1 DEF Ids
  <1>3. \A id \in Ids(r.records) \cup Live(r) \cup drained : id \notin Of(s)
    <2>. SUFFICES ASSUME NEW id \in Ids(r.records) \cup Live(r) \cup drained PROVE id \notin Of(s)
      OBVIOUS
    <2>1. id[1] \in 1..r.cursor
      BY AccountedBy
    <2>. QED
      BY <2>1 DEF Of
  <1>4. ASSUME NEW x \in q.records, NEW y \in q.records, Identity(x) = Identity(y)
        PROVE  x = y
    <2>1. CASE x \in r.records /\ y \in r.records
      BY <1>4, <2>1 DEF Accounts
    <2>2. CASE x \in results /\ y \in results
      BY <1>1, <1>4, <2>2
    <2>3. \A z \in r.records : Identity(z) \notin Of(s)
      BY <1>3 DEF Ids
    <2>4. \A z \in results : Identity(z) \in Of(s)
      BY <1>1 DEF Ids
    <2>. QED
      BY <1>1, <1>4, <2>1, <2>2, <2>3, <2>4
  <1>5. (1..s) \X Scenarios \X Cells = ((1..r.cursor) \X Scenarios \X Cells) \cup Of(s)
    <2>1. 1..s = (1..r.cursor) \cup {s}
      OBVIOUS
    <2>2. Of(s) = {s} \X Scenarios \X Cells
      BY DEF Of, Identities
    <2>. QED
      BY <2>1, <2>2
  <1>. QED
    BY <1>1, <1>2, <1>3, <1>4, <1>5 DEF Accounts

LEMMA OpensSerial ==
  ASSUME seeds \in SeedLists, NEW r, NEW q, NEW s \in Signals, NEW results, NEW opened,
         NEW n \in Nat, s = r.cursor + 1, \A i \in 1..n : Time(i) <= seeds[s].ts,
         Shaped(r, n), Accounts(r), Serial(r), Opens(r, q, s, results, opened, n)
  PROVE  Serial(q)
  <1>1. /\ Live(q) = Live(r) \cup opened /\ q.records = r.records \cup results
        /\ \A id \in opened : id[1] = s
        /\ \A x \in results : x.status # "ENTRY_FILLED" /\ x.entry = 0
    BY DEF Opens, Of, ResultOf
  <1>2. \A x : Identity(x)[1] = x.signal
    BY DEF Identity
  <1>3. ASSUME NEW x \in q.records, x.status = "ENTRY_FILLED", NEW y \in q.records,
               y.entry # 0, Before(Identity(x), Identity(y))
        PROVE  Time(x.fill) <= seeds[y.signal].ts
    BY <1>1, <1>3 DEF Serial
  <1>4. ASSUME NEW x \in q.records, x.status = "ENTRY_FILLED", NEW id \in Live(q),
               Before(Identity(x), id)
        PROVE  Time(x.fill) <= seeds[id[1]].ts
    <2>1. x \in r.records
      BY <1>1, <1>4
    <2>2. x.fill \in 1..n
      BY <1>4, <2>1 DEF Shaped, ResultOf
    <2>. QED
      BY <1>1, <1>4, <2>1, <2>2 DEF Serial
  <1>5. ASSUME NEW id \in Live(q), NEW y \in q.records, Before(id, Identity(y))
        PROVE  y.entry = 0
    <2>1. CASE id \in opened /\ y \in r.records
      <3>1. Identity(y)[1] \in 1..r.cursor
        BY <2>1, AccountedBy DEF Ids
      <3>. QED
        BY <1>1, <1>5, <2>1, <3>1 DEF Before, Shaped
    <2>. QED
      BY <1>1, <1>5, <2>1 DEF Serial
  <1>. QED
    BY <1>3, <1>4, <1>5 DEF Serial

LEMMA OpensSkips ==
  ASSUME seeds \in SeedLists, NEW r, NEW q, NEW s \in Signals, NEW results, NEW opened,
         NEW n \in Nat, s = r.cursor + 1,
         Shaped(r, n), Exact(r), Accounts(r), Skips(r), Opens(r, q, s, results, opened, n)
  PROVE  Skips(q)
  <1>1. /\ Live(q) = Live(r) \cup opened /\ q.records = r.records \cup results
        /\ Ids(results) = Of(s) \ opened
        /\ \A x \in results : x.status = "SKIPPED_OCCUPIED" =>
             x.owner = r.occupied[SlotOf(Identity(x))] /\ x.owner # 0
    BY DEF Opens
  <1>2. ASSUME NEW x \in results, x.status = "SKIPPED_OCCUPIED"
        PROVE  Owner(x) \in Live(r) /\ Before(Owner(x), Identity(x))
    <2>1. Identity(x) \in Identities /\ x.signal = s
      BY <1>1 DEF Ids, Of, Identity
    <2>2. SlotOf(Identity(x)) \in Slots
      BY <2>1, SlotIs
    <2>3. PICK id \in Live(r) : SlotOf(id) = SlotOf(Identity(x))
      BY <1>1, <1>2, <2>2 DEF Exact
    <2>4. id \in Identities /\ id[1] = x.owner
      BY <1>1, <1>2, <2>3, LiveIds DEF Exact
    <2>5. id[2] = x.scenario /\ id[3] = x.cell
      BY <2>1, <2>3, <2>4, SlotIs DEF Identity
    <2>6. id = Owner(x)
      BY <2>4, <2>5, SlotIs DEF Owner
    <2>7. id[1] \in 1..r.cursor
      BY <2>3, AccountedBy
    <2>8. id[1] < s
      BY <2>7 DEF Shaped
    <2>. QED
      BY <2>1, <2>3, <2>6, <2>8 DEF Before, Identity
  <1>3. ASSUME NEW x \in r.records, x.status = "SKIPPED_OCCUPIED"
        PROVE  /\ Owner(x) \in Identities /\ Before(Owner(x), Identity(x))
               /\ \/ Owner(x) \in Live(q)
                  \/ \E y \in q.records :
                       Identity(y) = Owner(x) /\ HeldBeyond(y, seeds[x.signal].ts)
    BY <1>1, <1>3 DEF Skips
  <1>. QED
    BY <1>1, <1>2, <1>3, LiveIds DEF Skips

LEMMA OpensKeeps ==
  ASSUME seeds \in SeedLists, NEW r, NEW q, NEW s \in Signals, NEW results, NEW opened,
         NEW n \in Nat, s = r.cursor + 1, \A i \in 1..n : Time(i) <= seeds[s].ts,
         Core(r, n), Opens(r, q, s, results, opened, n)
  PROVE  Core(q, n)
  <1>1. /\ IsReplay(q) /\ q.cursor = s /\ q.terminated = r.terminated
        /\ q.records = r.records \cup results
        /\ \A p \in q.pending : PendingOf(p, n)
        /\ \A g \in q.groups : GroupOf(g, n)
        /\ \A x \in results : ResultOf(x, n)
    BY DEF Opens
  <1>2. Shaped(q, n)
    BY <1>1, SeedTypes DEF Core, Shaped
  <1>3. Sole(q)
    BY DEF Opens
  <1>4. Exact(q) /\ Accounts(q) /\ Serial(q) /\ Skips(q)
    BY OpensExact, OpensAccounts, OpensSerial, OpensSkips DEF Core, Shaped
  <1>5. Sights(q) /\ Flat(q)
    <2>1. \A d \in q.pending \cup q.groups :
            \/ d \in r.pending \cup r.groups
            \/ d.signal = s /\ d.decision = SeenBy(s) /\ seeds[s].contract \notin r.terminated
      BY DEF Opens
    <2>2. \A x \in results : x.decision = SeenBy(s) /\ x.signal = s
      <3>1. Ids(results) \subseteq Of(s) /\ \A x \in results : x.decision = SeenBy(s)
        BY DEF Opens
      <3>2. ASSUME NEW x \in results PROVE x.signal = s
        <4>1. Identity(x) \in Of(s)
          BY <3>1 DEF Ids
        <4>2. Identity(x)[1] = s
          BY <4>1 DEF Of
        <4>. QED
          BY <4>2 DEF Identity
      <3>. QED
        BY <3>1, <3>2
    <2>3. Sights(r) /\ Flat(r)
      BY DEF Core
    <2>4. Sights(q)
      BY <1>1, <2>1, <2>2, <2>3 DEF Sights
    <2>5. Flat(q)
      BY <1>1, <2>1, <2>3 DEF Flat
    <2>. QED
      BY <2>4, <2>5
  <1>. QED
    BY <1>2, <1>3, <1>4, <1>5 DEF Core

LEMMA SkippedIs ==
  ASSUME NEW s, NEW sc, NEW cell, NEW decision, NEW owner, NEW x,
         x = Skipped(s, sc, cell, decision, owner)
  PROVE  /\ Identity(x) = <<s, sc, cell>> /\ x.status = "SKIPPED_OCCUPIED"
         /\ x.decision = decision /\ x.owner = owner /\ x.failure = 0 /\ x.entry = 0
         /\ x.signal = s
BY DEF Skipped, Result, Identity

LEMMA NotFilledIs ==
  ASSUME NEW s, NEW sc, NEW cell, NEW decision, NEW reason, NEW failure, NEW x,
         x = NotFilled(s, sc, cell, decision, reason, failure)
  PROVE  /\ Identity(x) = <<s, sc, cell>> /\ x.status = "ENTRY_NOT_FILLED"
         /\ x.decision = decision /\ x.reason = reason /\ x.failure = failure /\ x.entry = 0
         /\ x.signal = s /\ x.scenario = sc
BY DEF NotFilled, Result, Identity

\* The claims of a replay are of signals up to its cursor.
LEMMA ClaimsBehind ==
  ASSUME seeds \in SeedLists, NEW r, NEW n, Shaped(r, n), Accounts(r),
         NEW d \in r.pending \cup r.groups
  PROVE  d.signal \in 1..r.cursor
  <1>1. \E cell \in Cells : <<d.signal, d.scenario, cell>> \in Live(r)
    <2>1. CASE d \in r.pending
      <3>1. PendingOf(d, n)
        BY <2>1 DEF Shaped
      <3>2. PICK cell \in d.cells : cell \in Cells
        BY <3>1 DEF PendingOf
      <3>. QED
        BY <2>1, <3>1, <3>2 DEF Live, Holds, Identities, PendingOf
    <2>2. CASE d \in r.groups
      <3>1. GroupOf(d, n)
        BY <2>2 DEF Shaped
      <3>2. PICK cell \in d.active : cell \in Cells
        BY <3>1 DEF GroupOf
      <3>. QED
        BY <2>2, <3>1, <3>2 DEF Live, Holds, Identities, GroupOf
    <2>. QED
      BY <2>1, <2>2
  <1>2. PICK cell \in Cells : <<d.signal, d.scenario, cell>> \in Live(r)
    BY <1>1
  <1>3. <<d.signal, d.scenario, cell>>[1] \in 1..r.cursor
    BY <1>2, AccountedBy
  <1>. QED
    BY <1>3

LEMMA ActivateOpens ==
  ASSUME seeds \in SeedLists, NEW r, NEW n \in Nat, Core(r, n),
         NEW s \in Signals, s = r.cursor + 1,
         r.latest[seeds[s].contract] = SeenBy(s), SeenBy(s) \in 0..n,
         NEW q, q = ActivateSignal(r, s)
  PROVE  \E results, opened : Opens(r, q, s, results, opened, n)
  <1> DEFINE quote == r.latest[seeds[s].contract]
             failure == GateFailure(r, s)
             all == Scenarios \X Cells
             pairs == {w \in all : w[2] \in FreeCells(r, s, w[1])}
             skips == {Skipped(s, w[1], w[2], quote, r.occupied[Slot(s, w[1], w[2])]) :
                         w \in all \ pairs}
             refusals == {NotFilled(s, w[1], w[2], quote, failure, quote) : w \in pairs}
             entry(sc) == [signal |-> s, scenario |-> sc, cells |-> FreeCells(r, s, sc),
                           decision |-> quote, gate |-> quote]
             entries == {entry(sc) : sc \in {sc \in Scenarios : FreeCells(r, s, sc) # {}}}
             free == {id \in Of(s) : r.occupied[SlotOf(id)] = 0}
  <1>1. IsReplay(r) /\ Shaped(r, n) /\ Exact(r) /\ Accounts(r) /\ Sole(r)
    BY DEF Core, Shaped
  <1>2. free = {<<s, w[1], w[2]>> : w \in pairs}
    <2>1. ASSUME NEW id \in free PROVE id \in {<<s, w[1], w[2]>> : w \in pairs}
      <3>1. id \in Identities /\ id[1] = s /\ r.occupied[SlotOf(id)] = 0
        BY DEF Of
      <3>2. <<id[2], id[3]>> \in pairs /\ id = <<s, id[2], id[3]>>
        BY <3>1, SlotIs DEF FreeCells, SlotOf
      <3>. QED
        BY <3>2
    <2>2. ASSUME NEW w \in pairs PROVE <<s, w[1], w[2]>> \in free
      BY DEF Of, Identities, FreeCells, SlotOf
    <2>. QED
      BY <2>1, <2>2
  <1>3. Of(s) \ free = {<<s, w[1], w[2]>> : w \in all \ pairs}
    <2>1. Of(s) = {<<s, w[1], w[2]>> : w \in all}
      <3>1. ASSUME NEW id \in Of(s) PROVE id \in {<<s, w[1], w[2]>> : w \in all}
        <4>1. <<id[2], id[3]>> \in all /\ id = <<s, id[2], id[3]>>
          BY SlotIs DEF Of
        <4>. QED
          BY <4>1
      <3>2. ASSUME NEW w \in all PROVE <<s, w[1], w[2]>> \in Of(s)
        BY DEF Of, Identities
      <3>. QED
        BY <3>1, <3>2
    <2>2. ASSUME NEW v \in all, NEW w \in all, <<s, v[1], v[2]>> = <<s, w[1], w[2]>> PROVE v = w
      BY <2>2
    <2> HIDE DEF all, pairs, free
    <2>3. pairs \subseteq all
      BY DEF pairs
    <2>. QED
      BY <1>2, <2>1, <2>2, <2>3
  <1>4. \A w \in all : <<s, w[1], w[2]>> \in Identities
    BY DEF Identities
  <1>5. ASSUME NEW x \in skips
        PROVE  /\ \E w \in all \ pairs : Identity(x) = <<s, w[1], w[2]>> /\
                    x = Skipped(s, w[1], w[2], quote, r.occupied[Slot(s, w[1], w[2])])
               /\ ResultOf(x, n) /\ x.status = "SKIPPED_OCCUPIED" /\ x.decision = SeenBy(s)
               /\ x.owner = r.occupied[SlotOf(Identity(x))] /\ x.owner # 0
    <2>1. PICK w \in all \ pairs :
            x = Skipped(s, w[1], w[2], quote, r.occupied[Slot(s, w[1], w[2])])
      OBVIOUS
    <2>2. /\ Identity(x) = <<s, w[1], w[2]>> /\ x.status = "SKIPPED_OCCUPIED"
          /\ x.decision = quote /\ x.owner = r.occupied[Slot(s, w[1], w[2])]
          /\ x.failure = 0 /\ x.entry = 0
      BY <2>1, SkippedIs
    <2>3. Slot(s, w[1], w[2]) = SlotOf(Identity(x))
      BY <2>2 DEF SlotOf
    <2>4. r.occupied[Slot(s, w[1], w[2])] # 0
      BY DEF FreeCells
    <2>. QED
      BY <1>4, <2>1, <2>2, <2>3, <2>4 DEF ResultOf
  <1>6. ASSUME NEW x \in refusals
        PROVE  /\ \E w \in pairs : Identity(x) = <<s, w[1], w[2]>> /\
                    x = NotFilled(s, w[1], w[2], quote, failure, quote)
               /\ ResultOf(x, n) /\ x.status = "ENTRY_NOT_FILLED" /\ x.decision = SeenBy(s)
    <2>1. PICK w \in pairs : x = NotFilled(s, w[1], w[2], quote, failure, quote)
      OBVIOUS
    <2>2. /\ Identity(x) = <<s, w[1], w[2]>> /\ x.status = "ENTRY_NOT_FILLED"
          /\ x.decision = quote /\ x.failure = quote /\ x.entry = 0
      <3> HIDE DEF quote, failure, all, pairs, refusals, skips
      <3>. QED
        BY <2>1, NotFilledIs
    <2>. QED
      BY <1>4, <2>1, <2>2 DEF ResultOf
  <1>7. Ids(skips) = Of(s) \ free /\ Ids(refusals) = free
    <2>1. \A w \in all : Identity(Skipped(s, w[1], w[2], quote, r.occupied[Slot(s, w[1], w[2])]))
                           = <<s, w[1], w[2]>>
      BY SkippedIs
    <2>2. \A w \in all : Identity(NotFilled(s, w[1], w[2], quote, failure, quote))
                           = <<s, w[1], w[2]>>
      BY NotFilledIs
    <2>3. Ids(skips) = {<<s, w[1], w[2]>> : w \in all \ pairs}
      <3> HIDE DEF all, pairs
      <3>. QED
        BY <2>1 DEF Ids
    <2>4. Ids(refusals) = {<<s, w[1], w[2]>> : w \in pairs}
      <3>1. pairs \subseteq all
        OBVIOUS
      <3> HIDE DEF all, pairs, failure
      <3>. QED
        BY <2>2, <3>1 DEF Ids
    <2>. QED
      BY <1>2, <1>3, <2>3, <2>4
  <1>8. \A x, y \in skips \cup refusals : Identity(x) = Identity(y) => x = y
    <2>. SUFFICES ASSUME NEW x \in skips \cup refusals, NEW y \in skips \cup refusals,
                         Identity(x) = Identity(y)
                  PROVE  x = y
      OBVIOUS
    <2>1. x \in skips <=> y \in skips
      <3> HIDE DEF skips, refusals, free
      <3>1. \A z \in skips : Identity(z) \notin free
        BY <1>7 DEF Ids
      <3>2. \A z \in refusals : Identity(z) \in free
        BY <1>7 DEF Ids
      <3>. QED
        BY <3>1, <3>2
    <2>2. ASSUME NEW v \in all, NEW w \in all, <<s, v[1], v[2]>> = <<s, w[1], w[2]>> PROVE v = w
      BY <2>2
    <2>3. CASE x \in skips /\ y \in skips
      <3>1. PICK v \in all \ pairs : Identity(x) = <<s, v[1], v[2]>> /\
              x = Skipped(s, v[1], v[2], quote, r.occupied[Slot(s, v[1], v[2])])
        BY <1>5, <2>3, Zenon
      <3>2. PICK w \in all \ pairs : Identity(y) = <<s, w[1], w[2]>> /\
              y = Skipped(s, w[1], w[2], quote, r.occupied[Slot(s, w[1], w[2])])
        BY <1>5, <2>3, Zenon
      <3> HIDE DEF quote, failure, all, pairs, refusals, skips
      <3>3. v = w
        BY <2>2, <3>1, <3>2
      <3>. QED
        BY <3>1, <3>2, <3>3
    <2>4. CASE x \in refusals /\ y \in refusals
      <3>1. PICK v \in pairs : Identity(x) = <<s, v[1], v[2]>> /\
              x = NotFilled(s, v[1], v[2], quote, failure, quote)
        BY <1>6, <2>4, Zenon
      <3>2. PICK w \in pairs : Identity(y) = <<s, w[1], w[2]>> /\
              y = NotFilled(s, w[1], w[2], quote, failure, quote)
        BY <1>6, <2>4, Zenon
      <3>0. v \in all /\ w \in all
        OBVIOUS
      <3> HIDE DEF quote, failure, all, pairs, refusals, skips
      <3>3. v = w
        BY <2>2, <3>0, <3>1, <3>2
      <3>. QED
        BY <3>1, <3>2, <3>3
    <2>. QED
      BY <2>1, <2>3, <2>4
  <1>9. CASE failure # ""
    <2>1. q = [r EXCEPT !.records = @ \cup skips \cup refusals, !.cursor = s]
      BY <1>9 DEF ActivateSignal
    <2> HIDE DEF skips, refusals, failure, free
    <2>2. /\ IsReplay(q) /\ q.cursor = s /\ q.latest = r.latest /\ q.terminated = r.terminated
          /\ q.records = r.records \cup (skips \cup refusals)
          /\ q.pending = r.pending /\ q.groups = r.groups /\ q.occupied = r.occupied
      <3> DEFINE records == (r.records \cup skips) \cup refusals
      <3>1. IsReplay(r)
        BY <1>1
      <3>2. q = [r EXCEPT !.records = records, !.cursor = s]
        BY <2>1
      <3>3. records = r.records \cup (skips \cup refusals)
        OBVIOUS
      <3> HIDE DEF records
      <3>4. /\ IsReplay(q) /\ q.cursor = s /\ q.latest = r.latest /\ q.terminated = r.terminated
            /\ q.records = records
            /\ q.pending = r.pending /\ q.groups = r.groups /\ q.occupied = r.occupied
        BY <3>1, <3>2 DEF IsReplay
      <3>. QED
        BY <3>3, <3>4
    <2>3. Ids(skips \cup refusals) = Of(s) \ {}
      BY <1>7 DEF Ids, free
    <2>4. q.occupied = Occupy(r.occupied, {SlotOf(id) : id \in {}}, s)
      BY <1>1, <2>2 DEF Exact, Occupy
    <2>5. Live(q) = Live(r) \cup {}
      BY <2>2 DEF Live, Holds
    <2>6. Sole(q)
      BY <1>1, <2>2 DEF Sole
    <2>7. (\A p \in q.pending : PendingOf(p, n)) /\ (\A g \in q.groups : GroupOf(g, n))
      BY <1>1, <2>2 DEF Shaped
    <2>8. \A x \in skips \cup refusals :
            /\ ResultOf(x, n) /\ x.status # "ENTRY_FILLED" /\ x.decision = SeenBy(s)
            /\ x.status = "SKIPPED_OCCUPIED" =>
                 x.owner = r.occupied[SlotOf(Identity(x))] /\ x.owner # 0
      BY <1>5, <1>6
    <2>9. Opens(r, q, s, skips \cup refusals, {}, n)
      BY <1>8, <2>2, <2>3, <2>4, <2>5, <2>6, <2>7, <2>8 DEF Opens
    <2>. QED
      BY <2>9
  <1>10. CASE failure = ""
    <2> DEFINE taken == UNION {SlotsOf(s, p.scenario, p.cells) : p \in entries}
    <2>1. quote # 0 /\ quote \in 1..n /\ seeds[s].contract \notin r.terminated
      <3>1. quote # 0 /\ seeds[s].contract \notin r.terminated
        BY <1>10 DEF GateFailure
      <3>. QED
        BY <3>1
    <2>2. q = [r EXCEPT !.records = @ \cup skips, !.cursor = s, !.pending = @ \cup entries,
                        !.occupied = Occupy(@, taken, s)]
      BY <1>10 DEF ActivateSignal
    <2>3. \A sc \in Scenarios : FreeCells(r, s, sc) \subseteq Cells
      BY DEF FreeCells
    <2>4. ASSUME NEW p \in entries
          PROVE  /\ p = [signal |-> p.signal, scenario |-> p.scenario, cells |-> p.cells,
                         decision |-> p.decision, gate |-> p.gate]
                 /\ p.signal = s /\ p.scenario \in Scenarios
                 /\ p.cells = FreeCells(r, s, p.scenario) /\ p.cells # {}
                 /\ p.decision = quote /\ p.gate = quote
      <3>1. PICK sc \in Scenarios : FreeCells(r, s, sc) # {} /\ p = entry(sc)
        OBVIOUS
      <3>. QED
        BY <3>1
    <2>5. \A sc \in Scenarios : FreeCells(r, s, sc) # {} =>
            \E p \in entries : p.signal = s /\ p.scenario = sc /\ p.cells = FreeCells(r, s, sc)
      <3>. SUFFICES ASSUME NEW sc \in Scenarios, FreeCells(r, s, sc) # {}
                    PROVE  \E p \in entries : p.signal = s /\ p.scenario = sc
                                              /\ p.cells = FreeCells(r, s, sc)
        OBVIOUS
      <3>1. entry(sc) \in entries
        OBVIOUS
      <3>. QED
        BY <3>1
    <2>6. free = {<<s, w[1], w[2]>> : w \in pairs}
      BY <1>2
    <2>7. \A sc, cell : <<sc, cell>> \in pairs <=> sc \in Scenarios /\ cell \in FreeCells(r, s, sc)
      BY <2>3
    <2>8. IsReplay(r)
      BY <1>1
    <2>9. Ids(skips) = Of(s) \ free
      BY <1>7
    <2>10. \A x, y \in skips : Identity(x) = Identity(y) => x = y
      BY <1>8
    <2>11. \A x \in skips :
            /\ ResultOf(x, n) /\ x.status # "ENTRY_FILLED" /\ x.decision = SeenBy(s)
            /\ x.status = "SKIPPED_OCCUPIED" =>
                 x.owner = r.occupied[SlotOf(Identity(x))] /\ x.owner # 0
      BY <1>5
    <2>12. free \subseteq Of(s) /\ \A id \in free : r.occupied[SlotOf(id)] = 0
      OBVIOUS
    <2>13. \A w \in pairs : w = <<w[1], w[2]>>
      OBVIOUS
    <2> HIDE DEF skips, refusals, failure, free, entries, entry, taken, pairs
    <2>14. /\ IsReplay(q) /\ q.cursor = s /\ q.latest = r.latest /\ q.terminated = r.terminated
           /\ q.records = r.records \cup skips
           /\ q.pending = r.pending \cup entries /\ q.groups = r.groups
           /\ q.occupied = Occupy(r.occupied, taken, s)
      BY <2>2, <2>8 DEF IsReplay
    <2>15. ASSUME NEW id \in free
           PROVE  id[1] = s /\ id = <<s, id[2], id[3]>>
                  /\ id[2] \in Scenarios /\ id[3] \in FreeCells(r, s, id[2])
      <3>1. PICK w \in pairs : id = <<s, w[1], w[2]>>
        BY <2>6
      <3>. QED
        BY <2>7, <2>13, <3>1
    <2>16. \A sc \in Scenarios : \A cell \in FreeCells(r, s, sc) : <<s, sc, cell>> \in free
      <3>. SUFFICES ASSUME NEW sc \in Scenarios, NEW cell \in FreeCells(r, s, sc)
                    PROVE  <<s, sc, cell>> \in free
        OBVIOUS
      <3>1. <<sc, cell>> \in pairs
        BY <2>7
      <3>2. <<s, <<sc, cell>>[1], <<sc, cell>>[2]>> \in free
        BY <2>6, <3>1
      <3>. QED
        BY <3>2
    <2>17. taken = {SlotOf(id) : id \in free}
      <3>1. ASSUME NEW slot \in taken PROVE slot \in {SlotOf(id) : id \in free}
        <4>1. PICK p \in entries : slot \in SlotsOf(s, p.scenario, p.cells)
          BY DEF taken
        <4>2. PICK cell \in p.cells : slot = Slot(s, p.scenario, cell)
          BY <4>1 DEF SlotsOf
        <4>3. <<s, p.scenario, cell>> \in free /\ slot = SlotOf(<<s, p.scenario, cell>>)
          BY <2>4, <2>16, <4>2 DEF SlotOf
        <4>. QED
          BY <4>3
      <3>2. ASSUME NEW id \in free PROVE SlotOf(id) \in taken
        <4>1. PICK p \in entries : p.signal = s /\ p.scenario = id[2]
                                   /\ p.cells = FreeCells(r, s, id[2])
          BY <2>5, <2>15
        <4>2. SlotOf(id) \in SlotsOf(s, p.scenario, p.cells)
          BY <2>15, <4>1 DEF SlotsOf, SlotOf
        <4>. QED
          BY <4>2 DEF taken
      <3>. QED
        BY <3>1, <3>2
    <2>18. Live(q) = Live(r) \cup free
      <3>1. ASSUME NEW id \in Identities, Holds(q, id) PROVE Holds(r, id) \/ id \in free
        <4>1. CASE \E p \in entries : p.signal = id[1] /\ p.scenario = id[2] /\ id[3] \in p.cells
          <5>1. PICK p \in entries : p.signal = id[1] /\ p.scenario = id[2] /\ id[3] \in p.cells
            BY <4>1
          <5>2. id = <<s, id[2], id[3]>> /\ id[2] \in Scenarios /\ id[3] \in FreeCells(r, s, id[2])
            BY <2>4, <5>1 DEF Identities
          <5>. QED
            BY <2>16, <5>2
        <4>. QED
          BY <2>14, <3>1, <4>1 DEF Holds
      <3>2. ASSUME NEW id \in free PROVE id \in Identities /\ Holds(q, id)
        <4>1. PICK p \in entries : p.signal = s /\ p.scenario = id[2]
                                   /\ p.cells = FreeCells(r, s, id[2])
          BY <2>5, <2>15
        <4>2. Holds(q, id)
          BY <2>14, <2>15, <4>1 DEF Holds
        <4>. QED
          BY <2>12, <4>2 DEF Of
      <3>3. ASSUME NEW id \in Live(r) PROVE id \in Identities /\ Holds(q, id)
        BY <2>14 DEF Live, Holds
      <3>. QED
        BY <3>1, <3>2, <3>3 DEF Live
    <2>19. Sole(q)
      <3>1. \A d \in r.pending \cup r.groups : d.signal # s
        <4>. SUFFICES ASSUME NEW d \in r.pending \cup r.groups PROVE d.signal # s
          OBVIOUS
        <4>1. d.signal \in 1..r.cursor /\ r.cursor \in Nat
          <5>1. Shaped(r, n) /\ Accounts(r)
            BY <1>1
          <5>2. d.signal \in 1..r.cursor
            BY <5>1, ClaimsBehind
          <5>. QED
            BY <5>1, <5>2 DEF Shaped
        <4>. QED
          BY <4>1
      <3>2. \A d, e \in entries : d.scenario = e.scenario => d = e
        BY <2>4
      <3>. QED
        BY <1>1, <2>4, <2>14, <3>1, <3>2 DEF Sole
    <2>20. (\A p \in q.pending : PendingOf(p, n)) /\ (\A g \in q.groups : GroupOf(g, n))
      <3>1. \A p \in entries : PendingOf(p, n)
        BY <2>1, <2>3, <2>4 DEF PendingOf
      <3>. QED
        BY <1>1, <2>14, <3>1 DEF Shaped
    <2>21. \A d \in q.pending \cup q.groups :
             \/ d \in r.pending \cup r.groups
             \/ d.signal = s /\ d.decision = SeenBy(s) /\ seeds[s].contract \notin r.terminated
      BY <2>1, <2>4, <2>14
    <2>22. Opens(r, q, s, skips, free, n)
      BY <2>9, <2>10, <2>11, <2>12, <2>14, <2>17, <2>18, <2>19, <2>20, <2>21 DEF Opens
    <2>. QED
      BY <2>22
  <1>. QED
    BY <1>9, <1>10

LEMMA ActivateKeeps ==
  ASSUME seeds \in SeedLists, NEW r, NEW n \in Nat, Core(r, n),
         NEW s \in Signals, s = r.cursor + 1, \A i \in 1..n : Time(i) <= seeds[s].ts,
         r.latest[seeds[s].contract] = SeenBy(s), SeenBy(s) \in 0..n,
         NEW q, q = ActivateSignal(r, s)
  PROVE  Core(q, n) /\ q.cursor = s /\ q.latest = r.latest /\ q.terminated = r.terminated
  <1>1. PICK results, opened : Opens(r, q, s, results, opened, n)
    BY ActivateOpens
  <1>2. Core(q, n)
    BY <1>1, OpensKeeps
  <1>. QED
    BY <1>1, <1>2 DEF Opens

\* The last quote of the past, when n events are the past of a signal.
LEMMA SeenIs ==
  ASSUME stream \in Seq(Quote), NEW n \in 0..Len(stream), NEW s,
         \A i \in 1..n : Time(i) <= seeds[s].ts,
         \A i \in n + 1..Len(stream) : ~(Time(i) <= seeds[s].ts)
  PROVE  /\ LastOf({i \in 1..n : stream[i].contract = seeds[s].contract}) = SeenBy(s)
         /\ SeenBy(s) \in 0..n
  <1> DEFINE past == {i \in 1..n : stream[i].contract = seeds[s].contract}
             seen == {i \in DOMAIN stream : /\ stream[i].contract = seeds[s].contract
                                            /\ Time(i) <= seeds[s].ts}
  <1>1. DOMAIN stream = 1..Len(stream) /\ Len(stream) \in Nat
    <2> HIDE DEF past, seen
    <2>. QED
      OBVIOUS
  <1>2. 1..Len(stream) = (1..n) \cup (n + 1..Len(stream)) /\ n \in Nat
    BY <1>1
  <1>3. past = seen
    BY <1>1, <1>2
  <1>4. past \subseteq 1..n
    OBVIOUS
  <1>5. SeenBy(s) = LastOf(seen)
    BY DEF SeenBy
  <1> HIDE DEF past, seen
  <1>6. LastOf(past) \in 0..n
    BY <1>2, <1>4, LastOfIs
  <1>. QED
    BY <1>3, <1>5, <1>6 DEF past

-----------------------------------------------------------------------------
(* The route of an entry.                                                  *)

\* Two claims with one decision have one route.
LEMMA SameRoute ==
  ASSUME NEW x, NEW y, x.signal = y.signal, x.scenario = y.scenario, x.decision = y.decision
  PROVE  /\ Due(x) = Due(y)
         /\ \A n : Way(x, n) = Way(y, n) /\ Gates(x, n) = Gates(y, n)
         /\ \A k, m : Follows(x, k, m) <=> Follows(y, k, m)
         /\ \A i : CleanRoute(x, i) <=> CleanRoute(y, i)
         /\ \A f : Breaks(x, f) <=> Breaks(y, f)
         /\ \A n, over : Barred(x, n, over) <=> Barred(y, n, over)
  <1>1. Due(x) = Due(y)
    BY DEF Due
  <1>2. \A n : Way(x, n) = Way(y, n) /\ Gates(x, n) = Gates(y, n)
    BY DEF Way, Gates
  <1>3. \A k, m : Follows(x, k, m) <=> Follows(y, k, m)
    BY <1>2 DEF Follows
  <1>4. \A i : EntryPrice(x, i) = EntryPrice(y, i)
    BY DEF EntryPrice
  <1>5. \A i : CleanRoute(x, i) <=> CleanRoute(y, i)
    BY <1>1, <1>2, <1>3, <1>4 DEF CleanRoute
  <1>6. \A f : Breaks(x, f) <=> Breaks(y, f)
    BY <1>1, <1>2, <1>3, <1>5 DEF Breaks
  <1>. QED
    BY <1>1, <1>2, <1>3, <1>5, <1>6 DEF Barred

\* The way of a route only grows.
LEMMA WayGrows ==
  ASSUME NEW n \in Nat, NEW m \in Nat, m <= n, NEW x, x.decision \in Nat
  PROVE  /\ Way(x, m) \subseteq Way(x, n)
         /\ \A k \in Way(x, n) : k <= m => k \in Way(x, m)
         /\ Way(x, n) \subseteq x.decision + 1..n
BY DEF Way

\* More events undo no verdict.
LEMMA RoutedGrows ==
  ASSUME NEW r, NEW n \in Nat, NEW m \in Nat, m <= n, Routed(r, m, FALSE)
  PROVE  Routed(r, n, FALSE)
  <1>1. \A x : Followed(x, m) => Followed(x, n)
    <2>. SUFFICES ASSUME NEW x, Followed(x, m) PROVE Followed(x, n)
      OBVIOUS
    <2>1. x.decision \in 1..n /\ x.decision \in Nat
      BY DEF Followed
    <2>. QED
      BY <2>1, WayGrows DEF Followed
  <1>2. \A x : Barred(x, m, FALSE) => Barred(x, n, FALSE)
    <2>. SUFFICES ASSUME NEW x, Barred(x, m, FALSE) PROVE Barred(x, n, FALSE)
      OBVIOUS
    <2>1. x.decision \in 1..n /\ x.decision \in Nat
      BY DEF Barred
    <2>. QED
      BY <2>1, WayGrows DEF Barred
  <1>. QED
    BY <1>1, <1>2 DEF Routed

\* Nor does the end of the stream.
LEMMA RoutedEnds ==
  ASSUME NEW r, NEW n, Routed(r, n, FALSE)
  PROVE  Routed(r, n, TRUE)
BY DEF Routed, Barred

-----------------------------------------------------------------------------
(* Activating one signal after the other.                                  *)

\* The activation of a signal, in a flush and at the end of the stream.
Activated(r, s, finishing) ==
  IF finishing THEN RefusePending(ActivateSignal(r, s)) ELSE ActivateSignal(r, s)

\* f holds the replay after each of the signals lo + 1 to hi.
Activations(f, r, lo, hi, finishing) ==
  f = [s \in lo..hi |-> IF s = lo THEN r ELSE Activated(f[s - 1], s, finishing)]

LEMMA ActivationsExist ==
  ASSUME NEW r, NEW lo \in Nat, NEW hi \in Nat, lo <= hi, NEW finishing
  PROVE  \E f : Activations(f, r, lo, hi, finishing)
  <1> DEFINE Bad == {k \in lo..hi : ~\E f : Activations(f, r, lo, k, finishing)}
  <1>. SUFFICES ASSUME Bad # {} PROVE FALSE
    OBVIOUS
  <1>1. PICK k \in Bad : \A j \in Bad : k <= j
    <2>1. Bad \subseteq Nat
      OBVIOUS
    <2> HIDE DEF Bad
    <2>. QED
      BY <2>1, Least
  <1>2. CASE k = lo
    <2> DEFINE f == [s \in lo..lo |-> r]
    <2>1. f = [s \in lo..lo |-> IF s = lo THEN r ELSE Activated(f[s - 1], s, finishing)]
      OBVIOUS
    <2>. QED
      BY <1>2, <2>1 DEF Activations
  <1>3. CASE k # lo
    <2>1. k - 1 \in lo..hi /\ k - 1 \notin Bad
      <3>1. k \in lo..hi /\ k - 1 \in lo..hi /\ ~(k <= k - 1)
        BY <1>3
      <3>. QED
        BY <1>1, <3>1
    <2>2. PICK g : Activations(g, r, lo, k - 1, finishing)
      BY <2>1
    <2> DEFINE f == [s \in lo..k |-> IF s = k THEN Activated(g[k - 1], k, finishing) ELSE g[s]]
    <2>3. \A s \in lo..k - 1 : g[s] = IF s = lo THEN r ELSE Activated(g[s - 1], s, finishing)
      BY <2>2 DEF Activations
    <2>4. \A s \in lo..k : f[s] = IF s = lo THEN r ELSE Activated(f[s - 1], s, finishing)
      <3>. SUFFICES ASSUME NEW s \in lo..k
                    PROVE  f[s] = IF s = lo THEN r ELSE Activated(f[s - 1], s, finishing)
        OBVIOUS
      <3>1. CASE s = k
        BY <1>3, <3>1
      <3>2. CASE s # k /\ s # lo
        <4>1. s \in lo..k - 1 /\ s - 1 \in lo..k /\ s - 1 # k
          BY <3>2
        <4>. QED
          BY <2>3, <3>2, <4>1
      <3>3. CASE s # k /\ s = lo
        <4>1. s \in lo..k - 1
          BY <3>3
        <4>. QED
          BY <2>3, <3>3, <4>1
      <3>. QED
        BY <3>1, <3>2, <3>3
    <2>5. f = [s \in lo..k |-> f[s]]
      OBVIOUS
    <2> HIDE DEF f
    <2>6. Activations(f, r, lo, k, finishing)
      BY <2>4, <2>5 DEF Activations
    <2>. QED
      BY <2>6
  <1>. QED
    BY <1>2, <1>3

LEMMA ActivateWhileIs ==
  ASSUME NEW r, NEW due, r.cursor \in 0..Len(seeds), Len(seeds) \in Nat
  PROVE  \E f, last :
           /\ last \in r.cursor..Len(seeds) /\ r.cursor + 1..last \subseteq due
           /\ last < Len(seeds) => last + 1 \notin due
           /\ \A s \in r.cursor..last : f[s] = IF s = r.cursor THEN r ELSE ActivateSignal(f[s - 1], s)
           /\ ActivateWhile(r, due) = f[last]
  <1> DEFINE reach == {s \in r.cursor..Len(seeds) : r.cursor + 1..s \subseteq due}
             last == Max(reach)
             f == CHOOSE f : f = [s \in r.cursor..last |->
                                    IF s = r.cursor THEN r ELSE ActivateSignal(f[s - 1], s)]
  <1>1. ActivateWhile(r, due) = f[last]
    BY Zenon DEF ActivateWhile
  <1>2. r.cursor \in reach
    OBVIOUS
  <1>3. last \in reach /\ \A s \in reach : last >= s
    <2>1. reach \subseteq 0..Len(seeds)
      OBVIOUS
    <2> HIDE DEF reach
    <2>. QED
      BY <1>2, <2>1, MaxIs
  <1>4. last < Len(seeds) => last + 1 \notin due
    <2>. SUFFICES ASSUME last < Len(seeds), last + 1 \in due PROVE FALSE
      OBVIOUS
    <2> HIDE DEF last
    <2>1. last + 1 \in reach
      BY <1>3
    <2>. QED
      BY <1>3, <2>1
  <1>5. last \in r.cursor..Len(seeds) /\ r.cursor + 1..last \subseteq due
    BY <1>3
  <1>6. \E g : g = [s \in r.cursor..last |->
                   IF s = r.cursor THEN r ELSE ActivateSignal(g[s - 1], s)]
    <2> HIDE DEF last
    <2>1. r.cursor \in Nat /\ last \in Nat /\ r.cursor <= last
      BY <1>5
    <2>2. PICK g : Activations(g, r, r.cursor, last, FALSE)
      BY <2>1, ActivationsExist
    <2>3. \A s : Activated(g[s - 1], s, FALSE) = ActivateSignal(g[s - 1], s)
      BY DEF Activated
    <2>4. g = [s \in r.cursor..last |-> IF s = r.cursor THEN r ELSE ActivateSignal(g[s - 1], s)]
      BY <2>2, <2>3 DEF Activations
    <2>. QED
      BY <2>4
  <1>7. f = [s \in r.cursor..last |-> IF s = r.cursor THEN r ELSE ActivateSignal(f[s - 1], s)]
    BY <1>6, Zenon
  <1> HIDE DEF f, last, reach
  <1>8. \A s \in r.cursor..last : f[s] = IF s = r.cursor THEN r ELSE ActivateSignal(f[s - 1], s)
    BY <1>7
  <1>. QED
    BY <1>1, <1>4, <1>5, <1>8

\* The signals for which the first n events are the past.
Decided(s, n) ==
  /\ \A i \in 1..n : Time(i) <= seeds[s].ts
  /\ \A i \in n + 1..Len(stream) : ~(Time(i) <= seeds[s].ts)

LEMMA LatestIs ==
  ASSUME NEW r, NEW n, Observed(r, n), NEW c \in Contracts
  PROVE  r.latest[c] = LastOf({i \in 1..n : stream[i].contract = c})
BY DEF Observed

\* A new reservation has met no event.
LEMMA ActivateRoutes ==
  ASSUME seeds \in SeedLists, stream \in Seq(Quote), NEW n \in 0..Len(stream),
         NEW r, IsReplay(r), Observed(r, n), NEW s \in Signals, NEW q, q = ActivateSignal(r, s),
         EnRoutes(r, n), NEW over, Routed(r, n, over)
  PROVE  EnRoutes(q, n) /\ Routed(q, n, over)
  <1> DEFINE c == seeds[s].contract
             quote == r.latest[c]
             failure == GateFailure(r, s)
             passed == failure = ""
             pairs == {w \in Scenarios \X Cells : w[2] \in FreeCells(r, s, w[1])}
             skips == {Skipped(s, w[1], w[2], quote, r.occupied[Slot(s, w[1], w[2])]) :
                         w \in (Scenarios \X Cells) \ pairs}
             refusals == {NotFilled(s, w[1], w[2], quote, failure, quote) : w \in pairs}
             entry(sc) == [signal |-> s, scenario |-> sc, cells |-> FreeCells(r, s, sc),
                           decision |-> quote, gate |-> quote]
             entries == {entry(sc) : sc \in {sc \in Scenarios : FreeCells(r, s, sc) # {}}}
             taken == Occupy(r.occupied, UNION {SlotsOf(s, p.scenario, p.cells) : p \in entries}, s)
  <1>1. q = IF ~passed
            THEN [r EXCEPT !.records = @ \cup skips \cup refusals, !.cursor = s]
            ELSE [r EXCEPT !.records = @ \cup skips, !.cursor = s,
                           !.pending = @ \cup entries, !.occupied = taken]
    BY Zenon DEF ActivateSignal
  <1>2. \A x \in skips : x.status = "SKIPPED_OCCUPIED"
    BY SkippedIs
  <1>3. \A x \in refusals : x.failure = x.decision /\ x.status = "ENTRY_NOT_FILLED"
    BY NotFilledIs
  <1>4. c \in Contracts /\ n \in Nat /\ Len(stream) \in Nat
    BY SeedTypes, StreamTypes
  <1>5. quote = LastOf({i \in 1..n : stream[i].contract = c})
    <2> HIDE DEF c
    <2>. QED
      BY <1>4, LatestIs
  <1>6. passed => quote # 0 /\ Valid(quote) /\ c \notin r.terminated
    BY Zenon DEF GateFailure
  <1> HIDE DEF passed, skips, refusals
  <1>7. ASSUME passed, NEW p \in entries
        PROVE  EnRoute(p, n)
    <2>1. p.signal = s /\ p.decision = quote /\ p.gate = quote
      <3> HIDE DEF quote
      <3>. QED
        BY <1>7
    <2> DEFINE past == {i \in 1..n : stream[i].contract = c}
    <2>2. past # {} => quote \in past /\ \A k \in past : quote >= k
      <3>1. past \subseteq 1..n
        OBVIOUS
      <3>2. quote = LastOf(past)
        BY <1>5
      <3> HIDE DEF past, quote
      <3>. QED
        BY <1>4, <3>1, <3>2, LastOfIs
    <2>3. past # {}
      <3>1. LastOf({}) = 0
        BY DEF LastOf
      <3>. QED
        BY <1>5, <1>6, <1>7, <3>1
    <2>4. ~stream[quote].terminal
      <3>1. \A i \in 1..n : stream[i].contract = c => ~stream[i].terminal
        BY <1>4, <1>6, <1>7 DEF Observed
      <3>. QED
        BY <2>2, <2>3, <3>1
    <2>5. quote \in 1..n /\ \A k \in quote + 1..n : stream[k].contract # c
      <3>1. quote \in 1..n
        BY <2>2, <2>3
      <3> HIDE DEF quote
      <3>2. \A k \in quote + 1..n : k \in 1..n /\ ~(quote >= k)
        BY <1>4, <3>1
      <3>. QED
        BY <2>2, <2>3, <3>1, <3>2
    <2>6. Way(p, n) = {} /\ Gates(p, n) = {quote}
      <3>1. Way(p, n) = {k \in quote + 1..n : stream[k].contract = c}
        BY <2>1 DEF Way
      <3>. QED
        BY <2>1, <2>5, <3>1 DEF Gates
    <2> HIDE DEF quote
    <2>7. quote <= quote
      BY <2>5
    <2>. QED
      BY <1>6, <1>7, <2>1, <2>4, <2>5, <2>6, <2>7 DEF EnRoute
  <1> HIDE DEF quote, failure, skips, refusals, entries, taken, c
  <1>8. CASE ~passed
    <2>1. q = [r EXCEPT !.records = @ \cup skips \cup refusals, !.cursor = s]
      BY <1>1, <1>8
    <2>2. q.pending = r.pending /\ q.groups = r.groups /\ q.records = r.records \cup skips \cup refusals
      BY <2>1 DEF IsReplay
    <2>. QED
      BY <1>2, <1>3, <2>2 DEF EnRoutes, Routed
  <1>9. CASE passed
    <2>1. q = [r EXCEPT !.records = @ \cup skips, !.cursor = s,
                        !.pending = @ \cup entries, !.occupied = taken]
      BY <1>1, <1>9
    <2>2. q.pending = r.pending \cup entries /\ q.groups = r.groups /\ q.records = r.records \cup skips
      BY <2>1 DEF IsReplay
    <2>. QED
      BY <1>2, <1>7, <1>9, <2>2 DEF EnRoutes, Routed
  <1>. QED
    BY <1>8, <1>9

LEMMA ActivateWhileKeeps ==
  ASSUME seeds \in SeedLists, stream \in Seq(Quote), NEW n \in 0..Len(stream),
         NEW r, Core(r, n), Observed(r, n), NEW over, Traced(r, n, over),
         NEW due, \A s \in due : s > r.cursor => Decided(s, n),
         NEW q, q = ActivateWhile(r, due)
  PROVE  /\ Core(q, n) /\ Observed(q, n) /\ Traced(q, n, over)
         /\ q.cursor \in r.cursor..Len(seeds)
         /\ \A s \in r.cursor + 1..q.cursor : s \in due
         /\ q.cursor < Len(seeds) => q.cursor + 1 \notin due
  <1>1. r.cursor \in 0..Len(seeds) /\ Len(seeds) \in Nat /\ Signals = 1..Len(seeds)
        /\ Len(stream) \in Nat /\ n \in Nat
    BY SeedTypes DEF Core, Shaped
  <1>2. PICK f, last :
          /\ last \in r.cursor..Len(seeds) /\ r.cursor + 1..last \subseteq due
          /\ last < Len(seeds) => last + 1 \notin due
          /\ \A s \in r.cursor..last : f[s] = IF s = r.cursor THEN r ELSE ActivateSignal(f[s - 1], s)
          /\ q = f[last]
    BY <1>1, ActivateWhileIs
  <1> DEFINE P(s) == /\ Core(f[s], n) /\ f[s].cursor = s /\ Traced(f[s], n, over)
                     /\ f[s].latest = r.latest /\ f[s].terminated = r.terminated
             Bad == {s \in r.cursor..last : ~P(s)}
  <1>3. P(r.cursor)
    BY <1>1, <1>2
  <1>4. ASSUME NEW s \in r.cursor + 1..last, P(s - 1) PROVE P(s)
    <2>1. s \in due /\ s \in Signals /\ s \in r.cursor..last /\ s # r.cursor
      BY <1>1, <1>2
    <2>2. f[s] = ActivateSignal(f[s - 1], s)
      BY <1>2, <2>1
    <2>3. Decided(s, n)
      BY <1>1, <2>1
    <2>4. r.latest[seeds[s].contract] = SeenBy(s) /\ SeenBy(s) \in 0..n
      <3>1. seeds[s].contract \in Contracts
        BY <2>1, SeedTypes
      <3>2. r.latest[seeds[s].contract] = LastOf({i \in 1..n : stream[i].contract = seeds[s].contract})
        BY <3>1, LatestIs
      <3>. QED
        BY <2>3, <3>2, SeenIs DEF Decided
    <2>5. s = f[s - 1].cursor + 1
      BY <1>4, <2>1
    <2>6. /\ Core(f[s - 1], n) /\ f[s - 1].latest = r.latest /\ f[s - 1].terminated = r.terminated
          /\ Traced(f[s - 1], n, over)
      BY <1>4
    <2> HIDE DEF P, Bad
    <2>7. /\ Core(f[s], n) /\ f[s].cursor = s
          /\ f[s].latest = f[s - 1].latest /\ f[s].terminated = f[s - 1].terminated
      BY <1>1, <2>1, <2>2, <2>3, <2>4, <2>5, <2>6, ActivateKeeps DEF Decided
    <2>8. Traced(f[s], n, over)
      <3>1. PICK before : before = f[s - 1]
        OBVIOUS
      <3>2. PICK after : after = f[s]
        OBVIOUS
      <3>3. IsReplay(before) /\ Observed(before, n) /\ Traced(before, n, over)
        BY <2>6, <3>1 DEF Core, Shaped, Observed
      <3>4. Traced(after, n, over)
        BY <2>1, <2>2, <3>1, <3>2, <3>3, ActivateRoutes DEF Traced
      <3>. QED
        BY <3>2, <3>4
    <2>. QED
      BY <2>6, <2>7, <2>8 DEF P
  <1>5. Bad = {}
    <2>. SUFFICES ASSUME Bad # {} PROVE FALSE
      OBVIOUS
    <2>1. Bad \subseteq Nat
      BY <1>1
    <2>2. PICK k \in Bad : \A j \in Bad : k <= j
      <3> HIDE DEF Bad
      <3>. QED
        BY <2>1, Least
    <2>3. k \in r.cursor..last /\ ~P(k)
      OBVIOUS
    <2>4. k # r.cursor
      BY <1>3, <2>3
    <2>5. k \in r.cursor + 1..last /\ k - 1 \in r.cursor..last /\ ~(k <= k - 1)
      <3> HIDE DEF P, Bad
      <3>. QED
        BY <1>1, <1>2, <2>3, <2>4
    <2>6. P(k - 1)
      <3> HIDE DEF P
      <3>1. k - 1 \notin Bad
        BY <2>2, <2>5, Zenon
      <3>. QED
        BY <2>5, <3>1
    <2>. QED
      BY <1>4, <2>3, <2>5, <2>6
  <1>6. P(last)
    <2> HIDE DEF P
    <2>. QED
      BY <1>2, <1>5
  <1>7. /\ Core(q, n) /\ Traced(q, n, over)
        /\ q.cursor = last /\ q.latest = r.latest /\ q.terminated = r.terminated
    BY <1>2, <1>6
  <1>8. Observed(q, n)
    BY <1>7 DEF Observed
  <1>. QED
    BY <1>2, <1>7, <1>8

-----------------------------------------------------------------------------
(* Advancing one position group.                                           *)

LEMMA FirstAmong ==
  ASSUME NEW n \in Nat, NEW events, events \subseteq 1..n, NEW S, S \subseteq events
  PROVE  /\ FirstOf(S) \in 0..n /\ (FirstOf(S) # 0 => FirstOf(S) \in S)
         /\ (S # {} => FirstOf(S) # 0)
  <1>1. S \subseteq 1..n /\ S \subseteq Nat \ {0}
    OBVIOUS
  <1>2. (FirstOf(S) = 0 <=> S = {}) /\ (S # {} => FirstOf(S) \in S)
    BY <1>1, FirstOfIs
  <1>3. FirstOf(S) # 0 => FirstOf(S) \in S
    BY <1>2
  <1>4. FirstOf(S) # 0 => FirstOf(S) \in 1..n
    BY <1>1, <1>3
  <1>. QED
    BY <1>2, <1>3, <1>4

LEMMA ExitIs ==
  ASSUME NEW g, NEW cell, NEW trigger, NEW outcome, NEW fill, NEW price, NEW x,
         x = Exit(g, cell, trigger, outcome, fill, price)
  PROVE  /\ Identity(x) = <<g.signal, g.scenario, cell>> /\ x.status = "ENTRY_FILLED"
         /\ x.cell = cell /\ x.decision = g.decision /\ x.failure = 0 /\ x.entry = g.entry
         /\ x.fill = fill /\ x.signal = g.signal /\ x.scenario = g.scenario
BY DEF Exit, Result, Identity

\* What a group keeps of its first n events.
GroupShape(g, n) ==
  /\ g = [signal |-> g.signal, scenario |-> g.scenario, active |-> g.active,
          decision |-> g.decision, entry |-> g.entry, price |-> g.price,
          triggers |-> g.triggers, censored |-> g.censored, censor |-> g.censor]
  /\ g.signal \in Signals /\ g.scenario \in Scenarios
  /\ g.active \in SUBSET Cells
  /\ g.decision \in 1..n /\ g.entry \in 1..n
  /\ g.triggers \in [Grid -> 0..n] /\ g.censored \in SUBSET Cells

\* a is g after it gave cells up, each with its one exit at one of the events.
GivesUp(g, a, events, n) ==
  /\ GroupShape(a.group, n)
  /\ a.group.signal = g.signal /\ a.group.scenario = g.scenario
  /\ a.group.decision = g.decision /\ a.group.entry = g.entry
  /\ a.group.active \subseteq g.active
  /\ \A x \in a.exits : /\ x.signal = g.signal /\ x.scenario = g.scenario
                        /\ x.status = "ENTRY_FILLED" /\ x.decision = g.decision
                        /\ x.failure = 0 /\ x.entry = g.entry /\ x.fill \in events
                        /\ x.cell \in g.active \ a.group.active
  /\ \A cell \in g.active \ a.group.active : \E x \in a.exits : x.cell = cell
  /\ \A x, y \in a.exits : x.cell = y.cell => x = y
  /\ (\E i \in events : stream[i].terminal) => a.group.active = {}

LEMMA AdvanceGivesUp ==
  ASSUME NEW n \in Nat, NEW g, GroupShape(g, n), NEW events, events \subseteq 1..n,
         NEW a, a = AdvancePositionGroup(g, events)
  PROVE  GivesUp(g, a, events, n)
  <1> DEFINE side == Side(g.signal)
             rules == Scenario[g.scenario]
             terminal == FirstOf({i \in events : stream[i].terminal})
             quotes == {i \in events : Valid(i) /\ ~stream[i].terminal}
             filledBy == [sl \in Grid |-> RoutedFill(g, sl, events)]
             stopFill(sl) ==
               LET limit == Worse(side, Worse(side, g.price, sl), rules.stopAdverse)
                   observed == Executable(filledBy[sl], side)
               IN  IF side = "LONG" THEN Min({observed, limit}) ELSE Max({observed, limit})
             stopped == {cell \in g.active : filledBy[cell[2]] # 0}
             open == g.active \ stopped
             triggers == [sl \in Grid |->
               IF filledBy[sl] # 0 \/ ~\E cell \in open : cell[2] = sl THEN 0
               ELSE IF g.triggers[sl] # 0 THEN g.triggers[sl]
               ELSE FirstOf({i \in quotes : sl <= Loss(side, g.price, Executable(i, side))})]
             hit == [tp \in Grid |-> FirstOf({i \in quotes :
                       tp <= -Loss(side, g.price, Executable(i, side)) - rules.tradeThrough})]
             won == {cell \in open : triggers[cell[2]] = 0 /\ hit[cell[1]] # 0}
             left == open \ won
             liquidation == Worse(side, Executable(terminal, side), rules.terminalAdverse)
             closed == IF terminal # 0 THEN left ELSE {}
             stops == {Exit(g, cell, g.triggers[cell[2]], "STOP_FIRST",
                            filledBy[cell[2]], stopFill(cell[2])) : cell \in stopped}
             wins == {Exit(g, cell, 0, "TP_FIRST", hit[cell[1]],
                           Better(side, g.price, cell[1])) : cell \in won}
             ends == {Exit(g, cell, triggers[cell[2]], "TERMINAL_EXIT", terminal, liquidation) :
                        cell \in closed}
  <1>1. a = [group |-> [g EXCEPT !.triggers = triggers,
                                 !.active = IF terminal # 0 THEN {} ELSE left],
             exits |-> stops \cup wins \cup ends]
    BY Zenon DEF AdvancePositionGroup
  <1>2. terminal \in 0..n /\ (terminal # 0 => terminal \in events)
        /\ ((\E i \in events : stream[i].terminal) => terminal # 0)
    <2> DEFINE S == {i \in events : stream[i].terminal}
    <2>1. S \subseteq events /\ ((\E i \in events : stream[i].terminal) => S # {})
      BY Zenon
    <2> HIDE DEF S
    <2>2. FirstOf(S) \in 0..n /\ (FirstOf(S) # 0 => FirstOf(S) \in S) /\ (S # {} => FirstOf(S) # 0)
      BY <2>1, FirstAmong
    <2>. QED
      BY <2>1, <2>2 DEF S
  <1>3. \A sl \in Grid : filledBy[sl] \in 0..n /\ (filledBy[sl] # 0 => filledBy[sl] \in events)
    <2>. SUFFICES ASSUME NEW sl \in Grid
                  PROVE  RoutedFill(g, sl, events) \in 0..n
                         /\ (RoutedFill(g, sl, events) # 0 => RoutedFill(g, sl, events) \in events)
      BY Zenon
    <2> DEFINE S == {i \in events : Valid(i) /\ Time(i) >= Time(g.triggers[sl]) + Scenario[g.scenario].stopLatency}
    <2>1. S \subseteq events
      BY Zenon
    <2>2. RoutedFill(g, sl, events) = IF g.triggers[sl] = 0 THEN 0 ELSE FirstOf(S)
      BY Zenon DEF RoutedFill
    <2> HIDE DEF S
    <2>3. FirstOf(S) \in 0..n /\ (FirstOf(S) # 0 => FirstOf(S) \in S)
      BY <2>1, FirstAmong
    <2>. QED
      BY <2>1, <2>2, <2>3
  <1>4. quotes \subseteq events
    BY Zenon
  <1>5. triggers \in [Grid -> 0..n]
    <2>. SUFFICES ASSUME NEW sl \in Grid PROVE triggers[sl] \in 0..n
      BY Zenon
    <2> DEFINE S == {i \in quotes : sl <= Loss(side, g.price, Executable(i, side))}
    <2>1. S \subseteq quotes
      BY Zenon
    <2>2. triggers[sl] = 0 \/ triggers[sl] = g.triggers[sl] \/ triggers[sl] = FirstOf(S)
      BY Zenon
    <2> HIDE DEF S, quotes, triggers
    <2>3. FirstOf(S) \in 0..n
      BY <1>4, <2>1, FirstAmong
    <2>4. g.triggers[sl] \in 0..n
      BY DEF GroupShape
    <2>. QED
      BY <2>2, <2>3, <2>4
  <1>6. \A tp \in Grid : hit[tp] # 0 => hit[tp] \in events
    <2>. SUFFICES ASSUME NEW tp \in Grid PROVE hit[tp] # 0 => hit[tp] \in events
      BY Zenon
    <2> DEFINE S == {i \in quotes : tp <= -Loss(side, g.price, Executable(i, side)) - rules.tradeThrough}
    <2>1. S \subseteq quotes /\ hit[tp] = FirstOf(S)
      BY Zenon
    <2> HIDE DEF S, quotes, hit
    <2>2. FirstOf(S) # 0 => FirstOf(S) \in S
      BY <1>4, <2>1, FirstAmong
    <2>. QED
      BY <1>4, <2>1, <2>2
  <1>7. g.active \subseteq Cells /\ \A cell \in Cells : cell[1] \in Grid /\ cell[2] \in Grid
    BY DEF GroupShape, Cells
  <1>8. /\ stopped \subseteq g.active /\ won \subseteq g.active \ stopped
        /\ \A cell \in stopped : filledBy[cell[2]] # 0
        /\ \A cell \in won : hit[cell[1]] # 0
        /\ left = (g.active \ stopped) \ won
        /\ closed = IF terminal # 0 THEN left ELSE {}
    BY Zenon
  <1> HIDE DEF side, rules, terminal, quotes, filledBy, stopFill, stopped, open, triggers, hit, won,
               left, liquidation, closed
  <1>9. /\ a.group = [g EXCEPT !.triggers = triggers, !.active = IF terminal # 0 THEN {} ELSE left]
        /\ a.exits = stops \cup wins \cup ends
    <2> HIDE DEF stops, wins, ends
    <2>. QED
      BY <1>1
  <1>10. GroupShape(a.group, n) /\ a.group.signal = g.signal /\ a.group.scenario = g.scenario
         /\ a.group.decision = g.decision /\ a.group.entry = g.entry
         /\ a.group.active = (IF terminal # 0 THEN {} ELSE left)
    <2> HIDE DEF stops, wins, ends
    <2> DEFINE active == IF terminal # 0 THEN {} ELSE left
    <2>1. active \subseteq Cells
      BY <1>7, <1>8
    <2>2. a.group = [g EXCEPT !.triggers = triggers, !.active = active]
      BY <1>9
    <2> HIDE DEF active
    <2>3. a.group = [signal |-> g.signal, scenario |-> g.scenario, active |-> active,
                     decision |-> g.decision, entry |-> g.entry, price |-> g.price,
                     triggers |-> triggers, censored |-> g.censored, censor |-> g.censor]
      BY <2>2 DEF GroupShape
    <2>4. GroupShape(a.group, n)
      BY <1>5, <2>1, <2>3 DEF GroupShape
    <2>. QED
      BY <2>3, <2>4 DEF active
  <1>11. g.active \ a.group.active = stopped \cup won \cup closed
         /\ closed \subseteq (g.active \ stopped) \ won
    BY <1>8, <1>10
  <1>12. ASSUME NEW x \in stops
         PROVE  /\ x.signal = g.signal /\ x.scenario = g.scenario
                /\ x.status = "ENTRY_FILLED" /\ x.decision = g.decision
                /\ x.failure = 0 /\ x.entry = g.entry /\ x.fill \in events
                /\ x.cell \in stopped
                /\ x = Exit(g, x.cell, g.triggers[x.cell[2]], "STOP_FIRST",
                            filledBy[x.cell[2]], stopFill(x.cell[2]))
    <2>1. PICK cell \in stopped : x = Exit(g, cell, g.triggers[cell[2]], "STOP_FIRST",
                                           filledBy[cell[2]], stopFill(cell[2]))
      BY Zenon
    <2> HIDE DEF stops, wins, ends
    <2>2. /\ x.signal = g.signal /\ x.scenario = g.scenario
          /\ x.status = "ENTRY_FILLED" /\ x.decision = g.decision
          /\ x.failure = 0 /\ x.entry = g.entry /\ x.fill = filledBy[cell[2]] /\ x.cell = cell
      BY <2>1, ExitIs
    <2>3. filledBy[cell[2]] \in events
      BY <1>3, <1>7, <1>8
    <2>. QED
      BY <2>1, <2>2, <2>3
  <1>13. ASSUME NEW x \in wins
         PROVE  /\ x.signal = g.signal /\ x.scenario = g.scenario
                /\ x.status = "ENTRY_FILLED" /\ x.decision = g.decision
                /\ x.failure = 0 /\ x.entry = g.entry /\ x.fill \in events
                /\ x.cell \in won
                /\ x = Exit(g, x.cell, 0, "TP_FIRST", hit[x.cell[1]],
                            Better(side, g.price, x.cell[1]))
    <2>1. PICK cell \in won : x = Exit(g, cell, 0, "TP_FIRST", hit[cell[1]],
                                       Better(side, g.price, cell[1]))
      BY Zenon
    <2> HIDE DEF stops, wins, ends
    <2>2. /\ x.signal = g.signal /\ x.scenario = g.scenario
          /\ x.status = "ENTRY_FILLED" /\ x.decision = g.decision
          /\ x.failure = 0 /\ x.entry = g.entry /\ x.fill = hit[cell[1]] /\ x.cell = cell
      BY <2>1, ExitIs
    <2>3. hit[cell[1]] \in events
      BY <1>6, <1>7, <1>8
    <2>. QED
      BY <2>1, <2>2, <2>3
  <1>14. ASSUME NEW x \in ends
         PROVE  /\ x.signal = g.signal /\ x.scenario = g.scenario
                /\ x.status = "ENTRY_FILLED" /\ x.decision = g.decision
                /\ x.failure = 0 /\ x.entry = g.entry /\ x.fill \in events
                /\ x.cell \in closed
                /\ x = Exit(g, x.cell, triggers[x.cell[2]], "TERMINAL_EXIT", terminal, liquidation)
    <2>1. PICK cell \in closed :
            x = Exit(g, cell, triggers[cell[2]], "TERMINAL_EXIT", terminal, liquidation)
      BY Zenon
    <2> HIDE DEF stops, wins, ends
    <2>2. /\ x.signal = g.signal /\ x.scenario = g.scenario
          /\ x.status = "ENTRY_FILLED" /\ x.decision = g.decision
          /\ x.failure = 0 /\ x.entry = g.entry /\ x.fill = terminal /\ x.cell = cell
      BY <2>1, ExitIs
    <2>3. terminal # 0
      BY <1>8
    <2>. QED
      BY <1>2, <2>1, <2>2, <2>3
  <1> HIDE DEF stops, wins, ends
  <1>15. ASSUME NEW cell \in g.active \ a.group.active PROVE \E x \in a.exits : x.cell = cell
    <2>1. CASE cell \in stopped
      <3> DEFINE x == Exit(g, cell, g.triggers[cell[2]], "STOP_FIRST", filledBy[cell[2]],
                           stopFill(cell[2]))
      <3>1. x \in stops
        BY <2>1, Zenon DEF stops
      <3>2. x.cell = cell
        BY ExitIs
      <3>. QED
        BY <1>9, <3>1, <3>2, Zenon
    <2>2. CASE cell \in won
      <3> DEFINE x == Exit(g, cell, 0, "TP_FIRST", hit[cell[1]], Better(side, g.price, cell[1]))
      <3>1. x \in wins
        BY <2>2, Zenon DEF wins
      <3>2. x.cell = cell
        BY ExitIs
      <3>. QED
        BY <1>9, <3>1, <3>2, Zenon
    <2>3. CASE cell \in closed
      <3> DEFINE x == Exit(g, cell, triggers[cell[2]], "TERMINAL_EXIT", terminal, liquidation)
      <3>1. x \in ends
        BY <2>3, Zenon DEF ends
      <3>2. x.cell = cell
        BY ExitIs
      <3>. QED
        BY <1>9, <3>1, <3>2, Zenon
    <2>. QED
      BY <1>11, <2>1, <2>2, <2>3
  <1>16. ASSUME NEW x \in a.exits, NEW y \in a.exits, x.cell = y.cell PROVE x = y
    <2>1. x \in stops \/ x \in wins \/ x \in ends
      BY <1>9
    <2>2. y \in stops \/ y \in wins \/ y \in ends
      BY <1>9
    <2>3. x \in stops <=> x.cell \in stopped
      BY <1>8, <1>11, <1>12, <1>13, <1>14, <2>1
    <2>4. y \in stops <=> x.cell \in stopped
      BY <1>8, <1>11, <1>12, <1>13, <1>14, <1>16, <2>2
    <2>5. CASE x.cell \in stopped
      BY <1>12, <1>16, <2>3, <2>4, <2>5, Zenon
    <2>6. CASE x.cell \in won
      <3>1. x \in wins /\ y \in wins
        BY <1>8, <1>11, <1>14, <1>16, <2>1, <2>2, <2>3, <2>4, <2>6
      <3>. QED
        BY <1>13, <1>16, <3>1, Zenon
    <2>7. CASE x.cell \notin stopped /\ x.cell \notin won
      <3>1. x \in ends /\ y \in ends
        BY <1>13, <1>16, <2>1, <2>2, <2>3, <2>4, <2>7
      <3>. QED
        BY <1>14, <1>16, <3>1, Zenon
    <2>. QED
      BY <2>5, <2>6, <2>7
  <1>17. (\E i \in events : stream[i].terminal) => a.group.active = {}
    BY <1>2, <1>10
  <1>18. \A x \in a.exits :
           /\ x.signal = g.signal /\ x.scenario = g.scenario
           /\ x.status = "ENTRY_FILLED" /\ x.decision = g.decision
           /\ x.failure = 0 /\ x.entry = g.entry /\ x.fill \in events
           /\ x.cell \in g.active \ a.group.active
    BY <1>9, <1>11, <1>12, <1>13, <1>14
  <1>19. a.group.active \subseteq g.active
    BY <1>8, <1>10
  <1>. QED
    BY <1>10, <1>15, <1>16, <1>17, <1>18, <1>19 DEF GivesUp

-----------------------------------------------------------------------------
(* Claims that give up cells.                                              *)

Claims(r) == r.pending \cup r.groups
HeldBy(r, d) == IF d \in r.pending THEN d.cells ELSE d.active

LEMMA ClaimIs ==
  ASSUME NEW r, NEW n, Shaped(r, n), NEW d \in Claims(r)
  PROVE  /\ d.signal \in Signals /\ d.scenario \in Scenarios
         /\ HeldBy(r, d) \subseteq Cells /\ HeldBy(r, d) # {}
  <1>1. CASE d \in r.pending
    BY <1>1 DEF Shaped, PendingOf, HeldBy
  <1>2. CASE d \notin r.pending
    BY <1>2 DEF Shaped, GroupOf, HeldBy, Claims
  <1>. QED
    BY <1>1, <1>2

\* A pending entry is no position.
LEMMA KindsDiffer ==
  ASSUME NEW d, NEW m, NEW n, PendingOf(d, m), GroupOf(d, n)
  PROVE  FALSE
  <1>1. DOMAIN d = {"signal", "scenario", "cells", "decision", "gate"}
    BY DEF PendingOf
  <1>2. "entry" \in DOMAIN d
    BY DEF GroupOf
  <1>. QED
    BY <1>1, <1>2

LEMMA ClaimKinds ==
  ASSUME NEW r, NEW n, \A p \in r.pending : PendingOf(p, n), \A g \in r.groups : GroupOf(g, n)
  PROVE  r.pending \cap r.groups = {}
BY KindsDiffer

LEMMA HoldsIs ==
  ASSUME NEW r, NEW n, Shaped(r, n), NEW id
  PROVE  Holds(r, id) <=> \E d \in Claims(r) :
           d.signal = id[1] /\ d.scenario = id[2] /\ id[3] \in HeldBy(r, d)
BY ClaimKinds DEF Holds, Claims, HeldBy, Shaped

\* Every claim is split into the cells left to it and those it gives up, each with
\* one exit.
Parts(r, left, exits) ==
  \A d \in Claims(r) :
    /\ left[d] \subseteq HeldBy(r, d)
    /\ \A x \in exits[d] : /\ x.signal = d.signal /\ x.scenario = d.scenario
                           /\ x.cell \in HeldBy(r, d) \ left[d]
    /\ \A cell \in HeldBy(r, d) \ left[d] : \E x \in exits[d] : x.cell = cell
    /\ \A x, y \in exits[d] : x.cell = y.cell => x = y

AllOf(r, exits) == UNION {exits[d] : d \in Claims(r)}

\* q holds what is left.
Remains(r, q, left) ==
  \A id \in Identities : Holds(q, id) <=> \E d \in Claims(r) :
    d.signal = id[1] /\ d.scenario = id[2] /\ id[3] \in left[d]

LEMMA GivingUp ==
  ASSUME NEW r, NEW n, Shaped(r, n), Sole(r), NEW q, NEW left, NEW exits, NEW results,
         results = AllOf(r, exits),
         Parts(r, left, exits),
         Remains(r, q, left)
  PROVE  /\ Ids(results) \subseteq Live(r) /\ Live(q) = Live(r) \ Ids(results)
         /\ \A x, y \in results : Identity(x) = Identity(y) => x = y
  <1>. USE DEF Parts, Remains, AllOf
  <1>1. \A x \in results : \E d \in Claims(r) : x \in exits[d]
    OBVIOUS
  <1>2. \A d \in Claims(r) : \A x \in exits[d] : x \in results
    OBVIOUS
  <1>3. \A d, e \in Claims(r) : d.signal = e.signal /\ d.scenario = e.scenario => d = e
    BY DEF Sole, Claims
  <1>4. \A x : Identity(x) = <<x.signal, x.scenario, x.cell>>
    BY DEF Identity
  <1>5. \A id \in Identities : Holds(r, id) <=> \E d \in Claims(r) :
           d.signal = id[1] /\ d.scenario = id[2] /\ id[3] \in HeldBy(r, d)
    BY HoldsIs
  <1>6. ASSUME NEW x \in results
        PROVE  /\ Identity(x) \in Live(r) /\ ~Holds(q, Identity(x))
    <2>1. PICK d \in Claims(r) : x \in exits[d]
      BY <1>1
    <2>2. /\ x.signal = d.signal /\ x.scenario = d.scenario
          /\ x.cell \in HeldBy(r, d) /\ x.cell \notin left[d]
      BY <2>1
    <2>3. d.signal \in Signals /\ d.scenario \in Scenarios /\ HeldBy(r, d) \subseteq Cells
      BY ClaimIs
    <2>4. Identity(x) \in Identities
      BY <1>4, <2>2, <2>3 DEF Identities
    <2>5. Holds(r, Identity(x))
      BY <1>4, <1>5, <2>2, <2>4
    <2>6. ~Holds(q, Identity(x))
      BY <1>3, <1>4, <2>2, <2>4
    <2>. QED
      BY <2>4, <2>5, <2>6 DEF Live
  <1>7. ASSUME NEW id \in Live(r), ~Holds(q, id) PROVE id \in Ids(results)
    <2>1. id \in Identities /\ Holds(r, id)
      BY DEF Live
    <2>2. PICK d \in Claims(r) : d.signal = id[1] /\ d.scenario = id[2] /\ id[3] \in HeldBy(r, d)
      BY <1>5, <2>1
    <2>3. id[3] \notin left[d]
      BY <1>7, <2>1, <2>2
    <2>4. PICK x \in exits[d] : x.cell = id[3]
      BY <2>2, <2>3
    <2>5. x \in results /\ x.signal = id[1] /\ x.scenario = id[2]
      BY <1>2, <2>2, <2>4
    <2>6. id = <<id[1], id[2], id[3]>>
      BY <2>1 DEF Identities
    <2>7. Identity(x) = <<x.signal, x.scenario, x.cell>>
      BY <1>4
    <2>8. Identity(x) = id
      BY <2>4, <2>5, <2>6, <2>7, Zenon
    <2>. QED
      BY <2>5, <2>8, Zenon DEF Ids
  <1>8. \A id \in Identities : Holds(q, id) => Holds(r, id)
    BY <1>5
  <1>9. ASSUME NEW x \in results, NEW y \in results, Identity(x) = Identity(y) PROVE x = y
    <2>1. x.signal = y.signal /\ x.scenario = y.scenario /\ x.cell = y.cell
      BY <1>4, <1>9
    <2>2. PICK d \in Claims(r) : x \in exits[d]
      BY <1>1
    <2>3. PICK e \in Claims(r) : y \in exits[e]
      BY <1>1
    <2>4. d = e
      BY <1>3, <2>1, <2>2, <2>3
    <2>. QED
      BY <2>1, <2>2, <2>3, <2>4
  <1>10. Ids(results) \subseteq Live(r) /\ \A id \in Ids(results) : ~Holds(q, id)
    BY <1>6 DEF Ids
  <1>11. Live(q) = Live(r) \ Ids(results)
    BY <1>7, <1>8, <1>10 DEF Live
  <1>. QED
    BY <1>9, <1>10, <1>11

\* The exits are results the replay may record at event n.
Records(r, exits, n) ==
  \A d \in Claims(r) : \A x \in exits[d] :
    /\ x.status \in {"ENTRY_NOT_FILLED", "ENTRY_FILLED"}
    /\ x.decision = d.decision /\ x.failure \in 0..n
    /\ x.status = "ENTRY_FILLED" => x.entry \in 1..n /\ x.fill \in 1..n
    /\ x.status # "ENTRY_FILLED" => x.entry = 0
    /\ \A s \in x.signal + 1..r.cursor : HeldBeyond(x, seeds[s].ts)

\* A claim d with cells left goes on in q as after[d].
GoesOn(r, q, left, after, n) ==
  /\ q.pending \cup q.groups = {after[d] : d \in {d \in Claims(r) : left[d] # {}}}
  /\ \A d \in Claims(r) : left[d] # {} =>
       /\ after[d].signal = d.signal /\ after[d].scenario = d.scenario
       /\ after[d].decision = d.decision
       /\ \/ after[d] \in q.pending /\ after[d].cells = left[d]
          \/ after[d] \in q.groups /\ after[d].active = left[d]
  /\ (\A p \in q.pending : PendingOf(p, n)) /\ (\A g \in q.groups : GroupOf(g, n))

\* q is r with the results recorded and their cells freed.
Stored(r, q, results) ==
  /\ IsReplay(q) /\ q.cursor = r.cursor /\ q.latest = r.latest /\ q.terminated = r.terminated
  /\ q.records = r.records \cup results
  /\ q.occupied = Occupy(r.occupied, {SlotOf(id) : id \in Ids(results)}, 0)

LEMMA SettlesBy ==
  ASSUME seeds \in SeedLists, NEW r, NEW n \in Nat, Core(r, n), NEW q,
         NEW left, NEW exits, NEW after, NEW results, results = AllOf(r, exits),
         Parts(r, left, exits), Records(r, exits, n), GoesOn(r, q, left, after, n),
         Stored(r, q, results)
  PROVE  Settles(r, q, results, n)
  <1>1. Shaped(r, n) /\ Sole(r) /\ Sights(r)
    BY DEF Core
  <1>2. q.pending \cap q.groups = {}
    BY ClaimKinds DEF GoesOn
  <1>3. \A d \in Claims(r) : left[d] # {} => after[d] \in Claims(q) /\ HeldBy(q, after[d]) = left[d]
    BY <1>2 DEF Claims, HeldBy, GoesOn
  <1>4. \A e \in Claims(q) : \E d \in Claims(r) : left[d] # {} /\ e = after[d]
    <2>. SUFFICES ASSUME NEW e \in Claims(q)
                  PROVE  \E d \in Claims(r) : left[d] # {} /\ e = after[d]
      OBVIOUS
    <2>1. e \in {after[d] : d \in {d \in Claims(r) : left[d] # {}}}
      BY Zenon DEF Claims, GoesOn
    <2>. QED
      BY <2>1, Zenon
  <1>5. \A id : Holds(q, id) <=> \E e \in Claims(q) :
           e.signal = id[1] /\ e.scenario = id[2] /\ id[3] \in HeldBy(q, e)
    BY <1>2 DEF Holds, Claims, HeldBy
  <1>6. Remains(r, q, left)
    <2>. SUFFICES ASSUME NEW id \in Identities
                  PROVE  Holds(q, id) <=> \E d \in Claims(r) :
                           d.signal = id[1] /\ d.scenario = id[2] /\ id[3] \in left[d]
      BY DEF Remains
    <2>1. ASSUME Holds(q, id)
          PROVE  \E d \in Claims(r) : d.signal = id[1] /\ d.scenario = id[2] /\ id[3] \in left[d]
      <3>1. PICK e \in Claims(q) : e.signal = id[1] /\ e.scenario = id[2] /\ id[3] \in HeldBy(q, e)
        BY <1>5, <2>1
      <3>2. PICK d \in Claims(r) : left[d] # {} /\ e = after[d]
        BY <1>4
      <3>. QED
        BY <1>3, <3>1, <3>2 DEF GoesOn
    <2>2. ASSUME NEW d \in Claims(r), d.signal = id[1], d.scenario = id[2], id[3] \in left[d]
          PROVE  Holds(q, id)
      <3>1. left[d] # {}
        BY <2>2
      <3>2. after[d] \in Claims(q) /\ HeldBy(q, after[d]) = left[d]
            /\ after[d].signal = d.signal /\ after[d].scenario = d.scenario
        BY <1>3, <3>1 DEF GoesOn
      <3>. QED
        BY <1>5, <2>2, <3>2
    <2>. QED
      BY <2>1, <2>2
  <1>7. /\ Ids(results) \subseteq Live(r) /\ Live(q) = Live(r) \ Ids(results)
        /\ \A x, y \in results : Identity(x) = Identity(y) => x = y
    BY <1>1, <1>6, GivingUp
  <1>8. Sole(q)
    <2>. SUFFICES ASSUME NEW d \in Claims(q), NEW e \in Claims(q),
                         d.signal = e.signal, d.scenario = e.scenario
                  PROVE  d = e
      BY DEF Sole, Claims
    <2>1. PICK v \in Claims(r) : left[v] # {} /\ d = after[v]
      BY <1>4
    <2>2. PICK w \in Claims(r) : left[w] # {} /\ e = after[w]
      BY <1>4
    <2>3. v.signal = w.signal /\ v.scenario = w.scenario
      BY <2>1, <2>2 DEF GoesOn
    <2>4. v = w
      BY <1>1, <2>3 DEF Sole, Claims
    <2>. QED
      BY <2>1, <2>2, <2>4
  <1>9. ASSUME NEW x \in results
        PROVE  /\ ResultOf(x, n) /\ x.status # "SKIPPED_OCCUPIED"
               /\ x.decision = SeenBy(x.signal)
               /\ \A s \in x.signal + 1..r.cursor : HeldBeyond(x, seeds[s].ts)
    <2>1. PICK d \in Claims(r) : x \in exits[d]
      BY DEF AllOf
    <2>2. Identity(x) \in Identities
      <3>1. Identity(x) \in Ids(results)
        BY Zenon DEF Ids
      <3>. QED
        BY <1>7, <3>1, LiveIds
    <2>3. d.decision = SeenBy(d.signal) /\ x.signal = d.signal
      BY <1>1, <2>1 DEF Sights, Claims, Parts
    <2>4. d.decision \in 1..n
      BY <1>1 DEF Shaped, PendingOf, GroupOf, Claims
    <2>5. /\ x.status \in {"ENTRY_NOT_FILLED", "ENTRY_FILLED"}
          /\ x.decision = d.decision /\ x.failure \in 0..n
          /\ x.status = "ENTRY_FILLED" => x.entry \in 1..n /\ x.fill \in 1..n
          /\ x.status # "ENTRY_FILLED" => x.entry = 0
          /\ \A s \in x.signal + 1..r.cursor : HeldBeyond(x, seeds[s].ts)
      BY <2>1 DEF Records
    <2>. QED
      BY <2>2, <2>3, <2>4, <2>5 DEF ResultOf
  <1>10. \A d \in q.pending \cup q.groups : \E e \in r.pending \cup r.groups :
           d.signal = e.signal /\ d.decision = e.decision
    BY <1>4 DEF Claims, GoesOn
  <1>. QED
    BY <1>7, <1>8, <1>9, <1>10 DEF Settles, GoesOn, Stored

-----------------------------------------------------------------------------
(* The advance of the groups.                                              *)

LEMMA StoreIs ==
  ASSUME NEW r, IsReplay(r), NEW results
  PROVE  /\ Stored(r, StoreResults(r, results), results)
         /\ StoreResults(r, results).pending = r.pending
         /\ StoreResults(r, results).groups = r.groups
  <1> DEFINE slots == {Slot(x.signal, x.scenario, x.cell) : x \in results}
             records == r.records \cup results
             occupied == Occupy(r.occupied, slots, 0)
             q == StoreResults(r, results)
  <1>1. slots = {SlotOf(id) : id \in Ids(results)}
    <2>1. \A x : SlotOf(Identity(x)) = Slot(x.signal, x.scenario, x.cell)
      BY DEF SlotOf, Identity
    <2>2. ASSUME NEW x \in results PROVE Identity(x) \in Ids(results)
      BY Zenon DEF Ids
    <2>3. \A id \in Ids(results) : \E x \in results : id = Identity(x)
      BY Zenon DEF Ids
    <2>4. \A slot \in slots : \E id \in Ids(results) : slot = SlotOf(id)
      BY <2>1, <2>2
    <2>5. \A id \in Ids(results) : SlotOf(id) \in slots
      BY <2>1, <2>3
    <2> HIDE DEF slots
    <2>. QED
      BY <2>4, <2>5
  <1>2. q = [r EXCEPT !.records = records, !.occupied = occupied]
    BY DEF StoreResults
  <1> HIDE DEF slots, records, occupied, q
  <1>3. /\ IsReplay(q) /\ q.cursor = r.cursor /\ q.pending = r.pending /\ q.groups = r.groups
        /\ q.latest = r.latest /\ q.terminated = r.terminated
        /\ q.records = records /\ q.occupied = occupied
    BY <1>2 DEF IsReplay
  <1>. QED
    BY <1>1, <1>3 DEF records, occupied, q, Stored

LEMMA CensorKeeps ==
  ASSUME NEW n \in Nat, NEW g, GroupOf(g, n), NEW events,
         NEW h, h = ApplyFirstTouchCensor(g, events)
  PROVE  /\ GroupShape(h, n) /\ h.signal = g.signal /\ h.scenario = g.scenario
         /\ h.decision = g.decision /\ h.entry = g.entry /\ h.active = g.active
  <1> DEFINE ended == FirstOf({i \in events :
                        stream[i].session >= stream[g.entry].session + FirstTouchSessions})
             untouched == {cell \in g.active : g.triggers[cell[2]] = 0}
  <1>1. h = IF g.censor # 0 \/ ended = 0 THEN g
            ELSE [g EXCEPT !.censor = ended, !.censored = untouched]
    BY Zenon DEF ApplyFirstTouchCensor
  <1>2. untouched \in SUBSET Cells
    BY DEF GroupOf
  <1> HIDE DEF ended, untouched
  <1>3. GroupShape(g, n)
    BY DEF GroupOf, GroupShape
  <1>4. CASE g.censor # 0 \/ ended = 0
    BY <1>1, <1>3, <1>4
  <1>5. CASE ~(g.censor # 0 \/ ended = 0)
    <2>1. h = [g EXCEPT !.censor = ended, !.censored = untouched]
      BY <1>1, <1>5
    <2>2. h = [signal |-> g.signal, scenario |-> g.scenario, active |-> g.active,
               decision |-> g.decision, entry |-> g.entry, price |-> g.price,
               triggers |-> g.triggers, censored |-> untouched, censor |-> ended]
      BY <1>3, <2>1 DEF GroupShape
    <2>. QED
      BY <1>2, <1>3, <2>2 DEF GroupShape
  <1>. QED
    BY <1>4, <1>5

\* The buffered events of a contract.
LEMMA EventsAre ==
  ASSUME Len(stream) \in Nat, flushed \in 0..Len(stream), NEW c
  PROVE  Events(c) \subseteq 1..Len(stream) /\ Events(c) \subseteq flushed + 1..Len(stream)
BY DEF Events

\* An exit at a buffered event is after the decisions made so far.
LEMMA ExitsOutlast ==
  ASSUME NEW x, x.status = "ENTRY_FILLED", NEW ts, Time(x.fill) > ts
  PROVE  HeldBeyond(x, ts)
BY DEF HeldBeyond

\* A position over its contract's events.
Advanced(g) ==
  AdvancePositionGroup(ApplyFirstTouchCensor(g, Events(seeds[g.signal].contract)),
                       Events(seeds[g.signal].contract))

LEMMA AdvancedIs ==
  ASSUME Len(stream) \in Nat, flushed \in 0..Len(stream), NEW g, GroupOf(g, Len(stream)), NEW a, a = Advanced(g)
  PROVE  GivesUp(g, a, Events(seeds[g.signal].contract), Len(stream))
  <1> DEFINE events == Events(seeds[g.signal].contract)
             h == ApplyFirstTouchCensor(g, events)
  <1>1. events \subseteq 1..Len(stream)
    BY EventsAre
  <1>2. a = AdvancePositionGroup(h, events)
    BY DEF Advanced
  <1>3. /\ GroupShape(h, Len(stream)) /\ h.signal = g.signal /\ h.scenario = g.scenario
        /\ h.decision = g.decision /\ h.entry = g.entry /\ h.active = g.active
    BY CensorKeeps
  <1> HIDE DEF events, h
  <1>4. GivesUp(h, a, events, Len(stream))
    BY <1>1, <1>2, <1>3, AdvanceGivesUp
  <1>5. GivesUp(g, a, events, Len(stream))
    BY <1>3, <1>4 DEF GivesUp
  <1>. QED
    BY <1>5 DEF events

\* No position of the replay saw the terminal quote of its contract in the buffer.
Closed(r) ==
  \A g \in r.groups : \A i \in Events(seeds[g.signal].contract) : ~stream[i].terminal

\* The decisions made so far are before the buffered events.
Behind(r) == \A s \in 1..r.cursor : \A i \in flushed + 1..Len(stream) : Time(i) > seeds[s].ts

\* What the advance of the groups does to the routes: each position, open or closed, is
\* one that was open.
OfRoute(x, d) == x.signal = d.signal /\ x.scenario = d.scenario /\ x.decision = d.decision
GroupsRun(r, q) ==
  /\ q.pending = r.pending
  /\ \A x \in q.groups : \E g \in r.groups : OfRoute(x, g) /\ x.entry = g.entry
  /\ \A x \in q.records :
       \/ x \in r.records
       \/ x.status = "ENTRY_FILLED" /\ \E g \in r.groups : OfRoute(x, g) /\ x.entry = g.entry

LEMMA AdvanceGroupsSettles ==
  ASSUME seeds \in SeedLists, Len(stream) \in Nat, flushed \in 0..Len(stream),
         NEW r, Core(r, Len(stream)), Behind(r), NEW q, q = AdvanceGroups(r)
  PROVE  /\ \E results : Settles(r, q, results, Len(stream))
         /\ Closed(q) /\ GroupsRun(r, q)
  <1> DEFINE n == Len(stream)
             ev(d) == Events(seeds[d.signal].contract)
             moved == {g \in r.groups : ev(g) # {}}
             advanced == {Advanced(g) : g \in moved}
             kept == {g \in r.groups : ev(g) = {}}
             results == UNION {a.exits : a \in advanced}
             next == DropEmptyPositionGroups({a.group : a \in advanced})
             left == [d \in Claims(r) |-> IF d \in moved THEN Advanced(d).group.active
                                          ELSE HeldBy(r, d)]
             exits == [d \in Claims(r) |-> IF d \in moved THEN Advanced(d).exits ELSE {}]
             after == [d \in Claims(r) |-> IF d \in moved THEN Advanced(d).group ELSE d]
  <1>1. q = [StoreResults(r, results) EXCEPT !.groups = kept \cup next]
    <2>1. q = [StoreResults(r, results) EXCEPT
                 !.groups = {g \in @ : ev(g) = {}} \cup next]
      BY Zenon DEF AdvanceGroups, Advanced
    <2>2. IsReplay(r)
      BY DEF Core, Shaped
    <2> HIDE DEF next, results
    <2>3. StoreResults(r, results).groups = r.groups
      BY <2>2, StoreIs
    <2>. QED
      BY <2>1, <2>3
  <1>2. Shaped(r, n) /\ IsReplay(r) /\ Sole(r) /\ r.pending \cap r.groups = {} /\ n \in Nat
    BY ClaimKinds DEF Core, Shaped
  <1>3. moved \subseteq r.groups /\ kept = r.groups \ moved
    OBVIOUS
  <1>4. \A g \in moved : GivesUp(g, Advanced(g), ev(g), n)
    BY AdvancedIs DEF Core, Shaped
  <1>5. \A d \in Claims(r) : ev(d) \subseteq 1..n /\ ev(d) \subseteq flushed + 1..n
    BY EventsAre
  <1>6. \A g \in kept : ev(g) = {}
    OBVIOUS
  <1>7. next = {a \in {Advanced(g).group : g \in moved} : a.active # {}}
    BY Zenon DEF DropEmptyPositionGroups
  <1>8. \A a \in next : \E g \in moved : a = Advanced(g).group /\ a.active # {}
    BY <1>7
  <1>9. \A g \in moved : Advanced(g).group.active # {} => Advanced(g).group \in next
    BY <1>7
  <1>10. results = AllOf(r, exits)
    <2>1. \A x : x \in results <=> \E g \in moved : x \in Advanced(g).exits
      BY Zenon
    <2>2. \A x : x \in AllOf(r, exits) <=> \E d \in Claims(r) : x \in exits[d]
      BY Zenon DEF AllOf
    <2>3. moved \subseteq Claims(r)
      BY <1>3 DEF Claims
    <2>4. \A d \in Claims(r) : exits[d] = IF d \in moved THEN Advanced(d).exits ELSE {}
      BY Zenon
    <2> HIDE DEF results, exits, moved
    <2>5. \A x : x \in AllOf(r, exits) <=> x \in results
      BY <2>1, <2>2, <2>3, <2>4
    <2>. QED
      BY <2>5
  <1>11. \A d \in Claims(r) :
           /\ left[d] = IF d \in moved THEN Advanced(d).group.active ELSE HeldBy(r, d)
           /\ exits[d] = IF d \in moved THEN Advanced(d).exits ELSE {}
           /\ after[d] = IF d \in moved THEN Advanced(d).group ELSE d
    BY Zenon
  <1>12. \A d \in moved : d \in Claims(r) /\ HeldBy(r, d) = d.active
    BY <1>2, <1>3 DEF Claims, HeldBy
  <1> HIDE DEF ev, moved, advanced, kept, results, next, left, exits, after
  <1>13. Parts(r, left, exits)
    BY <1>4, <1>11, <1>12 DEF Parts, GivesUp
  <1>14. Stored(r, q, results) /\ q.pending = r.pending /\ q.groups = kept \cup next
    <2> DEFINE stored == StoreResults(r, results)
               groups == kept \cup next
    <2>1. Stored(r, stored, results) /\ stored.pending = r.pending
      BY <1>2, StoreIs
    <2>2. q = [stored EXCEPT !.groups = groups]
      BY <1>1
    <2> HIDE DEF stored, groups
    <2>3. IsReplay(stored)
      BY <2>1 DEF Stored
    <2>4. /\ IsReplay(q) /\ q.cursor = stored.cursor /\ q.pending = stored.pending
          /\ q.groups = groups /\ q.latest = stored.latest /\ q.terminated = stored.terminated
          /\ q.records = stored.records /\ q.occupied = stored.occupied
      BY <2>2, <2>3 DEF IsReplay
    <2>. QED
      BY <2>1, <2>4 DEF groups, Stored
  <1>15. ASSUME NEW d \in Claims(r), NEW x \in exits[d]
         PROVE  /\ x.status \in {"ENTRY_NOT_FILLED", "ENTRY_FILLED"}
                /\ x.decision = d.decision /\ x.failure \in 0..n
                /\ x.status = "ENTRY_FILLED" => x.entry \in 1..n /\ x.fill \in 1..n
                /\ x.status # "ENTRY_FILLED" => x.entry = 0
                /\ \A s \in x.signal + 1..r.cursor : HeldBeyond(x, seeds[s].ts)
    <2>1. d \in moved /\ x \in Advanced(d).exits
      BY <1>11
    <2>2. /\ x.status = "ENTRY_FILLED" /\ x.decision = d.decision /\ x.signal = d.signal
          /\ x.failure = 0 /\ x.entry \in 1..n /\ x.fill \in ev(d)
      <3>1. GivesUp(d, Advanced(d), ev(d), n) /\ d \in r.groups
        BY <1>3, <1>4, <2>1
      <3>2. d.entry \in 1..n
        BY <1>2, <3>1 DEF Shaped, GroupOf
      <3>. QED
        BY <2>1, <3>1, <3>2 DEF GivesUp
    <2>3. x.fill \in 1..n /\ x.fill \in flushed + 1..n
      BY <1>5, <2>2
    <2>4. ASSUME NEW s \in x.signal + 1..r.cursor PROVE HeldBeyond(x, seeds[s].ts)
      <3>1. s \in 1..r.cursor
        <4>1. x.signal \in Nat /\ r.cursor \in Nat
          <5>1. d.signal \in Signals
            BY <1>2, ClaimIs
          <5>. QED
            BY <1>2, <2>2, <5>1, SeedTypes DEF Shaped
        <4>. QED
          BY <4>1
      <3>2. Time(x.fill) > seeds[s].ts
        BY <2>3, <3>1 DEF Behind
      <3>. QED
        BY <2>2, <3>2, ExitsOutlast
    <2>. QED
      BY <1>2, <2>2, <2>3, <2>4
  <1>16. \A d \in Claims(r) : left[d] # {} =>
           /\ after[d].signal = d.signal /\ after[d].scenario = d.scenario
           /\ after[d].decision = d.decision
           /\ \/ after[d] \in q.pending /\ after[d].cells = left[d]
              \/ after[d] \in q.groups /\ after[d].active = left[d]
    <2>. SUFFICES ASSUME NEW d \in Claims(r), left[d] # {}
                  PROVE  /\ after[d].signal = d.signal /\ after[d].scenario = d.scenario
                         /\ after[d].decision = d.decision
                         /\ \/ after[d] \in q.pending /\ after[d].cells = left[d]
                            \/ after[d] \in q.groups /\ after[d].active = left[d]
      OBVIOUS
    <2>1. CASE d \in moved
      <3>1. after[d] = Advanced(d).group /\ left[d] = Advanced(d).group.active
        BY <1>11, <2>1
      <3>2. GivesUp(d, Advanced(d), ev(d), n)
        BY <1>4, <2>1
      <3>3. Advanced(d).group \in next
        BY <1>9, <2>1, <3>1
      <3>. QED
        BY <1>14, <3>1, <3>2, <3>3 DEF GivesUp
    <2>2. CASE d \notin moved
      <3>1. after[d] = d /\ left[d] = HeldBy(r, d)
        BY <1>11, <2>2
      <3>. QED
        BY <1>3, <1>14, <2>2, <3>1 DEF Claims, HeldBy
    <2>. QED
      BY <2>1, <2>2
  <1>17. q.pending \cup q.groups = {after[d] : d \in {d \in Claims(r) : left[d] # {}}}
    <2>1. ASSUME NEW e \in q.pending \cup q.groups
          PROVE  \E d \in Claims(r) : left[d] # {} /\ e = after[d]
      <3>1. CASE e \in next
        <4>1. PICK g \in moved : e = Advanced(g).group /\ e.active # {}
          BY <1>8, <3>1
        <4>2. g \in Claims(r) /\ left[g] # {} /\ e = after[g]
          BY <1>11, <1>12, <4>1
        <4>. QED
          BY <4>2
      <3>2. CASE e \notin next
        <4>1. e \in Claims(r) /\ e \notin moved
          BY <1>2, <1>3, <1>14, <3>2 DEF Claims
        <4>2. left[e] # {} /\ after[e] = e
          BY <1>2, <1>11, <4>1, ClaimIs
        <4>. QED
          BY <4>1, <4>2
      <3>. QED
        BY <3>1, <3>2
    <2>2. ASSUME NEW d \in Claims(r), left[d] # {} PROVE after[d] \in q.pending \cup q.groups
      BY <1>16, <2>2
    <2>. QED
      BY <2>1, <2>2
  <1>18. (\A p \in q.pending : PendingOf(p, n)) /\ (\A g \in q.groups : GroupOf(g, n))
    <2>1. ASSUME NEW g \in next PROVE GroupOf(g, n)
      <3>1. PICK h \in moved : g = Advanced(h).group /\ g.active # {}
        BY <1>8
      <3>2. GroupShape(g, n)
        BY <1>4, <3>1 DEF GivesUp
      <3>. QED
        BY <3>1, <3>2 DEF GroupShape, GroupOf
    <2>. QED
      BY <1>2, <1>3, <1>14, <2>1 DEF Shaped
  <1>19. Settles(r, q, results, n)
    <2>1. Records(r, exits, n)
      BY <1>15 DEF Records
    <2>2. GoesOn(r, q, left, after, n)
      BY <1>16, <1>17, <1>18 DEF GoesOn
    <2>. QED
      BY <1>2, <1>10, <1>13, <1>14, <2>1, <2>2, SettlesBy
  <1>20. Closed(q)
    <2>. SUFFICES ASSUME NEW g \in q.groups, NEW i \in ev(g), stream[i].terminal PROVE FALSE
      BY DEF Closed, ev
    <2>1. CASE g \in next
      <3>1. PICK h \in moved : g = Advanced(h).group /\ g.active # {}
        BY <1>8, <2>1
      <3>2. GivesUp(h, Advanced(h), ev(h), n)
        BY <1>4
      <3>3. g.signal = h.signal
        BY <3>1, <3>2 DEF GivesUp
      <3>4. ev(g) = ev(h)
        BY <3>3 DEF ev
      <3>. QED
        BY <3>1, <3>2, <3>4 DEF GivesUp
    <2>2. CASE g \notin next
      BY <1>6, <1>14, <2>2
    <2>. QED
      BY <2>1, <2>2
  <1>21. \A g \in q.groups : \E h \in r.groups : OfRoute(g, h) /\ g.entry = h.entry
    <2>. SUFFICES ASSUME NEW g \in q.groups
                  PROVE  \E h \in r.groups : OfRoute(g, h) /\ g.entry = h.entry
      OBVIOUS
    <2>1. CASE g \in next
      <3>1. PICK h \in moved : g = Advanced(h).group
        BY <1>8, <2>1
      <3>2. GivesUp(h, Advanced(h), ev(h), n)
        BY <1>4
      <3>. QED
        BY <1>3, <3>1, <3>2 DEF GivesUp, OfRoute
    <2>2. CASE g \notin next
      BY <1>3, <1>14, <2>2 DEF OfRoute
    <2>. QED
      BY <2>1, <2>2
  <1>22. \A x \in results :
           x.status = "ENTRY_FILLED" /\ \E g \in r.groups : OfRoute(x, g) /\ x.entry = g.entry
    <2>. SUFFICES ASSUME NEW x \in results
                  PROVE  x.status = "ENTRY_FILLED"
                         /\ \E g \in r.groups : OfRoute(x, g) /\ x.entry = g.entry
      OBVIOUS
    <2>1. PICK d \in Claims(r) : x \in exits[d]
      BY <1>10 DEF AllOf
    <2>2. d \in moved /\ x \in Advanced(d).exits
      BY <1>11, <2>1
    <2>3. GivesUp(d, Advanced(d), ev(d), n)
      BY <1>4, <2>2
    <2>. QED
      BY <1>3, <2>2, <2>3 DEF GivesUp, OfRoute
  <1>23. GroupsRun(r, q)
    BY <1>14, <1>21, <1>22 DEF GroupsRun, Stored
  <1>. QED
    BY <1>19, <1>20, <1>23

-----------------------------------------------------------------------------
(* The route of the pending entries.                                       *)

LEMMA RouteIs ==
  ASSUME NEW n \in Nat, NEW p, PendingOf(p, n), NEW events, events \subseteq 1..n,
         NEW rt, rt = Route(p, events)
  PROVE  /\ rt.verdict = "ROUTED" =>
              rt.gate \in 1..n /\ \A i \in events : ~stream[i].terminal
         /\ rt.verdict # "ROUTED" => rt.at \in events
         /\ rt.verdict = "FILLED" => \A i \in events : stream[i].terminal => i > rt.at
  <1> DEFINE verdict(i) == RouteVerdict([p EXCEPT !.gate = GateBefore(p, events, i)], i)
             S == {i \in events : verdict(i) # "ROUTED"}
             at == FirstOf(S)
             gate == IF at # 0 THEN GateBefore(p, events, at)
                     ELSE IF events = {} THEN p.gate ELSE Max(events)
  <1>1. rt = [verdict |-> IF at = 0 THEN "ROUTED" ELSE verdict(at), at |-> at, gate |-> gate]
    BY Zenon DEF Route
  <1>2. ASSUME NEW i, stream[i].terminal
        PROVE  verdict(i) = "TERMINAL_BEFORE_ENTRY"
    BY <1>2, Zenon DEF RouteVerdict
  <1>3. S \subseteq events /\ \A i \in events : i \in S <=> verdict(i) # "ROUTED"
    BY Zenon
  <1> HIDE DEF verdict, S
  <1>4. \A i \in events : stream[i].terminal => i \in S /\ verdict(i) # "FILLED"
    BY <1>2, <1>3
  <1>5. /\ at = 0 <=> S = {}
        /\ S # {} => at \in S /\ \A k \in S : at <= k
    <2>1. S \subseteq Nat \ {0}
      BY <1>3
    <2>. QED
      BY <2>1, FirstOfIs
  <1>6. CASE at = 0
    <2>1. rt.verdict = "ROUTED" /\ rt.gate = IF events = {} THEN p.gate ELSE Max(events)
      BY <1>1, <1>6
    <2>2. events # {} => Max(events) \in events
      BY MaxIs, events \subseteq 0..n
    <2>3. p.gate \in 1..n
      BY DEF PendingOf
    <2>4. rt.gate \in 1..n
      BY <2>1, <2>2, <2>3
    <2>5. \A i \in events : ~stream[i].terminal
      BY <1>4, <1>5, <1>6
    <2>. QED
      BY <2>1, <2>4, <2>5
  <1>7. CASE at # 0
    <2>1. at \in S /\ \A k \in S : at <= k
      BY <1>5, <1>7
    <2>2. at \in events /\ verdict(at) # "ROUTED"
      BY <1>3, <2>1
    <2> HIDE DEF at, gate
    <2>3. rt.verdict = verdict(at) /\ rt.at = at
      BY <1>1, <1>7
    <2>4. ASSUME rt.verdict = "FILLED", NEW i \in events, stream[i].terminal PROVE i > at
      <3>1. i \in S /\ i # at
        BY <1>4, <2>3, <2>4
      <3>2. i \in Nat /\ at \in Nat
        BY <2>2
      <3>. QED
        BY <2>1, <3>1, <3>2
    <2>. QED
      BY <2>2, <2>3, <2>4
  <1>. QED
    BY <1>6, <1>7

\* A reserved entry that is filled, over the events after its fill.
Entered(p, at) ==
  AdvancePositionGroup(FillPendingEntry(p, at), {k \in Events(stream[at].contract) : k > at})

\* a is what the reservation p became when it filled at that event.
Enters(p, at, a, n) ==
  /\ GroupShape(a.group, n)
  /\ a.group.signal = p.signal /\ a.group.scenario = p.scenario
  /\ a.group.decision = p.decision /\ a.group.entry = at
  /\ a.group.active \subseteq p.cells
  /\ \A x \in a.exits : /\ x.signal = p.signal /\ x.scenario = p.scenario
                        /\ x.status = "ENTRY_FILLED" /\ x.decision = p.decision
                        /\ x.failure = 0 /\ x.entry = at
                        /\ x.fill \in Events(seeds[p.signal].contract)
                        /\ x.cell \in p.cells \ a.group.active
  /\ \A cell \in p.cells \ a.group.active : \E x \in a.exits : x.cell = cell
  /\ \A x, y \in a.exits : x.cell = y.cell => x = y
  /\ (\E i \in Events(seeds[p.signal].contract) : stream[i].terminal /\ i > at) =>
       a.group.active = {}

LEMMA EnteredIs ==
  ASSUME Len(stream) \in Nat, flushed \in 0..Len(stream),
         NEW p, PendingOf(p, Len(stream)), NEW at \in Events(seeds[p.signal].contract)
  PROVE  Enters(p, at, Entered(p, at), Len(stream))
  <1> DEFINE events == {k \in Events(stream[at].contract) : k > at}
             g == FillPendingEntry(p, at)
             a == Entered(p, at)
             n == Len(stream)
  <1>1. stream[at].contract = seeds[p.signal].contract /\ at \in 1..n
    BY EventsAre DEF Events
  <1>2. Events(seeds[p.signal].contract) \subseteq 1..n
    BY EventsAre
  <1>3. events \subseteq Events(seeds[p.signal].contract)
        /\ \A i \in Events(seeds[p.signal].contract) : i > at => i \in events
    BY <1>1
  <1>4. g = [signal |-> p.signal, scenario |-> p.scenario, active |-> p.cells,
             decision |-> p.decision, entry |-> at, price |-> EntryPrice(p, at),
             triggers |-> [sl \in Grid |-> 0], censored |-> {}, censor |-> 0]
    BY DEF FillPendingEntry
  <1>5. a = AdvancePositionGroup(g, events)
    BY DEF Entered
  <1> HIDE DEF events, g, a
  <1>6. GroupShape(g, n)
    BY <1>1, <1>4 DEF GroupShape, PendingOf
  <1>7. events \subseteq 1..n
    BY <1>2, <1>3
  <1>8. GivesUp(g, a, events, n)
    BY <1>5, <1>6, <1>7, AdvanceGivesUp
  <1>9. g.signal = p.signal /\ g.scenario = p.scenario /\ g.active = p.cells
        /\ g.decision = p.decision /\ g.entry = at
    BY <1>4
  <1>. QED
    BY <1>3, <1>8, <1>9 DEF GivesUp, Enters, a

LEMMA RefusalsAre ==
  ASSUME NEW p, NEW reason, NEW failure
  PROVE  /\ \A x \in Refusals(p, reason, failure) :
              /\ x.signal = p.signal /\ x.scenario = p.scenario /\ x.cell \in p.cells
              /\ x.status = "ENTRY_NOT_FILLED" /\ x.decision = p.decision
              /\ x.reason = reason /\ x.failure = failure /\ x.entry = 0
         /\ \A cell \in p.cells : \E x \in Refusals(p, reason, failure) : x.cell = cell
         /\ \A x, y \in Refusals(p, reason, failure) : x.cell = y.cell => x = y
  <1> DEFINE refusal(cell) == NotFilled(p.signal, p.scenario, cell, p.decision, reason, failure)
  <1>1. \A cell : /\ refusal(cell).signal = p.signal /\ refusal(cell).scenario = p.scenario
                  /\ refusal(cell).cell = cell
                  /\ refusal(cell).status = "ENTRY_NOT_FILLED"
                  /\ refusal(cell).decision = p.decision /\ refusal(cell).reason = reason
                  /\ refusal(cell).failure = failure /\ refusal(cell).entry = 0
    BY DEF NotFilled, Result
  <1>2. Refusals(p, reason, failure) = {refusal(cell) : cell \in p.cells}
    BY Zenon DEF Refusals
  <1> HIDE DEF refusal
  <1>. QED
    BY <1>1, <1>2

\* A refusal at a buffered event is after the decisions made so far.
LEMMA RefusalsOutlast ==
  ASSUME seeds \in SeedLists, stream \in Seq(Quote), flushed \in 0..Len(stream),
         NEW r, Behind(r), NEW x, x.status = "ENTRY_NOT_FILLED",
         x.failure \in flushed + 1..Len(stream), NEW s \in 1..r.cursor, s \in Signals
  PROVE  HeldBeyond(x, seeds[s].ts)
  <1>1. Len(stream) \in Nat /\ \A i \in 1..Len(stream) : Time(i) \in Nat
    BY StreamTypes
  <1>2. Len(stream) \in flushed + 1..Len(stream)
    BY <1>1
  <1>3. Time(Len(stream)) > seeds[s].ts /\ Time(x.failure) > seeds[s].ts
    BY <1>2 DEF Behind
  <1>4. Time(Len(stream)) \in Nat /\ seeds[s].ts \in Nat
    BY <1>1, <1>2, SeedTypes
  <1>5. seeds[s].ts <= Time(Len(stream)) /\ x.failure # 0
    BY <1>1, <1>3, <1>4
  <1>. QED
    BY <1>3, <1>5 DEF HeldBeyond

\* No reserved entry saw the terminal quote of its contract in the buffer.
Unended(r) ==
  \A p \in r.pending : \A i \in Events(seeds[p.signal].contract) : ~stream[i].terminal

\* What the advance of the pending entries does to the routes: each goes on, enters or is
\* refused as the verdict on it says.
PendingRun(r, q) ==
  LET rt(p) == Route(p, Events(seeds[p.signal].contract))
  IN  /\ \A k \in q.pending : \E p \in r.pending :
           rt(p).verdict = "ROUTED" /\ k = [p EXCEPT !.gate = rt(p).gate]
      /\ \A g \in q.groups :
           \/ g \in r.groups
           \/ \E p \in r.pending :
                rt(p).verdict = "FILLED" /\ OfRoute(g, p) /\ g.entry = rt(p).at
      /\ \A x \in q.records :
           \/ x \in r.records
           \/ \E p \in r.pending :
                /\ OfRoute(x, p)
                /\ \/ rt(p).verdict = "FILLED" /\ x.status = "ENTRY_FILLED" /\ x.entry = rt(p).at
                   \/ rt(p).verdict \notin {"ROUTED", "FILLED"} /\ x.status = "ENTRY_NOT_FILLED"

LEMMA AdvancePendingSettles ==
  ASSUME seeds \in SeedLists, stream \in Seq(Quote), flushed \in 0..Len(stream),
         NEW r, Core(r, Len(stream)), Behind(r), Closed(r),
         NEW q, q = AdvancePendingEntries(r)
  PROVE  /\ \E results : Settles(r, q, results, Len(stream))
         /\ Closed(q) /\ Unended(q) /\ PendingRun(r, q)
  <1> DEFINE n == Len(stream)
             ev(p) == Events(seeds[p.signal].contract)
             rt(p) == Route(p, ev(p))
             ent(p) == Entered(p, rt(p).at)
             filled == {p \in r.pending : rt(p).verdict = "FILLED"}
             refused == {p \in r.pending : rt(p).verdict \notin {"ROUTED", "FILLED"}}
             routed == {p \in r.pending : rt(p).verdict = "ROUTED"}
             refusals(p) == Refusals(p, rt(p).verdict, rt(p).at)
             results == (UNION {refusals(p) : p \in refused}) \cup (UNION {ent(p).exits : p \in filled})
             next == {g \in {ent(p).group : p \in filled} : g.active # {}}
             kept(p) == [p EXCEPT !.gate = rt(p).gate]
             waiting == {kept(p) : p \in routed}
             left == [d \in Claims(r) |-> IF d \in filled THEN ent(d).group.active
                                          ELSE IF d \in refused THEN {} ELSE HeldBy(r, d)]
             exits == [d \in Claims(r) |-> IF d \in filled THEN ent(d).exits
                                           ELSE IF d \in refused THEN refusals(d) ELSE {}]
             after == [d \in Claims(r) |-> IF d \in filled THEN ent(d).group
                                           ELSE IF d \in routed THEN kept(d) ELSE d]
  <1>1. Shaped(r, n) /\ IsReplay(r) /\ Sole(r) /\ r.pending \cap r.groups = {} /\ n \in Nat
        /\ \A p \in r.pending : PendingOf(p, n)
    BY StreamTypes, ClaimKinds DEF Core, Shaped
  <1>2. q = [StoreResults(r, results) EXCEPT !.groups = r.groups \cup next, !.pending = waiting]
    <2> DEFINE entered == {ent(p) : p \in filled}
               results2 == (UNION {refusals(p) : p \in refused}) \cup (UNION {e.exits : e \in entered})
               next2 == DropEmptyPositionGroups({e.group : e \in entered})
    <2>1. q = [StoreResults(r, results2) EXCEPT
                 !.groups = @ \cup next2,
                 !.pending = {kept(p) : p \in {p \in @ : rt(p).verdict = "ROUTED"}}]
      BY Zenon DEF AdvancePendingEntries, Entered
    <2>2. StoreResults(r, results2).groups = r.groups /\ StoreResults(r, results2).pending = r.pending
      <3> HIDE DEF results2
      <3>. QED
        BY <1>1, StoreIs
    <2>3. results2 = results
      <3>1. UNION {e.exits : e \in entered} = UNION {ent(p).exits : p \in filled}
        <4> HIDE DEF ent, filled
        <4>. QED
          OBVIOUS
      <3>. QED
        BY <3>1
    <2>4. next2 = next
      <3>1. {e.group : e \in entered} = {ent(p).group : p \in filled}
        <4> HIDE DEF ent, filled
        <4>1. \A e : e \in entered <=> \E p \in filled : e = ent(p)
          BY Zenon
        <4> HIDE DEF entered
        <4>. QED
          BY <4>1, Zenon
      <3>. QED
        BY <3>1 DEF DropEmptyPositionGroups
    <2>5. q = [StoreResults(r, results2) EXCEPT
                 !.groups = StoreResults(r, results2).groups \cup next2,
                 !.pending = {kept(p) : p \in {p \in StoreResults(r, results2).pending :
                                                rt(p).verdict = "ROUTED"}}]
      BY <2>1
    <2> HIDE DEF results, results2, next, next2, kept, rt
    <2>. QED
      BY <2>2, <2>3, <2>4, <2>5, Zenon
  <1>3. \A p \in r.pending :
          /\ p \in routed => rt(p).gate \in 1..n /\ \A i \in ev(p) : ~stream[i].terminal
          /\ p \notin routed => rt(p).at \in ev(p)
          /\ p \in filled => \A i \in ev(p) : stream[i].terminal => i > rt(p).at
    <2>. SUFFICES ASSUME NEW p \in r.pending
                  PROVE  /\ rt(p).verdict = "ROUTED" =>
                              rt(p).gate \in 1..n /\ \A i \in ev(p) : ~stream[i].terminal
                         /\ rt(p).verdict # "ROUTED" => rt(p).at \in ev(p)
                         /\ rt(p).verdict = "FILLED" =>
                              \A i \in ev(p) : stream[i].terminal => i > rt(p).at
      OBVIOUS
    <2>1. ev(p) \subseteq 1..n /\ PendingOf(p, n)
      BY <1>1, EventsAre
    <2> HIDE DEF ev
    <2>. QED
      BY <1>1, <2>1, RouteIs
  <1>4. /\ filled \subseteq r.pending /\ refused \subseteq r.pending /\ routed \subseteq r.pending
        /\ filled \cap routed = {} /\ refused \cap routed = {} /\ filled \cap refused = {}
        /\ r.pending = filled \cup routed \cup refused
    <2>1. "FILLED" # "ROUTED"
      OBVIOUS
    <2> HIDE DEF rt
    <2>. QED
      BY <2>1
  <1>5. \A p \in filled : rt(p).at \in ev(p) /\ PendingOf(p, n)
    BY <1>1, <1>3, <1>4
  <1>6. \A d \in Claims(r) : ev(d) \subseteq 1..n /\ ev(d) \subseteq flushed + 1..n
    BY <1>1, EventsAre
  <1>7. \A p \in filled :
          /\ GroupShape(ent(p).group, n)
          /\ ent(p).group.signal = p.signal /\ ent(p).group.scenario = p.scenario
          /\ ent(p).group.decision = p.decision /\ ent(p).group.entry = rt(p).at
          /\ ent(p).group.active \subseteq p.cells
          /\ \A x \in ent(p).exits :
               /\ x.signal = p.signal /\ x.scenario = p.scenario
               /\ x.status = "ENTRY_FILLED" /\ x.decision = p.decision
               /\ x.failure = 0 /\ x.entry = rt(p).at
               /\ x.fill \in ev(p)
               /\ x.cell \in p.cells \ ent(p).group.active
          /\ \A cell \in p.cells \ ent(p).group.active : \E x \in ent(p).exits : x.cell = cell
          /\ \A x, y \in ent(p).exits : x.cell = y.cell => x = y
          /\ (\E i \in ev(p) : stream[i].terminal /\ i > rt(p).at) => ent(p).group.active = {}
    <2>. SUFFICES ASSUME NEW p \in filled
                  PROVE  /\ GroupShape(ent(p).group, n)
                         /\ ent(p).group.signal = p.signal /\ ent(p).group.scenario = p.scenario
                         /\ ent(p).group.decision = p.decision
                         /\ ent(p).group.entry = rt(p).at
                         /\ ent(p).group.active \subseteq p.cells
                         /\ \A x \in ent(p).exits :
                              /\ x.signal = p.signal /\ x.scenario = p.scenario
                              /\ x.status = "ENTRY_FILLED" /\ x.decision = p.decision
                              /\ x.failure = 0 /\ x.entry = rt(p).at
                              /\ x.fill \in ev(p)
                              /\ x.cell \in p.cells \ ent(p).group.active
                         /\ \A cell \in p.cells \ ent(p).group.active :
                              \E x \in ent(p).exits : x.cell = cell
                         /\ \A x, y \in ent(p).exits : x.cell = y.cell => x = y
                         /\ (\E i \in ev(p) : stream[i].terminal /\ i > rt(p).at) =>
                              ent(p).group.active = {}
      BY Zenon
    <2>1. rt(p).at \in Events(seeds[p.signal].contract) /\ PendingOf(p, n)
      BY <1>5
    <2>2. PICK at : at = rt(p).at
      OBVIOUS
    <2>3. ent(p) = Entered(p, at)
      BY <2>2
    <2> HIDE DEF rt, ent, filled
    <2>4. at \in Events(seeds[p.signal].contract) /\ PendingOf(p, n)
      BY <2>1, <2>2
    <2>5. Enters(p, at, ent(p), n)
      BY <1>1, <2>3, <2>4, EnteredIs, Zenon
    <2>. QED
      BY <2>2, <2>5, Zenon DEF Enters, ev
  <1>8. \A p \in refused :
          /\ rt(p).at \in ev(p)
          /\ \A x \in refusals(p) :
               /\ x.signal = p.signal /\ x.scenario = p.scenario /\ x.cell \in p.cells
               /\ x.status = "ENTRY_NOT_FILLED" /\ x.decision = p.decision
               /\ x.failure = rt(p).at /\ x.entry = 0
          /\ \A cell \in p.cells : \E x \in refusals(p) : x.cell = cell
          /\ \A x, y \in refusals(p) : x.cell = y.cell => x = y
    <2>. SUFFICES ASSUME NEW p \in refused
                  PROVE  /\ rt(p).at \in ev(p)
                         /\ \A x \in refusals(p) :
                              /\ x.signal = p.signal /\ x.scenario = p.scenario
                              /\ x.cell \in p.cells
                              /\ x.status = "ENTRY_NOT_FILLED" /\ x.decision = p.decision
                              /\ x.failure = rt(p).at /\ x.entry = 0
                         /\ \A cell \in p.cells : \E x \in refusals(p) : x.cell = cell
                         /\ \A x, y \in refusals(p) : x.cell = y.cell => x = y
      BY Zenon
    <2>1. p \in r.pending /\ p \notin routed
      BY <1>4
    <2>2. rt(p).at \in ev(p)
      BY <1>3, <2>1
    <2> HIDE DEF rt, ev, refused
    <2>. QED
      BY <2>2, RefusalsAre
  <1>9. \A p \in routed : \A k : k = kept(p) =>
          /\ PendingOf(k, n) /\ k.signal = p.signal /\ k.scenario = p.scenario
          /\ k.cells = p.cells /\ k.decision = p.decision
    <2>. SUFFICES ASSUME NEW p \in routed, NEW k, k = kept(p)
                  PROVE  /\ PendingOf(k, n) /\ k.signal = p.signal /\ k.scenario = p.scenario
                         /\ k.cells = p.cells /\ k.decision = p.decision
      BY Zenon
    <2> DEFINE gate == rt(p).gate
    <2>1. PendingOf(p, n) /\ gate \in 1..n
      BY <1>1, <1>3, <1>4
    <2>2. k = [p EXCEPT !.gate = gate]
      OBVIOUS
    <2> HIDE DEF gate, rt, routed, kept
    <2>3. k = [signal |-> p.signal, scenario |-> p.scenario, cells |-> p.cells,
               decision |-> p.decision, gate |-> gate]
      BY <2>1, <2>2 DEF PendingOf
    <2>. QED
      BY <2>1, <2>3 DEF PendingOf
  <1>10. \A d \in Claims(r) :
           /\ left[d] = IF d \in filled THEN ent(d).group.active
                        ELSE IF d \in refused THEN {} ELSE HeldBy(r, d)
           /\ exits[d] = IF d \in filled THEN ent(d).exits
                         ELSE IF d \in refused THEN refusals(d) ELSE {}
           /\ after[d] = IF d \in filled THEN ent(d).group
                         ELSE IF d \in routed THEN kept(d) ELSE d
    BY Zenon
  <1>11. /\ \A x : x \in results <=> (\E p \in refused : x \in refusals(p))
                                     \/ (\E p \in filled : x \in ent(p).exits)
         /\ \A g : g \in next <=> \E p \in filled : g = ent(p).group /\ g.active # {}
         /\ \A k : k \in waiting <=> \E p \in routed : k = kept(p)
    <2> HIDE DEF ent, filled, refused, routed, refusals, kept
    <2>1. \A x : x \in results <=> (\E p \in refused : x \in refusals(p))
                                   \/ (\E p \in filled : x \in ent(p).exits)
      <3>1. \A x : x \in UNION {refusals(p) : p \in refused} <=> \E p \in refused : x \in refusals(p)
        BY Zenon
      <3>2. \A x : x \in UNION {ent(p).exits : p \in filled} <=> \E p \in filled : x \in ent(p).exits
        BY Zenon
      <3>. QED
        BY <3>1, <3>2
    <2>2. \A g : g \in next <=> \E p \in filled : g = ent(p).group /\ g.active # {}
      OBVIOUS
    <2>3. \A k : k \in waiting <=> \E p \in routed : k = kept(p)
      OBVIOUS
    <2>. QED
      BY <2>1, <2>2, <2>3
  <1>12. \A d \in r.pending : d \in Claims(r) /\ HeldBy(r, d) = d.cells
    BY DEF Claims, HeldBy
  <1>13. \A x : x \in AllOf(r, exits) <=> \E d \in Claims(r) : x \in exits[d]
    BY Zenon DEF AllOf
  <1> HIDE DEF ev, rt, ent, filled, refused, routed, refusals, results, next, kept, waiting,
               left, exits, after
  <1>14. results = AllOf(r, exits)
    <2>1. ASSUME NEW x \in results PROVE x \in AllOf(r, exits)
      <3>1. CASE \E p \in refused : x \in refusals(p)
        <4>1. PICK p \in refused : x \in refusals(p)
          BY <3>1
        <4>2. p \in Claims(r) /\ exits[p] = refusals(p)
          BY <1>4, <1>10, <1>12
        <4>. QED
          BY <1>13, <4>1, <4>2
      <3>2. CASE \E p \in filled : x \in ent(p).exits
        <4>1. PICK p \in filled : x \in ent(p).exits
          BY <3>2
        <4>2. p \in Claims(r) /\ exits[p] = ent(p).exits
          BY <1>4, <1>10, <1>12
        <4>. QED
          BY <1>13, <4>1, <4>2
      <3>. QED
        BY <1>11, <3>1, <3>2
    <2>2. ASSUME NEW x \in AllOf(r, exits) PROVE x \in results
      <3>1. PICK d \in Claims(r) : x \in exits[d]
        BY <1>13, <2>2
      <3>. QED
        BY <1>10, <1>11, <3>1
    <2>. QED
      BY <2>1, <2>2
  <1>15. Parts(r, left, exits)
    <2>. SUFFICES ASSUME NEW d \in Claims(r)
                  PROVE  /\ left[d] \subseteq HeldBy(r, d)
                         /\ \A x \in exits[d] : /\ x.signal = d.signal /\ x.scenario = d.scenario
                                                /\ x.cell \in HeldBy(r, d) \ left[d]
                         /\ \A cell \in HeldBy(r, d) \ left[d] : \E x \in exits[d] : x.cell = cell
                         /\ \A x, y \in exits[d] : x.cell = y.cell => x = y
      BY DEF Parts
    <2>1. CASE d \in filled
      <3>1. left[d] = ent(d).group.active /\ exits[d] = ent(d).exits /\ HeldBy(r, d) = d.cells
        BY <1>4, <1>10, <1>12, <2>1
      <3>. QED
        BY <1>7, <2>1, <3>1
    <2>2. CASE d \in refused
      <3>1. left[d] = {} /\ exits[d] = refusals(d) /\ HeldBy(r, d) = d.cells
        BY <1>4, <1>10, <1>12, <2>2
      <3>. QED
        BY <1>8, <2>2, <3>1
    <2>3. CASE d \notin filled /\ d \notin refused
      BY <1>10, <2>3
    <2>. QED
      BY <2>1, <2>2, <2>3
  <1>16. Stored(r, q, results) /\ q.pending = waiting /\ q.groups = r.groups \cup next
    <2> DEFINE stored == StoreResults(r, results)
               groups == r.groups \cup next
    <2>1. Stored(r, stored, results)
      BY <1>1, StoreIs
    <2>2. q = [stored EXCEPT !.groups = groups, !.pending = waiting]
      BY <1>2
    <2> HIDE DEF stored, groups
    <2>3. IsReplay(stored)
      BY <2>1 DEF Stored
    <2>4. /\ IsReplay(q) /\ q.cursor = stored.cursor /\ q.pending = waiting
          /\ q.groups = groups /\ q.latest = stored.latest /\ q.terminated = stored.terminated
          /\ q.records = stored.records /\ q.occupied = stored.occupied
      BY <2>2, <2>3 DEF IsReplay
    <2>. QED
      BY <2>1, <2>4 DEF groups, Stored
  <1>17. ASSUME NEW d \in Claims(r), NEW x \in exits[d]
         PROVE  /\ x.status \in {"ENTRY_NOT_FILLED", "ENTRY_FILLED"}
                /\ x.decision = d.decision /\ x.failure \in 0..n
                /\ x.status = "ENTRY_FILLED" => x.entry \in 1..n /\ x.fill \in 1..n
                /\ x.status # "ENTRY_FILLED" => x.entry = 0
                /\ \A s \in x.signal + 1..r.cursor : HeldBeyond(x, seeds[s].ts)
    <2>0. x.signal = d.signal
      BY <1>15 DEF Parts
    <2>1. \A s \in x.signal + 1..r.cursor : s \in 1..r.cursor /\ s \in Signals
      <3>1. d.signal \in Signals
        BY <1>1, ClaimIs
      <3>2. d.signal \in Nat /\ r.cursor \in Nat /\ Signals = 1..Len(seeds) /\ r.cursor <= Len(seeds)
            /\ Len(seeds) \in Nat
        BY <1>1, <3>1, SeedTypes DEF Shaped
      <3>. QED
        BY <2>0, <3>2
    <2>2. CASE d \in filled
      <3>1. x \in ent(d).exits
        BY <1>10, <2>2
      <3>2. /\ x.status = "ENTRY_FILLED" /\ x.decision = d.decision
            /\ x.failure = 0 /\ x.entry \in 1..n /\ x.fill \in ev(d)
        <4>1. ent(d).group.entry = rt(d).at /\ ent(d).group.entry \in 1..n
          BY <1>7, <2>2 DEF GroupShape
        <4>. QED
          BY <1>7, <2>2, <3>1, <4>1
      <3>3. x.fill \in 1..n /\ x.fill \in flushed + 1..n
        BY <1>6, <3>2
      <3>4. ASSUME NEW s \in x.signal + 1..r.cursor PROVE HeldBeyond(x, seeds[s].ts)
        <4>1. Time(x.fill) > seeds[s].ts
          BY <2>1, <3>3 DEF Behind
        <4>. QED
          BY <3>2, <4>1, ExitsOutlast
      <3>. QED
        BY <1>1, <3>2, <3>3, <3>4
    <2>3. CASE d \in refused
      <3>1. x \in refusals(d)
        BY <1>4, <1>10, <2>3
      <3>2. /\ x.status = "ENTRY_NOT_FILLED" /\ x.decision = d.decision
            /\ x.failure \in ev(d) /\ x.entry = 0
        BY <1>8, <2>3, <3>1
      <3>3. x.failure \in 0..n /\ x.failure \in flushed + 1..n
        BY <1>6, <3>2
      <3>4. ASSUME NEW s \in x.signal + 1..r.cursor PROVE HeldBeyond(x, seeds[s].ts)
        BY <2>1, <3>2, <3>3, RefusalsOutlast
      <3>. QED
        BY <3>2, <3>3, <3>4
    <2>4. CASE d \notin filled /\ d \notin refused
      BY <1>10, <2>4
    <2>. QED
      BY <2>2, <2>3, <2>4
  <1>18. ASSUME NEW d \in Claims(r), left[d] # {}
         PROVE  /\ after[d].signal = d.signal /\ after[d].scenario = d.scenario
                /\ after[d].decision = d.decision
                /\ \/ after[d] \in q.pending /\ after[d].cells = left[d]
                   \/ after[d] \in q.groups /\ after[d].active = left[d]
    <2>1. CASE d \in filled
      <3>1. after[d] = ent(d).group /\ left[d] = ent(d).group.active
        BY <1>10, <2>1
      <3>2. ent(d).group \in next
        BY <1>11, <1>18, <2>1, <3>1
      <3>. QED
        BY <1>7, <1>16, <2>1, <3>1, <3>2
    <2>2. CASE d \in routed
      <3>1. after[d] = kept(d) /\ left[d] = d.cells
        BY <1>4, <1>10, <1>12, <2>2
      <3>2. kept(d) \in waiting
        BY <1>11, <2>2
      <3>. QED
        BY <1>9, <1>16, <2>2, <3>1, <3>2
    <2>3. CASE d \notin filled /\ d \notin routed
      <3>1. d \notin refused
        BY <1>10, <1>18, <2>3
      <3>2. d \in r.groups /\ d \notin r.pending
        BY <1>4, <2>3, <3>1 DEF Claims
      <3>3. after[d] = d /\ left[d] = d.active
        BY <1>10, <2>3, <3>1, <3>2 DEF HeldBy
      <3>. QED
        BY <1>16, <3>2, <3>3
    <2>. QED
      BY <2>1, <2>2, <2>3
  <1>19. q.pending \cup q.groups = {after[d] : d \in {d \in Claims(r) : left[d] # {}}}
    <2>1. ASSUME NEW e \in q.pending \cup q.groups
          PROVE  \E d \in Claims(r) : left[d] # {} /\ e = after[d]
      <3>1. CASE e \in next
        <4>1. PICK p \in filled : e = ent(p).group /\ e.active # {}
          BY <1>11, <3>1
        <4>2. p \in Claims(r) /\ left[p] # {} /\ e = after[p]
          BY <1>4, <1>10, <1>12, <4>1
        <4>. QED
          BY <4>2
      <3>2. CASE e \in waiting
        <4>1. PICK p \in routed : e = kept(p)
          BY <1>11, <3>2
        <4>2. p \in Claims(r) /\ left[p] = p.cells /\ e = after[p] /\ p \in r.pending
          BY <1>4, <1>10, <1>12, <4>1
        <4>3. p.cells # {}
          BY <1>1, <4>2 DEF PendingOf
        <4>. QED
          BY <4>2, <4>3
      <3>3. CASE e \in r.groups
        <4>1. e \in Claims(r) /\ e \notin r.pending
          BY <1>1, <3>3 DEF Claims
        <4>2. after[e] = e /\ left[e] = HeldBy(r, e)
          BY <1>4, <1>10, <4>1
        <4>3. HeldBy(r, e) # {}
          BY <1>1, <4>1, ClaimIs
        <4>. QED
          BY <4>1, <4>2, <4>3
      <3>. QED
        BY <1>16, <3>1, <3>2, <3>3
    <2>2. ASSUME NEW d \in Claims(r), left[d] # {} PROVE after[d] \in q.pending \cup q.groups
      BY <1>18, <2>2
    <2>. QED
      BY <2>1, <2>2
  <1>20. (\A p \in q.pending : PendingOf(p, n)) /\ (\A g \in q.groups : GroupOf(g, n))
    <2>1. ASSUME NEW g \in next PROVE GroupOf(g, n)
      <3>1. PICK p \in filled : g = ent(p).group /\ g.active # {}
        BY <1>11
      <3>2. GroupShape(g, n)
        BY <1>7, <3>1
      <3>. QED
        BY <3>1, <3>2 DEF GroupShape, GroupOf
    <2>2. \A k \in waiting : PendingOf(k, n)
      BY <1>9, <1>11
    <2>3. \A g \in r.groups : GroupOf(g, n)
      BY <1>1 DEF Shaped
    <2>. QED
      BY <1>16, <2>1, <2>2, <2>3
  <1>21. Settles(r, q, results, n)
    <2>1. Records(r, exits, n)
      BY <1>17 DEF Records
    <2>2. GoesOn(r, q, left, after, n)
      BY <1>18, <1>19, <1>20 DEF GoesOn
    <2>. QED
      BY <1>1, <1>14, <1>15, <1>16, <2>1, <2>2, SettlesBy
  <1>22. Closed(q)
    <2>. SUFFICES ASSUME NEW g \in q.groups, NEW i \in ev(g), stream[i].terminal PROVE FALSE
      BY DEF Closed, ev
    <2>1. CASE g \in next
      <3>1. PICK p \in filled : g = ent(p).group /\ g.active # {}
        BY <1>11, <2>1
      <3>2. ev(g) = ev(p)
        BY <1>7, <3>1 DEF ev
      <3>3. i > rt(p).at
        BY <1>3, <1>4, <3>2
      <3>. QED
        BY <1>7, <3>1, <3>2, <3>3
    <2>2. CASE g \in r.groups
      BY <2>2 DEF Closed, ev
    <2>. QED
      BY <1>16, <2>1, <2>2
  <1>23. Unended(q)
    <2>. SUFFICES ASSUME NEW k \in q.pending, NEW i \in ev(k), stream[i].terminal PROVE FALSE
      BY DEF Unended, ev
    <2>1. PICK p \in routed : k = kept(p)
      BY <1>11, <1>16
    <2>2. ev(k) = ev(p)
      BY <1>9, <2>1 DEF ev
    <2>. QED
      BY <1>3, <1>4, <2>2
  <1>24. PendingRun(r, q)
    <2>1. \A k \in q.pending : \E p \in r.pending :
            rt(p).verdict = "ROUTED" /\ k = [p EXCEPT !.gate = rt(p).gate]
      BY <1>11, <1>16 DEF routed, kept
    <2>2. \A g \in q.groups : g \in r.groups \/ \E p \in r.pending :
            rt(p).verdict = "FILLED" /\ OfRoute(g, p) /\ g.entry = rt(p).at
      <3>. SUFFICES ASSUME NEW g \in q.groups, g \notin r.groups
                    PROVE  \E p \in r.pending :
                             rt(p).verdict = "FILLED" /\ OfRoute(g, p) /\ g.entry = rt(p).at
        OBVIOUS
      <3>1. PICK p \in filled : g = ent(p).group
        BY <1>11, <1>16
      <3>2. p \in r.pending /\ rt(p).verdict = "FILLED"
        BY DEF filled
      <3>3. OfRoute(g, p) /\ g.entry = rt(p).at
        BY <1>7, <3>1 DEF OfRoute
      <3>. QED
        BY <3>2, <3>3
    <2>3. \A x \in q.records : x \in r.records \/ \E p \in r.pending :
            /\ OfRoute(x, p)
            /\ \/ rt(p).verdict = "FILLED" /\ x.status = "ENTRY_FILLED" /\ x.entry = rt(p).at
               \/ rt(p).verdict \notin {"ROUTED", "FILLED"} /\ x.status = "ENTRY_NOT_FILLED"
      <3>. SUFFICES ASSUME NEW x \in q.records, x \notin r.records
                    PROVE  \E p \in r.pending :
                      /\ OfRoute(x, p)
                      /\ \/ rt(p).verdict = "FILLED" /\ x.status = "ENTRY_FILLED" /\ x.entry = rt(p).at
                         \/ rt(p).verdict \notin {"ROUTED", "FILLED"} /\ x.status = "ENTRY_NOT_FILLED"
        OBVIOUS
      <3>1. x \in results
        BY <1>16 DEF Stored
      <3>2. CASE \E p \in refused : x \in refusals(p)
        <4>1. PICK p \in refused : x \in refusals(p)
          BY <3>2
        <4>2. p \in r.pending /\ rt(p).verdict \notin {"ROUTED", "FILLED"}
          BY DEF refused
        <4>3. OfRoute(x, p) /\ x.status = "ENTRY_NOT_FILLED"
          BY <1>8, <4>1 DEF OfRoute
        <4>. QED
          BY <4>2, <4>3
      <3>3. CASE \E p \in filled : x \in ent(p).exits
        <4>1. PICK p \in filled : x \in ent(p).exits
          BY <3>3
        <4>2. p \in r.pending /\ rt(p).verdict = "FILLED"
          BY DEF filled
        <4>3. OfRoute(x, p) /\ x.status = "ENTRY_FILLED" /\ x.entry = rt(p).at
          BY <1>7, <4>1 DEF OfRoute
        <4>. QED
          BY <4>2, <4>3
      <3>. QED
        BY <1>11, <3>1, <3>2, <3>3
    <2>. QED
      BY <2>1, <2>2, <2>3 DEF PendingRun, rt, ev
  <1>. QED
    BY <1>21, <1>22, <1>23, <1>24

-----------------------------------------------------------------------------
(* Observing the group, and refusing what is left.                         *)

LEMMA CoreGrows ==
  ASSUME NEW r, NEW m \in Nat, NEW n \in Nat, m <= n, Core(r, m)
  PROVE  Core(r, n)
  <1>1. 1..m \subseteq 1..n /\ 0..m \subseteq 0..n
    OBVIOUS
  <1>2. \A p : PendingOf(p, m) => PendingOf(p, n)
    BY <1>1 DEF PendingOf
  <1>3. \A g : GroupOf(g, m) => GroupOf(g, n)
    <2>. SUFFICES ASSUME NEW g, GroupOf(g, m) PROVE GroupOf(g, n)
      OBVIOUS
    <2>1. g.triggers \in [Grid -> 0..n]
      BY <1>1 DEF GroupOf
    <2>. QED
      BY <1>1, <2>1 DEF GroupOf
  <1>4. \A x : ResultOf(x, m) => ResultOf(x, n)
    BY <1>1 DEF ResultOf
  <1>. QED
    BY <1>2, <1>3, <1>4 DEF Core, Shaped

LEMMA ObserveKeeps ==
  ASSUME stream \in Seq(Quote), flushed \in 0..Len(stream),
         NEW r, Core(r, Len(stream)), Observed(r, flushed), Closed(r), Unended(r),
         NEW q, q = ObserveGroup(r)
  PROVE  Core(q, Len(stream)) /\ Observed(q, Len(stream)) /\ q.cursor = r.cursor
  <1> DEFINE n == Len(stream)
             latest == [c \in Contracts |-> IF Events(c) = {} THEN r.latest[c] ELSE Max(Events(c))]
             terminated == r.terminated \cup
                             {c \in Contracts : \E i \in Events(c) : stream[i].terminal}
  <1>1. n \in Nat /\ IsReplay(r) /\ flushed \in Nat /\ r.terminated \subseteq Contracts
    BY StreamTypes DEF Core, Shaped
  <1>2. q = [r EXCEPT !.latest = latest, !.terminated = terminated]
    BY DEF ObserveGroup
  <1>3. terminated \subseteq Contracts
    BY <1>1
  <1>4. \A c \in Contracts : latest[c] = LastOf({i \in 1..n : stream[i].contract = c})
    <2>. SUFFICES ASSUME NEW c \in Contracts
                  PROVE  (IF Events(c) = {} THEN r.latest[c] ELSE Max(Events(c)))
                           = LastOf({i \in 1..n : stream[i].contract = c})
      BY Zenon
    <2> DEFINE all == {i \in 1..n : stream[i].contract = c}
               old == {i \in 1..flushed : stream[i].contract = c}
    <2>1. 1..n = (1..flushed) \cup (flushed + 1..n)
      BY <1>1
    <2>2. all = old \cup Events(c)
      BY <2>1 DEF Events
    <2>3. Events(c) \subseteq flushed + 1..n /\ old \subseteq 1..flushed
      BY DEF Events
    <2>4. r.latest[c] = LastOf(old)
      BY DEF Observed
    <2> HIDE DEF all, old
    <2>5. CASE Events(c) = {}
      <3>1. all = old
        BY <2>2, <2>5
      <3>. QED
        BY <2>4, <2>5, <3>1 DEF all
    <2>6. CASE Events(c) # {}
      <3>1. Events(c) \subseteq 0..n
        BY <1>1, <2>3
      <3>2. Max(Events(c)) \in Events(c) /\ \A k \in Events(c) : Max(Events(c)) >= k
        BY <1>1, <2>6, <3>1, MaxIs
      <3>3. all \subseteq 1..n /\ all # {}
        BY <2>2, <2>6 DEF all
      <3>4. LastOf(all) \in all /\ \A k \in all : LastOf(all) >= k
        BY <1>1, <3>3, LastOfIs
      <3>5. LastOf(all) >= Max(Events(c))
        BY <2>2, <3>2, <3>4
      <3>6. LastOf(all) \in Events(c)
        <4>1. Max(Events(c)) \in flushed + 1..n
          BY <2>3, <3>2
        <4>2. LastOf(all) \in 1..n
          BY <3>3, <3>4
        <4>3. LastOf(all) > flushed
          BY <1>1, <3>5, <4>1, <4>2
        <4>4. LastOf(all) \notin old
          BY <1>1, <2>3, <4>2, <4>3
        <4>. QED
          BY <2>2, <3>4, <4>4
      <3>7. LastOf(all) <= Max(Events(c))
        BY <3>1, <3>2, <3>6
      <3>8. LastOf(all) = Max(Events(c))
        BY <3>1, <3>2, <3>5, <3>6, <3>7
      <3>. QED
        BY <2>6, <3>8 DEF all
    <2>. QED
      BY <2>5, <2>6
  <1>5. \A c \in Contracts :
          c \in terminated <=> \E i \in 1..n : stream[i].contract = c /\ stream[i].terminal
    <2>1. 1..n = (1..flushed) \cup (flushed + 1..n)
      BY <1>1
    <2>. QED
      BY <2>1 DEF Events, Observed
  <1>6. \A x \in r.pending \cup r.groups : seeds[x.signal].contract \notin terminated
    BY DEF Core, Flat, Closed, Unended
  <1> HIDE DEF latest, terminated
  <1>7. /\ IsReplay(q) /\ q.cursor = r.cursor /\ q.pending = r.pending /\ q.groups = r.groups
        /\ q.records = r.records /\ q.occupied = r.occupied
        /\ q.latest = latest /\ q.terminated = terminated
    BY <1>1, <1>2 DEF IsReplay
  <1>8. latest = [c \in Contracts |-> LastOf({i \in 1..n : stream[i].contract = c})]
    BY <1>4 DEF latest
  <1>9. Observed(q, n)
    BY <1>5, <1>7, <1>8 DEF Observed
  <1>10. Live(q) = Live(r)
    BY <1>7 DEF Live, Holds
  <1>11. Shaped(q, n)
    BY <1>3, <1>7 DEF Core, Shaped
  <1>12. Flat(q)
    BY <1>6, <1>7 DEF Flat
  <1>13. Sole(q) /\ Exact(q) /\ Accounts(q) /\ Sights(q) /\ Serial(q) /\ Skips(q)
    BY <1>7, <1>10 DEF Core, Sole, Exact, Accounts, Sights, Serial, Skips
  <1>. QED
    BY <1>7, <1>9, <1>11, <1>12, <1>13 DEF Core

LEMMA FinalIs ==
  ASSUME NEW n \in Nat, NEW p, PendingOf(p, n)
  PROVE  /\ FinalFailure(p) \in 0..n
         /\ \/ FinalReason(p) = "NO_ENTRY_ELIGIBILITY_EVENT"
            \/ /\ FinalReason(p) = "STALE_BBO_DURING_ROUTE"
               /\ FinalFailure(p) = p.gate /\ p.gate # 0
               /\ Eligibility(p.signal, p.scenario) - Time(p.gate) > MaxQuoteAge
  <1>1. p.gate \in 0..n /\ p.gate # 0 /\ 0 \in 0..n
    BY DEF PendingOf
  <1>2. CASE Eligibility(p.signal, p.scenario) - Time(p.gate) > MaxQuoteAge
    BY <1>1, <1>2 DEF FinalFailure, FinalReason
  <1>3. CASE ~(Eligibility(p.signal, p.scenario) - Time(p.gate) > MaxQuoteAge)
    BY <1>1, <1>3 DEF FinalFailure, FinalReason
  <1>. QED
    BY <1>2, <1>3

\* What the end of the stream does to the routes.
AllRefused(r, q) ==
  /\ q.pending = {} /\ q.groups = r.groups
  /\ \A x \in q.records :
       \/ x \in r.records
       \/ x.status = "ENTRY_NOT_FILLED" /\ \E p \in r.pending : OfRoute(x, p)

LEMMA RefuseSettles ==
  ASSUME seeds \in SeedLists, stream \in Seq(Quote), NEW r, Core(r, Len(stream)),
         \A p \in r.pending : \A s \in p.signal + 1..r.cursor : seeds[s].ts <= Time(Len(stream)),
         NEW q, q = RefusePending(r)
  PROVE  /\ \E results : Settles(r, q, results, Len(stream))
         /\ AllRefused(r, q)
  <1> DEFINE n == Len(stream)
             refusals(p) == Refusals(p, FinalReason(p), FinalFailure(p))
             results == UNION {refusals(p) : p \in r.pending}
             left == [d \in Claims(r) |-> IF d \in r.pending THEN {} ELSE HeldBy(r, d)]
             exits == [d \in Claims(r) |-> IF d \in r.pending THEN refusals(d) ELSE {}]
             after == [d \in Claims(r) |-> d]
             stored == StoreResults(r, results)
  <1>1. Shaped(r, n) /\ IsReplay(r) /\ Sole(r) /\ r.pending \cap r.groups = {} /\ n \in Nat
        /\ (\A p \in r.pending : PendingOf(p, n)) /\ (\A g \in r.groups : GroupOf(g, n))
    BY StreamTypes, ClaimKinds DEF Core, Shaped
  <1>2. q = [stored EXCEPT !.pending = {}]
    BY DEF RefusePending
  <1>3. ASSUME NEW p \in r.pending
        PROVE  /\ \A x \in refusals(p) :
                    /\ x.signal = p.signal /\ x.scenario = p.scenario /\ x.cell \in p.cells
                    /\ x.status = "ENTRY_NOT_FILLED" /\ x.decision = p.decision
                    /\ x.reason = FinalReason(p) /\ x.failure = FinalFailure(p) /\ x.entry = 0
               /\ \A cell \in p.cells : \E x \in refusals(p) : x.cell = cell
               /\ \A x, y \in refusals(p) : x.cell = y.cell => x = y
    BY RefusalsAre
  <1>4. \A d \in Claims(r) : /\ left[d] = IF d \in r.pending THEN {} ELSE HeldBy(r, d)
                             /\ exits[d] = IF d \in r.pending THEN refusals(d) ELSE {}
                             /\ after[d] = d
    BY Zenon
  <1>5. \A x : x \in AllOf(r, exits) <=> \E d \in Claims(r) : x \in exits[d]
    BY Zenon DEF AllOf
  <1>6. \A x : x \in results <=> \E p \in r.pending : x \in refusals(p)
    BY Zenon
  <1>7. Stored(r, stored, results) /\ stored.groups = r.groups
    <2> HIDE DEF results
    <2>. QED
      BY <1>1, StoreIs
  <1> HIDE DEF refusals, results, left, exits, after, stored
  <1>8. \A d \in r.pending : d \in Claims(r) /\ HeldBy(r, d) = d.cells
    BY DEF Claims, HeldBy
  <1>9. results = AllOf(r, exits)
    <2>1. \A x : x \in results <=> x \in AllOf(r, exits)
      BY <1>4, <1>5, <1>6, <1>8
    <2>. QED
      BY <2>1
  <1>10. Parts(r, left, exits)
    BY <1>3, <1>4, <1>8 DEF Parts
  <1>11. Stored(r, q, results) /\ q.pending = {} /\ q.groups = r.groups
    <2>1. IsReplay(stored)
      BY <1>7 DEF Stored
    <2>2. /\ IsReplay(q) /\ q.cursor = stored.cursor /\ q.pending = {}
          /\ q.groups = stored.groups /\ q.latest = stored.latest /\ q.terminated = stored.terminated
          /\ q.records = stored.records /\ q.occupied = stored.occupied
      BY <1>2, <2>1 DEF IsReplay
    <2>. QED
      BY <1>7, <2>2 DEF Stored
  <1>12. Records(r, exits, n)
    <2>. SUFFICES ASSUME NEW d \in Claims(r), NEW x \in exits[d]
                  PROVE  /\ x.status \in {"ENTRY_NOT_FILLED", "ENTRY_FILLED"}
                         /\ x.decision = d.decision /\ x.failure \in 0..n
                         /\ x.status = "ENTRY_FILLED" => x.entry \in 1..n /\ x.fill \in 1..n
                         /\ x.status # "ENTRY_FILLED" => x.entry = 0
                         /\ \A s \in x.signal + 1..r.cursor : HeldBeyond(x, seeds[s].ts)
      BY DEF Records
    <2>1. d \in r.pending /\ x \in refusals(d)
      BY <1>4
    <2>2. /\ x.signal = d.signal /\ x.scenario = d.scenario
          /\ x.status = "ENTRY_NOT_FILLED" /\ x.decision = d.decision
          /\ x.reason = FinalReason(d) /\ x.failure = FinalFailure(d) /\ x.entry = 0
      BY <1>3, <2>1
    <2>3. FinalFailure(d) \in 0..n /\ RefusedAtTheEnd(x)
      <3>1. /\ FinalFailure(d) \in 0..n
            /\ \/ FinalReason(d) = "NO_ENTRY_ELIGIBILITY_EVENT"
               \/ /\ FinalReason(d) = "STALE_BBO_DURING_ROUTE"
                  /\ FinalFailure(d) = d.gate /\ d.gate # 0
                  /\ Eligibility(d.signal, d.scenario) - Time(d.gate) > MaxQuoteAge
        BY <1>1, <2>1, FinalIs
      <3>. QED
        BY <2>2, <3>1 DEF RefusedAtTheEnd
    <2>4. \A s \in x.signal + 1..r.cursor : HeldBeyond(x, seeds[s].ts)
      BY <2>1, <2>2, <2>3 DEF HeldBeyond
    <2>. QED
      BY <2>2, <2>3, <2>4
  <1>13. GoesOn(r, q, left, after, n)
    <2>1. \A d \in Claims(r) : left[d] # {} => d \in r.groups /\ d \notin r.pending
                                               /\ after[d] = d /\ left[d] = d.active
      BY <1>4 DEF Claims, HeldBy
    <2>2. \A g \in r.groups : g \in Claims(r) /\ left[g] # {} /\ after[g] = g
      <3>1. \A g \in r.groups : g.active # {}
        BY <1>1 DEF GroupOf
      <3>. QED
        BY <1>1, <1>4, <3>1 DEF Claims, HeldBy
    <2>3. q.pending \cup q.groups = {after[d] : d \in {d \in Claims(r) : left[d] # {}}}
      BY <1>11, <2>1, <2>2
    <2>. QED
      BY <1>1, <1>11, <2>1, <2>3 DEF GoesOn
  <1>14. Settles(r, q, results, n)
    BY <1>1, <1>9, <1>10, <1>11, <1>12, <1>13, SettlesBy
  <1>15. AllRefused(r, q)
    <2>1. \A x \in results : x.status = "ENTRY_NOT_FILLED" /\ \E p \in r.pending : OfRoute(x, p)
      BY <1>3, <1>6 DEF OfRoute
    <2>. QED
      BY <1>11, <2>1 DEF AllRefused, Stored
  <1>. QED
    BY <1>14, <1>15

-----------------------------------------------------------------------------
(* Entries follow their routes over the buffered events.                   *)

\* The smaller of two durations.
LEMMA MinOfTwo ==
  ASSUME NEW a \in Nat, NEW b \in Nat
  PROVE  Min({a, b}) = IF a <= b THEN a ELSE b
  <1>1. Min({a, b}) \in {a, b} /\ \A k \in {a, b} : Min({a, b}) <= k
    BY MinIs, {a, b} \subseteq Nat
  <1>. QED
    BY <1>1

\* Every entry has an eligibility.
LEMMA DueIs ==
  ASSUME seeds \in SeedLists, NEW x, x.signal \in Signals, x.scenario \in Scenarios
  PROVE  Due(x) \in Nat
  <1>1. seeds[x.signal].ts \in Nat
    BY SeedTypes
  <1>2. Scenario[x.scenario] \in [routingDelay : Nat, entryAdverse : Nat, tradeThrough : Nat,
                                  stopLatency : Nat, stopAdverse : Nat, terminalAdverse : Nat]
    BY ScenariosHaveRules DEF Scenarios
  <1>3. Scenario[x.scenario].routingDelay \in Nat
    BY <1>2
  <1>. QED
    BY <1>1, <1>3 DEF Due, Eligibility

\* The price an entry loses against the frozen one.
LEMMA LossIs ==
  ASSUME seeds \in SeedLists, stream \in Seq(Quote), NEW x, x.signal \in Signals,
         x.scenario \in Scenarios, NEW i \in 1..Len(stream), NEW k \in 1..Len(stream)
  PROVE  Loss(Side(x.signal), EntryPrice(x, i), Opposite(k, Side(x.signal))) \in Int
  <1>1. PICK e \in Int : e = Scenario[x.scenario].entryAdverse
    <2>1. Scenario[x.scenario] \in [routingDelay : Nat, entryAdverse : Nat, tradeThrough : Nat,
                                    stopLatency : Nat, stopAdverse : Nat, terminalAdverse : Nat]
      BY ScenariosHaveRules DEF Scenarios
    <2>2. Scenario[x.scenario].entryAdverse \in Nat
      BY <2>1
    <2>. QED
      BY <2>2
  <1>2. \A j \in 1..Len(stream) : stream[j].bid \in Int /\ stream[j].ask \in Int
    <2>1. \A j \in 1..Len(stream) : stream[j] \in Quote
      OBVIOUS
    <2>. QED
      BY <2>1 DEF Quote
  <1>3. \A j \in 1..Len(stream) : \A side : Opposite(j, side) \in Int
    BY <1>2 DEF Opposite
  <1>4. PICK u \in Int : u = Opposite(i, Side(x.signal))
    BY <1>3
  <1>5. PICK v \in Int : v = Opposite(k, Side(x.signal))
    BY <1>3
  <1>6. EntryPrice(x, i) \in Int
    BY <1>1, <1>4 DEF EntryPrice, Better, Worse
  <1>. QED
    BY <1>5, <1>6 DEF Loss

\* The two verdicts that do not refuse.
LEMMA VerdictIs ==
  ASSUME NEW p, NEW i, Time(i) \in Nat, Due(p) \in Nat
  PROVE  /\ RouteVerdict(p, i) = "ROUTED" <=>
              /\ ~stream[i].terminal /\ Time(i) < Due(p) /\ Valid(i)
              /\ ~(Time(i) - Time(p.gate) > MaxQuoteAge)
         /\ RouteVerdict(p, i) = "FILLED" <=>
              /\ ~stream[i].terminal /\ ~(Time(i) < Due(p))
              /\ ~(Due(p) - Time(p.gate) > MaxQuoteAge)
              /\ Valid(EligibilityQuote(p, i)) /\ Valid(i)
              /\ ~(Loss(Side(p.signal), EntryPrice(p, i),
                        Opposite(EligibilityQuote(p, i), Side(p.signal))) > 0)
  <1> DEFINE stale == Min({Time(i), Due(p)}) - Time(p.gate) > MaxQuoteAge
             worse == Loss(Side(p.signal), EntryPrice(p, i),
                           Opposite(EligibilityQuote(p, i), Side(p.signal))) > 0
             early == Time(i) < Due(p)
  <1>1. RouteVerdict(p, i) =
          IF stream[i].terminal THEN "TERMINAL_BEFORE_ENTRY"
          ELSE IF stale THEN "STALE_BBO_DURING_ROUTE"
          ELSE IF early THEN IF Valid(i) THEN "ROUTED" ELSE "INVALID_BBO_DURING_ROUTE"
          ELSE IF ~Valid(EligibilityQuote(p, i)) THEN "INVALID_ENTRY_ELIGIBILITY_BBO"
          ELSE IF ~Valid(i) THEN "INVALID_ENTRY_ATTEMPT_BBO"
          ELSE IF worse THEN "PRICE_OUTSIDE_LIMIT"
          ELSE "FILLED"
    BY Zenon DEF RouteVerdict, Due
  <1>2. Min({Time(i), Due(p)}) = IF early THEN Time(i) ELSE Due(p)
    <2>1. PICK a \in Nat : a = Time(i)
      OBVIOUS
    <2>2. PICK b \in Nat : b = Due(p)
      OBVIOUS
    <2>3. Min({a, b}) = IF a <= b THEN a ELSE b
      BY MinOfTwo
    <2>4. Min({a, b}) = IF a < b THEN a ELSE b
      BY <2>3
    <2>. QED
      BY <2>1, <2>2, <2>4
  <1>3. stale <=> IF early THEN Time(i) - Time(p.gate) > MaxQuoteAge
                  ELSE Due(p) - Time(p.gate) > MaxQuoteAge
    BY <1>2
  <1> HIDE DEF stale, worse, early
  <1>4. RouteVerdict(p, i) = "ROUTED" <=> ~stream[i].terminal /\ ~stale /\ early /\ Valid(i)
    BY <1>1
  <1>5. RouteVerdict(p, i) = "FILLED" <=>
          /\ ~stream[i].terminal /\ ~stale /\ ~early
          /\ Valid(EligibilityQuote(p, i)) /\ Valid(i) /\ ~worse
    BY <1>1
  <1>. QED
    BY <1>3, <1>4, <1>5 DEF early, worse

\* The way from one event of the contract to the next.
LEMMA WayNext ==
  ASSUME Len(stream) \in Nat, NEW p, NEW m \in Nat, p.decision \in 1..m,
         NEW i \in m + 1..Len(stream), stream[i].contract = seeds[p.signal].contract,
         \A k \in m + 1..i - 1 : stream[k].contract # seeds[p.signal].contract
  PROVE  /\ Way(p, i - 1) = Way(p, m) /\ Way(p, i) = Way(p, m) \cup {i}
         /\ Gates(p, i - 1) = Gates(p, m) /\ Gates(p, i) = Gates(p, m) \cup {i}
         /\ Way(p, m) \subseteq 1..m /\ Gates(p, m) \subseteq 1..m
  <1>1. PICK d \in 1..m : d = p.decision
    OBVIOUS
  <1>2. \A n : Way(p, n) = {k \in d + 1..n : stream[k].contract = seeds[p.signal].contract}
    BY <1>1 DEF Way
  <1>3. Way(p, i - 1) = Way(p, m)
    <2>1. \A k \in d + 1..i - 1 : k \in d + 1..m \/ k \in m + 1..i - 1
      OBVIOUS
    <2>2. d + 1..m \subseteq d + 1..i - 1
      OBVIOUS
    <2>. QED
      BY <1>2, <2>1, <2>2
  <1>4. Way(p, i) = Way(p, i - 1) \cup {i}
    <2>1. d + 1..i = (d + 1..i - 1) \cup {i}
      OBVIOUS
    <2>. QED
      BY <1>2, <2>1
  <1>5. Way(p, m) \subseteq 1..m
    <2>1. d + 1..m \subseteq 1..m
      OBVIOUS
    <2>. QED
      BY <1>2, <2>1
  <1>. QED
    BY <1>1, <1>3, <1>4, <1>5 DEF Gates

\* At the first event from the eligibility on, the verdict is that of the routing rules.
LEMMA DecidingEvent ==
  ASSUME seeds \in SeedLists, stream \in Seq(Quote), NEW p, p.signal \in Signals,
         p.scenario \in Scenarios, NEW m \in Nat, m <= Len(stream), EnRoute(p, m),
         NEW i \in m + 1..Len(stream), stream[i].contract = seeds[p.signal].contract,
         \A k \in m + 1..i - 1 : stream[k].contract # seeds[p.signal].contract,
         ~(Time(i) < Due(p))
  PROVE  CleanRoute(p, i) <=> RouteVerdict(p, i) = "FILLED"
  <1>1. /\ Len(stream) \in Nat /\ i \in 1..Len(stream) /\ Due(p) \in Nat
        /\ \A k \in 1..Len(stream) : Time(k) \in Nat
    BY StreamTypes, DueIs
  <1>2. /\ Way(p, i - 1) = Way(p, m) /\ Way(p, i) = Way(p, m) \cup {i}
        /\ Gates(p, i - 1) = Gates(p, m) /\ Gates(p, i) = Gates(p, m) \cup {i}
        /\ Way(p, m) \subseteq 1..m /\ Gates(p, m) \subseteq 1..m
    BY <1>1, WayNext DEF EnRoute
  <1>3. p.gate \in Gates(p, m) /\ p.gate \in 1..m /\ \A k \in Gates(p, m) : k <= p.gate
    BY <1>2 DEF EnRoute
  <1>4. Max(Gates(p, m)) = p.gate
    <2>1. Max(Gates(p, m)) \in Gates(p, m) /\ \A k \in Gates(p, m) : Max(Gates(p, m)) >= k
      <3>1. Gates(p, m) \subseteq 0..m /\ Gates(p, m) # {}
        BY <1>2, <1>3
      <3>. QED
        BY <3>1, MaxIs
    <2>2. Max(Gates(p, m)) \in 1..m /\ Max(Gates(p, m)) <= p.gate /\ Max(Gates(p, m)) >= p.gate
      BY <1>2, <1>3, <2>1
    <2>. QED
      BY <1>3, <2>2
  <1>5. (IF Time(i) = Due(p) THEN i ELSE Max(Gates(p, i - 1))) = EligibilityQuote(p, i)
    BY <1>2, <1>4 DEF EligibilityQuote, Due
  <1>6. EligibilityQuote(p, i) \in {i, p.gate} /\ EligibilityQuote(p, i) \in 1..Len(stream)
    BY <1>1, <1>3 DEF EligibilityQuote
  <1>7. PICK loss \in Int : loss = Loss(Side(p.signal), EntryPrice(p, i),
                                        Opposite(EligibilityQuote(p, i), Side(p.signal)))
    BY <1>1, <1>6, LossIs
  <1>8. (\A k \in Gates(p, i) : Valid(k) /\ ~stream[k].terminal)
          <=> /\ ~stream[i].terminal /\ Valid(EligibilityQuote(p, i)) /\ Valid(i)
    BY <1>2, <1>3, <1>6 DEF EnRoute
  <1>9. \A k \in Way(p, i - 1) : Time(k) < Due(p)
    BY <1>2 DEF EnRoute
  <1>10. Follows(p, p.gate, i) /\ \A l \in Way(p, i) : Follows(p, p.gate, l) => l = i
    <2>1. i > p.gate /\ \A l \in Way(p, m) : l <= p.gate /\ l \in 1..m
      BY <1>2, <1>3 DEF Gates
    <2>2. ~\E l \in Way(p, i) : p.gate < l /\ l < i
      BY <1>1, <1>2, <1>3, <2>1
    <2>3. \A l \in Way(p, i) : l > p.gate => l = i
      BY <1>1, <1>2, <1>3, <2>1
    <2>. QED
      BY <2>1, <2>2, <2>3 DEF Follows
  <1>11. \A k \in Gates(p, m) \ {p.gate} : \E l \in Way(p, i) :
           Follows(p, k, l) /\ Min({Time(l), Due(p)}) - Time(k) <= MaxQuoteAge
    <2>. SUFFICES ASSUME NEW k \in Gates(p, m) \ {p.gate}
                  PROVE  \E l \in Way(p, i) :
                           Follows(p, k, l) /\ Min({Time(l), Due(p)}) - Time(k) <= MaxQuoteAge
      OBVIOUS
    <2>1. PICK l \in Way(p, m) : Follows(p, k, l) /\ Time(l) - Time(k) <= MaxQuoteAge
      BY DEF EnRoute
    <2>2. Time(l) < Due(p) /\ Time(l) \in Nat
      BY <1>1, <1>2, <2>1 DEF EnRoute
    <2>3. Min({Time(l), Due(p)}) = Time(l)
      <3>1. PICK a \in Nat : a = Time(l)
        BY <2>2
      <3>2. Min({a, Due(p)}) = IF a <= Due(p) THEN a ELSE Due(p)
        BY <1>1, MinOfTwo
      <3>. QED
        BY <1>1, <2>2, <3>1, <3>2
    <2>. QED
      BY <1>2, <2>1, <2>3
  <1>12. Min({Time(i), Due(p)}) = Due(p)
    <2>1. PICK a \in Nat : a = Time(i)
      BY <1>1
    <2>2. Min({a, Due(p)}) = IF a <= Due(p) THEN a ELSE Due(p)
      BY <1>1, MinOfTwo
    <2>. QED
      BY <1>1, <2>1, <2>2
  <1>13. (\A k \in Gates(p, i - 1) : \E l \in Way(p, i) :
            Follows(p, k, l) /\ Min({Time(l), Due(p)}) - Time(k) <= MaxQuoteAge)
           <=> ~(Due(p) - Time(p.gate) > MaxQuoteAge)
    <2> DEFINE near(k, l) == Min({Time(l), Due(p)}) - Time(k) <= MaxQuoteAge
    <2>1. near(p.gate, i) <=> ~(Due(p) - Time(p.gate) > MaxQuoteAge)
      BY <1>1, <1>3, <1>12, LimitsAreDurations
    <2>2. \A k \in Gates(p, m) \ {p.gate} : \E l \in Way(p, i) : Follows(p, k, l) /\ near(k, l)
      BY <1>11
    <2>3. i \in Way(p, i)
      BY <1>2
    <2> HIDE DEF near
    <2>4. (\A k \in Gates(p, m) : \E l \in Way(p, i) : Follows(p, k, l) /\ near(k, l))
            <=> near(p.gate, i)
      BY <1>3, <1>10, <2>2, <2>3
    <2>. QED
      BY <1>2, <2>1, <2>4 DEF near
  <1>14. Time(i) >= Due(p)
    BY <1>1
  <1>15. CleanRoute(p, i) <=>
           /\ ~stream[i].terminal /\ Valid(EligibilityQuote(p, i)) /\ Valid(i)
           /\ ~(Due(p) - Time(p.gate) > MaxQuoteAge) /\ loss <= 0
    BY <1>5, <1>7, <1>8, <1>9, <1>13, <1>14, Zenon DEF CleanRoute
  <1>16. loss <= 0 <=> ~(loss > 0)
    OBVIOUS
  <1>. QED
    BY <1>1, <1>7, <1>15, <1>16, VerdictIs

\* An event before the eligibility that does not let the route go on breaks it.
LEMMA BreakingEvent ==
  ASSUME stream \in Seq(Quote), NEW p, Due(p) \in Nat, NEW m \in Nat, m <= Len(stream), EnRoute(p, m),
         NEW i \in m + 1..Len(stream), stream[i].contract = seeds[p.signal].contract,
         \A k \in m + 1..i - 1 : stream[k].contract # seeds[p.signal].contract,
         Time(i) < Due(p), RouteVerdict(p, i) # "ROUTED"
  PROVE  Breaks(p, i)
  <1>1. Len(stream) \in Nat /\ i \in 1..Len(stream) /\ Time(i) \in Nat
    BY StreamTypes
  <1>2. /\ Way(p, i) = Way(p, m) \cup {i} /\ Gates(p, i - 1) = Gates(p, m)
        /\ Way(p, m) \subseteq 1..m /\ Gates(p, m) \subseteq 1..m
    BY <1>1, WayNext DEF EnRoute
  <1>3. p.gate \in Gates(p, i - 1) /\ p.gate \in 1..m /\ \A l \in Way(p, m) : l <= p.gate
    BY <1>2 DEF EnRoute, Gates
  <1>4. Follows(p, p.gate, i)
    BY <1>1, <1>2, <1>3 DEF Follows
  <1>5. stream[i].terminal \/ ~Valid(i) \/ Time(i) - Time(p.gate) > MaxQuoteAge
    BY <1>1, VerdictIs
  <1>. QED
    BY <1>3, <1>4, <1>5 DEF Breaks

\* A waiting entry over events of one timestamp that let it go on.
LEMMA RouteAhead ==
  ASSUME Buffered, NEW p, Due(p) \in Nat, PendingOf(p, Len(stream)), EnRoute(p, flushed),
         NEW ev, ev = Events(seeds[p.signal].contract), NEW m \in flushed..Len(stream),
         NEW E, E = {k \in ev : k <= m},
         \A k \in E : RouteVerdict([p EXCEPT !.gate = GateBefore(p, ev, k)], k) = "ROUTED",
         NEW q, q = [p EXCEPT !.gate = IF E = {} THEN p.gate ELSE Max(E)]
  PROVE  EnRoute(q, m) /\ OfRoute(q, p)
  <1>1. /\ stream \in Seq(Quote) /\ Len(stream) \in Nat /\ flushed \in Nat /\ m \in Nat
        /\ flushed <= m /\ m <= Len(stream) /\ MaxQuoteAge \in Nat
        /\ \A k \in 1..Len(stream) : Time(k) \in Nat
    BY StreamTypes, LimitsAreDurations DEF Buffered
  <1>2. PICK last : last = IF E = {} THEN p.gate ELSE Max(E)
    OBVIOUS
  <1>3. q = [p EXCEPT !.gate = last]
    BY <1>2
  <1>4. /\ q.gate = last /\ q.signal = p.signal /\ q.scenario = p.scenario
        /\ q.decision = p.decision
    BY <1>3 DEF PendingOf
  <1>5. E \subseteq flushed + 1..m /\ E \subseteq 1..Len(stream) /\ E \subseteq Nat
        /\ \A k \in E : \A l \in E : Time(k) = Time(l)
    <2>1. ev \subseteq flushed + 1..Len(stream)
      BY <1>1, EventsAre DEF Buffered
    <2>2. E \subseteq flushed + 1..m /\ E \subseteq flushed + 1..Len(stream)
      BY <1>1, <2>1
    <2>3. \A k \in E : Time(k) = Time(Len(stream))
      BY <2>2 DEF Buffered
    <2>. QED
      BY <1>1, <2>2, <2>3
  <1>6. /\ Way(p, m) = Way(p, flushed) \cup E /\ Gates(p, m) = Gates(p, flushed) \cup E
        /\ Way(p, flushed) \subseteq 1..flushed /\ Gates(p, flushed) \subseteq 1..flushed
    <2>1. PICK d \in 1..flushed : d = p.decision
      BY DEF EnRoute
    <2>2. \A n : Way(p, n) = {k \in d + 1..n : stream[k].contract = seeds[p.signal].contract}
      BY <2>1 DEF Way
    <2>3. ev = {k \in flushed + 1..Len(stream) : stream[k].contract = seeds[p.signal].contract}
      BY DEF Events
    <2>4. E = {k \in flushed + 1..m : stream[k].contract = seeds[p.signal].contract}
      BY <1>1, <2>3
    <2>5. d + 1..m = (d + 1..flushed) \cup (flushed + 1..m) /\ d + 1..flushed \subseteq 1..flushed
      BY <1>1
    <2>6. Way(p, m) = Way(p, flushed) \cup E
      BY <2>2, <2>4, <2>5
    <2>. QED
      BY <2>1, <2>2, <2>5, <2>6 DEF Gates
  <1>7. ASSUME NEW k \in E
        PROVE  /\ ~stream[k].terminal /\ Time(k) < Due(p) /\ Valid(k)
               /\ ~(Time(k) - Time(GateBefore(p, ev, k)) > MaxQuoteAge)
    <2>1. PICK gate : gate = GateBefore(p, ev, k)
      OBVIOUS
    <2>2. PICK h : h = [p EXCEPT !.gate = gate]
      OBVIOUS
    <2>3. h.gate = gate /\ h.signal = p.signal /\ h.scenario = p.scenario
      BY <2>2 DEF PendingOf
    <2>4. Due(h) = Due(p) /\ Time(k) \in Nat /\ RouteVerdict(h, k) = "ROUTED"
      BY <1>1, <1>5, <2>1, <2>2, <2>3 DEF Due
    <2>5. ~stream[k].terminal /\ Time(k) < Due(h) /\ Valid(k) /\ ~(Time(k) - Time(h.gate) > MaxQuoteAge)
      BY <2>4, VerdictIs
    <2>. QED
      BY <2>1, <2>3, <2>4, <2>5
  <1>8. p.gate \in Gates(p, flushed) /\ p.gate \in 1..flushed /\ \A k \in Gates(p, flushed) : k <= p.gate
    BY <1>6 DEF EnRoute
  <1>9. last \in Gates(p, m) /\ \A k \in Gates(p, m) : k <= last
    <2>1. CASE E = {}
      BY <1>2, <1>6, <1>8, <2>1
    <2>2. CASE E # {}
      <3>1. last \in E /\ \A k \in E : last >= k
        <4>1. E \subseteq 0..m
          BY <1>1, <1>5
        <4>. QED
          BY <1>1, <1>2, <2>2, <4>1, MaxIs
      <3>2. last \in flushed + 1..m
        BY <1>5, <3>1
      <3>. QED
        BY <1>1, <1>5, <1>6, <3>1, <3>2
    <2>. QED
      BY <2>1, <2>2
  <1>10. \A k \in Gates(p, m) \ {last} : \E l \in Way(p, m) :
           Follows(p, k, l) /\ Time(l) - Time(k) <= MaxQuoteAge
    <2>. SUFFICES ASSUME NEW k \in Gates(p, m) \ {last}
                  PROVE  \E l \in Way(p, m) : Follows(p, k, l) /\ Time(l) - Time(k) <= MaxQuoteAge
      OBVIOUS
    <2>1. CASE k \in Gates(p, flushed) \ {p.gate}
      <3>1. PICK l \in Way(p, flushed) : Follows(p, k, l) /\ Time(l) - Time(k) <= MaxQuoteAge
        BY <2>1 DEF EnRoute
      <3>. QED
        BY <1>6, <3>1
    <2>2. CASE k \notin Gates(p, flushed) \ {p.gate}
      <3> DEFINE later == {l \in E : l > k}
      <3>1. k \in 1..Len(stream) /\ k \in Nat /\ (k = p.gate \/ k \in E)
        BY <1>1, <1>5, <1>6, <1>8, <2>2
      <3>2. later \subseteq Nat /\ later # {}
        <4>1. CASE k = p.gate
          <5>1. E # {} /\ \A l \in E : l > k
            BY <1>1, <1>2, <1>5, <1>8, <4>1
          <5>. QED
            BY <1>5, <5>1
        <4>2. CASE k \in E
          <5>1. last \in E
            BY <1>1, <1>5, <1>6, <1>9, <3>1, <4>2
          <5>2. last > k
            BY <1>5, <1>9, <3>1, <5>1
          <5>. QED
            BY <1>5, <5>1, <5>2
        <4>. QED
          BY <3>1, <4>1, <4>2
      <3>3. PICK l \in later : \A j \in later : l <= j
        <4> HIDE DEF later
        <4>. QED
          BY <3>2, Least
      <3>4. l \in E /\ l > k /\ \A j \in E : j > k => l <= j
        BY <3>3
      <3>5. Follows(p, k, l)
        <4>1. Way(p, l) \subseteq Way(p, m)
          BY <1>5, <1>1, <3>4 DEF Way, EnRoute
        <4>2. \A j \in Way(p, flushed) : j <= p.gate /\ j \in Nat
          BY <1>6, <1>8 DEF Gates
        <4>3. \A j \in Way(p, m) : k < j => l <= j
          <5>. SUFFICES ASSUME NEW j \in Way(p, m), k < j PROVE l <= j
            OBVIOUS
          <5>1. CASE j \in E
            BY <3>4, <5>1
          <5>2. CASE j \in Way(p, flushed)
            <6>1. j <= p.gate /\ p.gate < flushed + 1 /\ j \in Nat
              BY <1>1, <1>8, <4>2, <5>2
            <6>2. k \notin E
              BY <1>1, <1>5, <1>8, <6>1
            <6>. QED
              BY <1>8, <3>1, <6>1, <6>2
          <5>. QED
            BY <1>6, <5>1, <5>2
        <4>4. \A j \in Way(p, m) : j \in Nat
          BY <1>5, <1>6
        <4>. QED
          BY <1>5, <3>1, <3>4, <4>1, <4>3, <4>4 DEF Follows
      <3>6. Time(l) - Time(k) <= MaxQuoteAge
        <4>1. CASE k \in E
          <5>1. Time(l) = Time(k) /\ Time(k) \in Nat
            BY <1>1, <1>5, <3>4, <4>1
          <5>. QED
            BY <1>1, <5>1
        <4>2. CASE k \notin E
          <5>1. k = p.gate
            BY <3>1, <4>2
          <5>2. {j \in ev : j < l} = {}
            <6>1. \A j \in ev : j < l => j \in E
              <7>1. ev \subseteq Nat
                BY <1>1, EventsAre DEF Buffered
              <7>. QED
                BY <1>1, <1>5, <3>4, <7>1
            <6>2. \A j \in E : j > k
              BY <1>1, <1>5, <1>8, <5>1
            <6>. QED
              BY <1>5, <3>4, <6>1, <6>2
          <5>3. GateBefore(p, ev, l) = k
            BY <5>1, <5>2 DEF GateBefore
          <5>4. ~(Time(l) - Time(k) > MaxQuoteAge)
            BY <1>7, <3>4, <5>3
          <5>5. Time(l) \in Nat /\ Time(k) \in Nat
            BY <1>1, <1>5, <3>1, <3>4
          <5>. QED
            BY <1>1, <5>4, <5>5
        <4>. QED
          BY <4>1, <4>2
      <3>. QED
        BY <1>6, <3>4, <3>5, <3>6
    <2>. QED
      BY <2>1, <2>2
  <1>11. /\ \A k \in Way(p, m) : Time(k) < Due(p)
         /\ \A k \in Gates(p, m) : Valid(k) /\ ~stream[k].terminal
    BY <1>6, <1>7 DEF EnRoute
  <1>12. /\ Due(q) = Due(p) /\ Way(q, m) = Way(p, m) /\ Gates(q, m) = Gates(p, m)
         /\ \A k, l : Follows(q, k, l) <=> Follows(p, k, l)
    <2>1. q.signal = p.signal /\ q.scenario = p.scenario /\ q.decision = p.decision
      BY <1>4
    <2>2. Due(q) = Due(p)
      BY <2>1, Zenon DEF Due
    <2>3. \A n : Way(q, n) = Way(p, n)
      BY <2>1, Zenon DEF Way
    <2>4. Gates(q, m) = Gates(p, m)
      BY <2>1, <2>3, Zenon DEF Gates
    <2>5. \A k, l : Follows(q, k, l) <=> Follows(p, k, l)
      BY <2>3, Zenon DEF Follows
    <2>. QED
      BY <2>2, <2>3, <2>4, <2>5, Zenon
  <1>13. q.decision \in 1..m
    BY <1>1, <1>4 DEF EnRoute
  <1>. QED
    BY <1>4, <1>9, <1>10, <1>11, <1>12, <1>13 DEF EnRoute, OfRoute

\* What the route of a waiting entry over the buffered events comes to.
LEMMA RouteRuns ==
  ASSUME seeds \in SeedLists, Buffered, NEW p, PendingOf(p, Len(stream)), EnRoute(p, flushed),
         NEW rt, rt = Route(p, Events(seeds[p.signal].contract))
  PROVE  /\ rt.verdict = "ROUTED" =>
              \A q : q = [p EXCEPT !.gate = rt.gate] => EnRoute(q, Len(stream)) /\ OfRoute(q, p)
         /\ rt.verdict = "FILLED" => rt.at \in Way(p, Len(stream)) /\ CleanRoute(p, rt.at)
         /\ rt.verdict \notin {"ROUTED", "FILLED"} => Barred(p, Len(stream), FALSE)
  <1> DEFINE ev == Events(seeds[p.signal].contract)
             verdict(i) == RouteVerdict([p EXCEPT !.gate = GateBefore(p, ev, i)], i)
             S == {i \in ev : verdict(i) # "ROUTED"}
             at == FirstOf(S)
             gate == IF at # 0 THEN GateBefore(p, ev, at)
                     ELSE IF ev = {} THEN p.gate ELSE Max(ev)
  <1>1. rt = [verdict |-> IF at = 0 THEN "ROUTED" ELSE verdict(at), at |-> at, gate |-> gate]
    BY Zenon DEF Route
  <1>2. /\ stream \in Seq(Quote) /\ Len(stream) \in Nat /\ flushed \in Nat /\ flushed <= Len(stream)
        /\ Due(p) \in Nat /\ p.signal \in Signals /\ p.scenario \in Scenarios
    BY StreamTypes, DueIs DEF Buffered, PendingOf
  <1>3. /\ ev \subseteq flushed + 1..Len(stream)
        /\ \A k \in flushed + 1..Len(stream) :
             k \in ev <=> stream[k].contract = seeds[p.signal].contract
    BY <1>2 DEF Events
  <1>4. S \subseteq ev /\ \A i \in ev : i \in S <=> verdict(i) # "ROUTED"
    BY Zenon
  <1>5. rt.verdict = (IF at = 0 THEN "ROUTED" ELSE verdict(at)) /\ rt.at = at /\ rt.gate = gate
    <2> HIDE DEF verdict, at, gate
    <2>. QED
      BY <1>1
  <1> HIDE DEF ev, S
  <1>6. /\ at = 0 <=> S = {}
        /\ S # {} => at \in S /\ \A k \in S : at <= k
    <2>1. S \subseteq Nat \ {0}
      BY <1>2, <1>3, <1>4
    <2> HIDE DEF at
    <2>. QED
      BY <2>1, FirstOfIs DEF at
  <1>7. CASE at = 0
    <2>1. rt.verdict = "ROUTED" /\ rt.gate = IF ev = {} THEN p.gate ELSE Max(ev)
      BY <1>5, <1>7
    <2>2. ev = {k \in ev : k <= Len(stream)} /\ Len(stream) \in flushed..Len(stream)
      <3>1. \A k \in ev : k <= Len(stream)
        BY <1>2, <1>3
      <3>2. Len(stream) \in flushed..Len(stream)
        BY <1>2
      <3>. QED
        BY <3>1, <3>2, Zenon
    <2>3. \A k \in ev : verdict(k) = "ROUTED"
      BY <1>4, <1>6, <1>7
    <2>4. ASSUME NEW q, q = [p EXCEPT !.gate = rt.gate]
          PROVE  EnRoute(q, Len(stream)) /\ OfRoute(q, p)
      BY <1>2, <2>1, <2>2, <2>3, <2>4, RouteAhead DEF ev
    <2>. QED
      BY <2>1, <2>4
  <1>8. CASE at # 0
    <2>1. at \in S /\ \A k \in S : at <= k
      BY <1>6, <1>8
    <2>2. PICK i : i = at
      OBVIOUS
    <2>3. i \in ev /\ i \in flushed + 1..Len(stream) /\ i # 0
      BY <1>3, <1>4, <1>8, <2>1, <2>2
    <2>4. rt.verdict = verdict(i) /\ rt.at = i /\ verdict(i) # "ROUTED"
      BY <1>4, <1>5, <1>8, <2>1, <2>2
    <2> DEFINE E == {k \in ev : k <= i - 1}
    <2>5. \A k \in E : verdict(k) = "ROUTED"
      <3>1. \A k \in E : k \in ev /\ ~(i <= k)
        BY <1>2, <1>3, <2>3
      <3>. QED
        BY <1>4, <2>1, <2>2, <3>1
    <2>6. E = {k \in ev : k < i}
      <3>1. \A k \in ev : k <= i - 1 <=> k < i
        BY <1>2, <1>3, <2>3
      <3>. QED
        BY <3>1, Zenon
    <2>7. PICK q : q = [p EXCEPT !.gate = GateBefore(p, ev, i)]
      OBVIOUS
    <2>8. q = [p EXCEPT !.gate = IF E = {} THEN p.gate ELSE Max(E)]
      BY <2>6, <2>7, Zenon DEF GateBefore
    <2>9. i - 1 \in flushed..Len(stream) /\ i - 1 \in Nat /\ i - 1 <= Len(stream) /\ i \in Nat
      BY <1>2, <2>3
    <2>10. EnRoute(q, i - 1) /\ OfRoute(q, p)
      <3> HIDE DEF E
      <3>1. \A k \in E : RouteVerdict([p EXCEPT !.gate = GateBefore(p, ev, k)], k) = "ROUTED"
        BY <2>5
      <3>. QED
        BY <1>2, <2>8, <2>9, <3>1, RouteAhead DEF ev, E
    <2>11. verdict(i) = RouteVerdict(q, i)
      BY <2>7, Zenon
    <2> HIDE DEF verdict, at, gate, E
    <2>12. /\ \A n : Way(q, n) = Way(p, n) /\ Gates(q, n) = Gates(p, n)
           /\ Due(q) = Due(p) /\ (CleanRoute(q, i) <=> CleanRoute(p, i))
           /\ (Breaks(q, i) <=> Breaks(p, i))
      BY <2>10, SameRoute DEF OfRoute
    <2>13. stream[i].contract = seeds[q.signal].contract /\ q.signal = p.signal /\ q.scenario = p.scenario
      BY <1>3, <2>3, <2>10 DEF OfRoute
    <2>14. PICK m : m = i - 1
      OBVIOUS
    <2>15. /\ m \in Nat /\ m <= Len(stream) /\ EnRoute(q, m) /\ i \in m + 1..Len(stream)
           /\ \A k \in m + 1..i - 1 : stream[k].contract # seeds[q.signal].contract
      <3>1. m + 1..i - 1 = {} /\ i \in m + 1..Len(stream)
        BY <1>2, <2>3, <2>9, <2>14
      <3>. QED
        BY <2>9, <2>10, <2>14, <3>1
    <2>16. i \in Way(p, Len(stream)) /\ p.decision \in 1..Len(stream)
      <3>1. p.decision \in 1..flushed
        BY DEF EnRoute
      <3>2. i \in p.decision + 1..Len(stream)
        BY <1>2, <2>3, <3>1
      <3>. QED
        BY <1>2, <2>10, <2>13, <3>1, <3>2 DEF Way, OfRoute
    <2>17. \A k \in Way(p, i - 1) : Time(k) < Due(p)
      BY <2>12, <2>14, <2>15 DEF EnRoute
    <2>18. CASE Time(i) < Due(p)
      <3>1. Breaks(p, i)
        BY <1>2, <2>4, <2>11, <2>12, <2>13, <2>15, <2>18, BreakingEvent
      <3>2. Barred(p, Len(stream), FALSE)
        BY <2>16, <2>17, <3>1 DEF Barred
      <3>3. RouteVerdict(q, i) # "FILLED"
        <4>1. Time(i) \in Nat /\ Due(q) \in Nat /\ Time(i) < Due(q)
          BY <1>2, <2>3, <2>12, <2>18, StreamTypes
        <4>. QED
          BY <4>1, VerdictIs
      <3>. QED
        BY <2>4, <2>11, <3>2, <3>3
    <2>19. CASE ~(Time(i) < Due(p))
      <3>1. CleanRoute(q, i) <=> RouteVerdict(q, i) = "FILLED"
        BY <1>2, <2>12, <2>13, <2>15, <2>19, DecidingEvent
      <3>2. Time(i) >= Due(p)
        BY <1>2, <2>3, <2>19, StreamTypes
      <3>3. RouteVerdict(q, i) # "FILLED" => Barred(p, Len(stream), FALSE)
        BY <2>12, <2>16, <2>17, <3>1, <3>2 DEF Barred, Breaks
      <3>. QED
        BY <2>4, <2>11, <2>12, <2>16, <3>1, <3>3
    <2>. QED
      BY <2>18, <2>19
  <1>. QED
    BY <1>7, <1>8

\* The advance of the groups keeps the entry of each.
LEMMA GroupsRunRoutes ==
  ASSUME NEW r, NEW q, GroupsRun(r, q), NEW m, EnRoutes(r, m), NEW n, Routed(r, n, FALSE)
  PROVE  EnRoutes(q, m) /\ Routed(q, n, FALSE)
  <1>1. ASSUME NEW x, NEW g \in r.groups, OfRoute(x, g), x.entry = g.entry PROVE Followed(x, n)
    <2>1. Followed(g, n)
      BY DEF Routed
    <2>2. Way(x, n) = Way(g, n) /\ (CleanRoute(x, g.entry) <=> CleanRoute(g, g.entry))
      BY <1>1, SameRoute DEF OfRoute
    <2>. QED
      BY <1>1, <2>1, <2>2 DEF Followed, OfRoute
  <1>2. "ENTRY_FILLED" # "ENTRY_NOT_FILLED"
    OBVIOUS
  <1>. QED
    BY <1>1, <1>2 DEF GroupsRun, EnRoutes, Routed

\* The advance of the waiting entries gives each its verdict.
LEMMA PendingRunRoutes ==
  ASSUME seeds \in SeedLists, Buffered, NEW r, NEW q, PendingRun(r, q),
         \A p \in r.pending : PendingOf(p, Len(stream)),
         EnRoutes(r, flushed), Routed(r, Len(stream), FALSE)
  PROVE  EnRoutes(q, Len(stream)) /\ Routed(q, Len(stream), FALSE)
  <1> DEFINE n == Len(stream)
             rt(p) == Route(p, Events(seeds[p.signal].contract))
  <1>1. ASSUME NEW p \in r.pending
        PROVE  /\ rt(p).verdict = "ROUTED" =>
                    \A k : k = [p EXCEPT !.gate = rt(p).gate] => EnRoute(k, n) /\ OfRoute(k, p)
               /\ rt(p).verdict = "FILLED" => rt(p).at \in Way(p, n) /\ CleanRoute(p, rt(p).at)
               /\ rt(p).verdict \notin {"ROUTED", "FILLED"} => Barred(p, n, FALSE)
               /\ p.decision \in 1..n
    <2>1. EnRoute(p, flushed) /\ PendingOf(p, n)
      BY DEF EnRoutes
    <2>2. PICK route : route = rt(p)
      OBVIOUS
    <2>3. p.decision \in 1..n
      BY <2>1 DEF PendingOf
    <2>. QED
      BY <2>1, <2>2, <2>3, RouteRuns
  <1>2. /\ \A k \in q.pending : \E p \in r.pending :
             rt(p).verdict = "ROUTED" /\ k = [p EXCEPT !.gate = rt(p).gate]
        /\ \A g \in q.groups :
             \/ g \in r.groups
             \/ \E p \in r.pending :
                  rt(p).verdict = "FILLED" /\ OfRoute(g, p) /\ g.entry = rt(p).at
        /\ \A x \in q.records :
             \/ x \in r.records
             \/ \E p \in r.pending :
                  /\ OfRoute(x, p)
                  /\ \/ rt(p).verdict = "FILLED" /\ x.status = "ENTRY_FILLED" /\ x.entry = rt(p).at
                     \/ rt(p).verdict \notin {"ROUTED", "FILLED"} /\ x.status = "ENTRY_NOT_FILLED"
    BY Zenon DEF PendingRun
  <1> HIDE DEF n, rt
  <1>3. ASSUME NEW x, NEW p \in r.pending, OfRoute(x, p)
        PROVE  /\ rt(p).verdict = "FILLED" /\ x.entry = rt(p).at => Followed(x, n)
               /\ rt(p).verdict \notin {"ROUTED", "FILLED"} => Barred(x, n, FALSE)
    <2>1. /\ \A k : Way(x, k) = Way(p, k) /\ (CleanRoute(x, k) <=> CleanRoute(p, k))
          /\ Barred(x, n, FALSE) <=> Barred(p, n, FALSE)
      BY <1>3, SameRoute DEF OfRoute
    <2>. QED
      BY <1>1, <1>3, <2>1 DEF Followed, OfRoute
  <1>4. EnRoutes(q, n)
    BY <1>1, <1>2 DEF EnRoutes
  <1>5. "ENTRY_FILLED" # "ENTRY_NOT_FILLED"
    OBVIOUS
  <1>6. Routed(r, n, FALSE)
    BY DEF n
  <1>7. \A g \in q.groups : Followed(g, n)
    BY <1>2, <1>3, <1>6 DEF Routed
  <1>8. \A x \in q.records :
          /\ x.status = "ENTRY_FILLED" => Followed(x, n)
          /\ x.status = "ENTRY_NOT_FILLED" /\ x.decision # 0 /\ x.failure # x.decision =>
               Barred(x, n, FALSE)
    <2>. SUFFICES ASSUME NEW x \in q.records
                  PROVE  /\ x.status = "ENTRY_FILLED" => Followed(x, n)
                         /\ x.status = "ENTRY_NOT_FILLED" /\ x.decision # 0 /\ x.failure # x.decision =>
                              Barred(x, n, FALSE)
      OBVIOUS
    <2>1. CASE x \in r.records
      BY <1>6, <2>1 DEF Routed
    <2>2. CASE x \notin r.records
      <3>1. PICK p \in r.pending :
              /\ OfRoute(x, p)
              /\ \/ rt(p).verdict = "FILLED" /\ x.status = "ENTRY_FILLED" /\ x.entry = rt(p).at
                 \/ rt(p).verdict \notin {"ROUTED", "FILLED"} /\ x.status = "ENTRY_NOT_FILLED"
        BY <1>2, <2>2
      <3>. QED
        BY <1>3, <1>5, <3>1
    <2>. QED
      BY <2>1, <2>2
  <1>9. Routed(q, n, FALSE)
    BY <1>7, <1>8 DEF Routed
  <1>. QED
    BY <1>4, <1>9 DEF n

\* At the end of the stream nothing was eligible.
LEMMA RefusalRoutes ==
  ASSUME NEW r, NEW q, AllRefused(r, q), NEW n \in Nat, EnRoutes(r, n), Routed(r, n, TRUE)
  PROVE  EnRoutes(q, n) /\ Routed(q, n, TRUE)
  <1>1. ASSUME NEW x, NEW p \in r.pending, OfRoute(x, p) PROVE Barred(x, n, TRUE)
    <2>1. EnRoute(p, n)
      BY DEF EnRoutes
    <2>2. Barred(p, n, TRUE)
      BY <2>1 DEF EnRoute, Barred
    <2>. QED
      BY <1>1, <2>2, SameRoute DEF OfRoute
  <1>2. "ENTRY_FILLED" # "ENTRY_NOT_FILLED"
    OBVIOUS
  <1>. QED
    BY <1>1, <1>2 DEF AllRefused, EnRoutes, Routed

-----------------------------------------------------------------------------
(* Flushing the buffer.                                                    *)

\* The signals decided before the buffered timestamp see nothing of the buffer.
LEMMA FlushStarts ==
  ASSUME seeds \in SeedLists, Buffered, NEW r, Core(r, flushed), Observed(r, flushed),
         PacedAt(r, flushed), Traced(r, flushed, FALSE), flushed < Len(stream),
         NEW ts, ts = Time(Len(stream)), NEW before, before \subseteq Signals,
         \A s \in Signals : s \in before <=> seeds[s].ts < ts,
         NEW q, q = ActivateWhile(r, before)
  PROVE  /\ \A i \in flushed + 1..Len(stream) : Time(i) = ts
         /\ \A i \in 1..flushed : Time(i) < ts
         /\ \A i \in 1..Len(stream) : Time(i) <= ts
         /\ Len(stream) \in 1..Len(stream) /\ Len(stream) # 0 /\ ts \in Nat
         /\ Core(q, flushed) /\ Observed(q, flushed) /\ q.cursor \in r.cursor..Len(seeds)
         /\ \A s \in r.cursor + 1..q.cursor : s \in before
         /\ q.cursor < Len(seeds) => q.cursor + 1 \notin before
         /\ Traced(q, flushed, FALSE)
  <1> DEFINE n == Len(stream)
  <1>1. /\ stream \in Seq(Quote) /\ n \in Nat /\ flushed \in 0..n /\ flushed \in Nat
        /\ \A i \in 1..n : Time(i) \in Nat
        /\ Len(seeds) \in Nat /\ Signals = 1..Len(seeds)
        /\ \A s \in Signals : seeds[s].ts \in Nat
        /\ r.cursor \in 0..Len(seeds)
    BY StreamTypes, SeedTypes DEF Buffered, Core, Shaped
  <1>2. /\ \A i \in flushed + 1..n : Time(i) = ts
        /\ \A i \in 1..flushed : Time(i) < ts
        /\ \A i \in 1..n : Time(i) <= ts
        /\ n \in 1..n /\ n # 0 /\ ts \in Nat
    <2>1. n \in flushed + 1..n /\ n \in 1..n
      BY <1>1
    <2>2. \A i \in flushed + 1..n : Time(i) = ts
      BY DEF Buffered
    <2>3. \A i \in 1..flushed : Time(i) < ts
      BY <2>1 DEF Buffered
    <2>4. \A i \in 1..n : i \in 1..flushed \/ i \in flushed + 1..n
      BY <1>1
    <2>. QED
      BY <1>1, <2>1, <2>2, <2>3, <2>4
  <1>4. \A s \in before : s > r.cursor => Decided(s, flushed)
    <2>. SUFFICES ASSUME NEW s \in before, s > r.cursor PROVE Decided(s, flushed)
      OBVIOUS
    <2>1. s \in r.cursor + 1..Len(seeds) /\ seeds[s].ts < ts /\ seeds[s].ts \in Nat
      BY <1>1
    <2>2. \A i \in 1..flushed : Time(i) <= seeds[s].ts
      <3>1. \A i \in 1..flushed : Time(i) < seeds[s].ts /\ i \in 1..n
        BY <1>1, <2>1 DEF PacedAt
      <3>. QED
        BY <1>1, <2>1, <3>1
    <2>3. \A i \in flushed + 1..n : ~(Time(i) <= seeds[s].ts)
      BY <1>2, <2>1
    <2>. QED
      BY <2>2, <2>3 DEF Decided
  <1>5. /\ Core(q, flushed) /\ Observed(q, flushed) /\ q.cursor \in r.cursor..Len(seeds)
        /\ \A s \in r.cursor + 1..q.cursor : s \in before
        /\ q.cursor < Len(seeds) => q.cursor + 1 \notin before
        /\ Traced(q, flushed, FALSE)
    <2>1. stream \in Seq(Quote) /\ flushed \in 0..Len(stream)
      BY <1>1
    <2>. QED
      BY <1>4, <2>1, ActivateWhileKeeps
  <1>. QED
    BY <1>2, <1>5

LEMMA FlushKeeps ==
  ASSUME seeds \in SeedLists, Buffered, NEW r, Core(r, flushed), Observed(r, flushed),
         PacedAt(r, flushed), Traced(r, flushed, FALSE), NEW q, q = FlushBuffer(r)
  PROVE  /\ Core(q, Len(stream)) /\ Observed(q, Len(stream)) /\ PacedAt(q, Len(stream))
         /\ Traced(q, Len(stream), FALSE)
  <1> DEFINE n == Len(stream)
             ts == Time(n)
             r1 == ActivateSignalsBefore(r, ts)
             r2 == AdvanceGroups(r1)
             r3 == AdvancePendingEntries(r2)
             r4 == ObserveGroup(r3)
             r5 == ActivateSignalsAt(r4, ts)
             before == {s \in Signals : seeds[s].ts < ts}
             at == {s \in Signals : seeds[s].ts = ts}
  <1>1. /\ stream \in Seq(Quote) /\ n \in Nat /\ flushed \in 0..n /\ flushed \in Nat
        /\ \A i \in 1..n : Time(i) \in Nat
        /\ Len(seeds) \in Nat /\ Signals = 1..Len(seeds)
        /\ \A s \in Signals : seeds[s].ts \in Nat
        /\ r.cursor \in 0..Len(seeds)
    BY StreamTypes, SeedTypes DEF Buffered, Core, Shaped
  <1>2. CASE n = flushed
    BY <1>2 DEF FlushBuffer
  <1>3. CASE n # flushed
    <2>1. q = r5
      BY <1>3, Zenon DEF FlushBuffer
    <2>3. r1 = ActivateWhile(r, before) /\ r5 = ActivateWhile(r4, at)
      BY DEF ActivateSignalsBefore, ActivateSignalsAt
    <2>4. /\ before \subseteq Signals /\ \A s \in Signals : s \in before <=> seeds[s].ts < ts
          /\ at \subseteq Signals /\ \A s \in Signals : s \in at <=> seeds[s].ts = ts
      OBVIOUS
    <2>5. ts = Time(Len(stream)) /\ flushed < Len(stream)
      BY <1>1, <1>3
    <2> HIDE DEF ts, r1, r2, r3, r4, r5, before, at
    <2>2. /\ \A i \in flushed + 1..n : Time(i) = ts
          /\ \A i \in 1..flushed : Time(i) < ts
          /\ \A i \in 1..n : Time(i) <= ts
          /\ n \in 1..n /\ n # 0 /\ ts \in Nat
      BY <2>3, <2>4, <2>5, FlushStarts
    <2>6. /\ Core(r1, flushed) /\ Observed(r1, flushed) /\ r1.cursor \in r.cursor..Len(seeds)
          /\ \A s \in r.cursor + 1..r1.cursor : s \in before
          /\ r1.cursor < Len(seeds) => r1.cursor + 1 \notin before
          /\ Traced(r1, flushed, FALSE)
      BY <2>3, <2>4, <2>5, FlushStarts
    <2>7. Behind(r1)
      <3>. SUFFICES ASSUME NEW s \in 1..r1.cursor, NEW i \in flushed + 1..n
                    PROVE  Time(i) > seeds[s].ts
        BY DEF Behind
      <3>1. Time(i) = ts /\ s \in Signals
        BY <1>1, <2>2, <2>6
      <3>2. CASE s <= r.cursor
        <4>1. s \in 1..r.cursor
          BY <1>1, <3>1, <3>2
        <4>2. flushed # 0 /\ seeds[s].ts <= Time(flushed)
          BY <4>1 DEF PacedAt
        <4>3. flushed \in 1..flushed /\ flushed \in 1..n
          BY <1>1, <4>2
        <4>4. Time(flushed) < ts /\ Time(flushed) \in Nat
          BY <1>1, <2>2, <4>3
        <4>. QED
          BY <1>1, <2>2, <3>1, <4>2, <4>4
      <3>3. CASE s > r.cursor
        <4>1. s \in r.cursor + 1..r1.cursor
          BY <1>1, <3>1, <3>3
        <4>. QED
          BY <1>1, <2>2, <2>4, <2>6, <3>1, <4>1
      <3>. QED
        BY <1>1, <3>1, <3>2, <3>3
    <2>8. Core(r1, n)
      BY <1>1, <2>6, CoreGrows
    <2>9. Core(r2, n) /\ Closed(r2) /\ r2.cursor = r1.cursor /\ GroupsRun(r1, r2)
          /\ r2.latest = r1.latest /\ r2.terminated = r1.terminated
      <3>1. (\E results : Settles(r1, r2, results, n)) /\ Closed(r2) /\ GroupsRun(r1, r2)
        BY <1>1, <2>7, <2>8, AdvanceGroupsSettles DEF r2
      <3>2. PICK results : Settles(r1, r2, results, n)
        BY <3>1
      <3>3. Core(r2, n)
        BY <1>1, <2>8, <3>2, SettlesKeeps
      <3>. QED
        BY <3>1, <3>2, <3>3 DEF Settles
    <2>10. Behind(r2)
      BY <2>7, <2>9 DEF Behind
    <2>11. Core(r3, n) /\ Closed(r3) /\ Unended(r3) /\ r3.cursor = r1.cursor /\ PendingRun(r2, r3)
           /\ r3.latest = r1.latest /\ r3.terminated = r1.terminated
      <3>1. (\E results : Settles(r2, r3, results, n)) /\ Closed(r3) /\ Unended(r3) /\ PendingRun(r2, r3)
        BY <1>1, <2>9, <2>10, AdvancePendingSettles DEF r3
      <3>2. PICK results : Settles(r2, r3, results, n)
        BY <3>1
      <3>3. Core(r3, n)
        BY <1>1, <2>9, <3>2, SettlesKeeps
      <3>. QED
        BY <2>9, <3>1, <3>2, <3>3 DEF Settles
    <2>12. Observed(r3, flushed)
      BY <2>6, <2>11 DEF Observed
    <2>13. Core(r4, n) /\ Observed(r4, n) /\ r4.cursor = r1.cursor
      BY <1>1, <2>11, <2>12, ObserveKeeps DEF r4
    <2>14. Traced(r4, n, FALSE)
      <3>1. EnRoutes(r1, flushed) /\ Routed(r1, n, FALSE)
        <4>1. EnRoutes(r1, flushed) /\ Routed(r1, flushed, FALSE)
          BY <2>6 DEF Traced
        <4>2. n \in Nat /\ flushed \in Nat /\ flushed <= n
          BY <1>1
        <4> HIDE DEF n
        <4>. QED
          BY <4>1, <4>2, RoutedGrows
      <3>2. EnRoutes(r2, flushed) /\ Routed(r2, n, FALSE)
        BY <2>9, <3>1, GroupsRunRoutes
      <3>3. \A p \in r2.pending : PendingOf(p, n)
        BY <2>9 DEF Core, Shaped
      <3>4. EnRoutes(r3, n) /\ Routed(r3, n, FALSE)
        <4> HIDE DEF n
        <4>. QED
          BY <2>11, <3>2, <3>3, PendingRunRoutes DEF n
      <3>5. r4.pending = r3.pending /\ r4.groups = r3.groups /\ r4.records = r3.records
        BY <2>11 DEF r4, ObserveGroup, Core, Shaped, IsReplay
      <3>. QED
        BY <3>4, <3>5 DEF Traced, EnRoutes, Routed
    <2>15. \A s \in Signals : s > r1.cursor => seeds[s].ts >= ts
      <3>. SUFFICES ASSUME NEW s \in Signals, s > r1.cursor PROVE seeds[s].ts >= ts
        OBVIOUS
      <3>1. r1.cursor + 1 \in Signals /\ r1.cursor + 1 <= s /\ r1.cursor < Len(seeds)
        BY <1>1, <2>6
      <3>2. seeds[r1.cursor + 1].ts >= ts
        BY <1>1, <2>2, <2>4, <2>6, <3>1
      <3>3. seeds[r1.cursor + 1].ts <= seeds[s].ts
        BY <3>1, SeedTypes
      <3>. QED
        BY <1>1, <2>2, <3>1, <3>2, <3>3
    <2>16. \A s \in at : s > r4.cursor => Decided(s, n)
      BY <1>1, <2>2, <2>4 DEF Decided
    <2>17. /\ Core(r5, n) /\ Observed(r5, n) /\ r5.cursor \in r4.cursor..Len(seeds)
           /\ \A s \in r4.cursor + 1..r5.cursor : s \in at
           /\ r5.cursor < Len(seeds) => r5.cursor + 1 \notin at
           /\ Traced(r5, n, FALSE)
      <3>1. n \in 0..n
        BY <1>1
      <3>. QED
        BY <1>1, <2>3, <2>13, <2>16, <2>14, <3>1, ActivateWhileKeeps
    <2>18. \A s \in 1..r5.cursor : n # 0 /\ seeds[s].ts <= ts
      <3>. SUFFICES ASSUME NEW s \in 1..r5.cursor PROVE seeds[s].ts <= ts
        BY <2>2
      <3>1. s \in Signals
        BY <1>1, <2>6, <2>13, <2>17
      <3>2. CASE s <= r1.cursor
        <4>1. s \in 1..r1.cursor
          BY <1>1, <2>6, <3>1, <3>2
        <4>2. n \in flushed + 1..n
          BY <1>1, <1>3
        <4>3. Time(n) > seeds[s].ts
          BY <2>7, <4>1, <4>2 DEF Behind
        <4>. QED
          BY <1>1, <2>2, <3>1, <4>3 DEF ts
      <3>3. CASE s > r1.cursor
        <4>1. s \in r4.cursor + 1..r5.cursor
          BY <1>1, <2>6, <2>13, <3>1, <3>3
        <4>. QED
          BY <1>1, <2>2, <2>4, <2>17, <3>1, <4>1
      <3>. QED
        BY <1>1, <2>6, <3>1, <3>2, <3>3
    <2>19. \A s \in r5.cursor + 1..Len(seeds) : \A i \in 1..n : Time(i) < seeds[s].ts
      <3>. SUFFICES ASSUME NEW s \in r5.cursor + 1..Len(seeds), NEW i \in 1..n
                    PROVE  Time(i) < seeds[s].ts
        OBVIOUS
      <3>1. /\ r5.cursor \in Nat /\ r1.cursor <= r5.cursor /\ r1.cursor \in Nat
            /\ s \in Signals /\ r5.cursor + 1 \in Signals /\ r5.cursor + 1 <= s
            /\ r5.cursor < Len(seeds)
        <4>1. PICK low, high : low = r1.cursor /\ high = r5.cursor
          OBVIOUS
        <4>2. low \in Nat /\ high \in low..Len(seeds) /\ s \in high + 1..Len(seeds)
          BY <1>1, <2>6, <2>13, <2>17, <4>1
        <4>. QED
          BY <1>1, <4>1, <4>2
      <3>2. seeds[r5.cursor + 1].ts >= ts /\ seeds[r5.cursor + 1].ts # ts
        BY <1>1, <2>4, <2>15, <2>17, <3>1
      <3>3. seeds[r5.cursor + 1].ts <= seeds[s].ts
        BY <3>1, SeedTypes
      <3>4. Time(i) <= ts /\ Time(i) \in Nat /\ ts \in Nat
        BY <1>1, <2>2
      <3>5. seeds[r5.cursor + 1].ts \in Nat /\ seeds[s].ts \in Nat
        BY <1>1, <3>1
      <3>. QED
        BY <3>2, <3>3, <3>4, <3>5
    <2>. QED
      BY <2>1, <2>17, <2>18, <2>19 DEF PacedAt, ts
  <1>. QED
    BY <1>2, <1>3

-----------------------------------------------------------------------------
(* The end of the stream.                                                  *)

LEMMA FinishReplayIs ==
  ASSUME NEW r, r.cursor \in 0..Len(seeds), Len(seeds) \in Nat
  PROVE  \E f :
           /\ f[r.cursor] = RefusePending(r)
           /\ \A s \in r.cursor + 1..Len(seeds) :
                f[s] = RefusePending(ActivateSignal(f[s - 1], s))
           /\ FinishReplay(r) = f[Len(seeds)]
  <1> DEFINE lo == r.cursor
             hi == Len(seeds)
             r0 == RefusePending(r)
             f == CHOOSE f : f = [s \in lo..hi |->
                    IF s = lo THEN r0 ELSE RefusePending(ActivateSignal(f[s - 1], s))]
  <1>1. FinishReplay(r) = f[hi]
    BY Zenon DEF FinishReplay
  <1>2. \E g : g = [s \in lo..hi |->
                 IF s = lo THEN r0 ELSE RefusePending(ActivateSignal(g[s - 1], s))]
    <2> HIDE DEF r0
    <2>1. lo \in Nat /\ hi \in Nat /\ lo <= hi
      OBVIOUS
    <2>2. PICK g : Activations(g, r0, lo, hi, TRUE)
      BY <2>1, ActivationsExist
    <2>3. \A s : Activated(g[s - 1], s, TRUE) = RefusePending(ActivateSignal(g[s - 1], s))
      BY DEF Activated
    <2>4. g = [s \in lo..hi |-> IF s = lo THEN r0 ELSE RefusePending(ActivateSignal(g[s - 1], s))]
      BY <2>2, <2>3 DEF Activations
    <2>. QED
      BY <2>4
  <1>3. f = [s \in lo..hi |-> IF s = lo THEN r0 ELSE RefusePending(ActivateSignal(f[s - 1], s))]
    BY <1>2, Zenon
  <1> HIDE DEF f, r0
  <1>4. \A s \in lo..hi : f[s] = IF s = lo THEN r0 ELSE RefusePending(ActivateSignal(f[s - 1], s))
    BY <1>3
  <1>5. f[lo] = r0
    BY <1>4
  <1>6. \A s \in lo + 1..hi : f[s] = RefusePending(ActivateSignal(f[s - 1], s))
    BY <1>4
  <1>. QED
    BY <1>1, <1>5, <1>6 DEF r0

LEMMA RefuseKeeps ==
  ASSUME seeds \in SeedLists, stream \in Seq(Quote), NEW r,
         Core(r, Len(stream)), Observed(r, Len(stream)), Traced(r, Len(stream), TRUE),
         \A p \in r.pending : \A s \in p.signal + 1..r.cursor : seeds[s].ts <= Time(Len(stream)),
         NEW q, q = RefusePending(r)
  PROVE  /\ Core(q, Len(stream)) /\ Observed(q, Len(stream))
         /\ q.cursor = r.cursor /\ q.pending = {} /\ Traced(q, Len(stream), TRUE)
  <1>1. (\E results : Settles(r, q, results, Len(stream))) /\ q.pending = {} /\ AllRefused(r, q)
    BY RefuseSettles DEF AllRefused
  <1>2. PICK results : Settles(r, q, results, Len(stream))
    BY <1>1
  <1>3. Core(q, Len(stream))
    BY <1>2, StreamTypes, SettlesKeeps
  <1>4. q.cursor = r.cursor /\ q.latest = r.latest /\ q.terminated = r.terminated
    BY <1>2 DEF Settles
  <1>5. Traced(q, Len(stream), TRUE)
    <2>1. PICK n : n = Len(stream)
      OBVIOUS
    <2>2. n \in Nat /\ EnRoutes(r, n) /\ Routed(r, n, TRUE)
      BY <2>1, StreamTypes DEF Traced
    <2>. QED
      BY <1>1, <2>1, <2>2, RefusalRoutes DEF Traced
  <1>. QED
    BY <1>1, <1>3, <1>4, <1>5 DEF Observed

\* One more signal at the end of the stream.
LEMMA FinishOne ==
  ASSUME seeds \in SeedLists, stream \in Seq(Quote), NEW r,
         Core(r, Len(stream)), Observed(r, Len(stream)), Traced(r, Len(stream), TRUE), r.pending = {},
         NEW s \in Signals, s = r.cursor + 1, Decided(s, Len(stream)),
         NEW q, q = RefusePending(ActivateSignal(r, s))
  PROVE  /\ Core(q, Len(stream)) /\ Observed(q, Len(stream))
         /\ q.cursor = s /\ q.pending = {} /\ Traced(q, Len(stream), TRUE)
  <1> DEFINE n == Len(stream)
             a == ActivateSignal(r, s)
  <1>1. n \in Nat /\ n \in 0..n /\ seeds[s].contract \in Contracts
    BY StreamTypes, SeedTypes
  <1>2. r.latest[seeds[s].contract] = SeenBy(s) /\ SeenBy(s) \in 0..n
    <2>1. r.latest[seeds[s].contract] = LastOf({i \in 1..n : stream[i].contract = seeds[s].contract})
      BY <1>1, LatestIs
    <2>. QED
      BY <1>1, <2>1, SeenIs DEF Decided
  <1> HIDE DEF a
  <1>3. PICK results, opened : Opens(r, a, s, results, opened, n)
    BY <1>1, <1>2, ActivateOpens DEF a
  <1>4. Core(a, n)
    BY <1>1, <1>3, OpensKeeps DEF Decided
  <1>5. a.cursor = s /\ a.latest = r.latest /\ a.terminated = r.terminated
    BY <1>3 DEF Opens
  <1>6. \A p \in a.pending : p.signal = s
    <2>. SUFFICES ASSUME NEW p \in a.pending PROVE p.signal = s
      OBVIOUS
    <2>1. p \in r.groups \/ p.signal = s
      BY <1>3 DEF Opens
    <2>2. PendingOf(p, n) /\ (p \in r.groups => GroupOf(p, n))
      BY <1>4 DEF Core, Shaped
    <2>. QED
      BY <2>1, <2>2, KindsDiffer
  <1>7. \A p \in a.pending : \A t \in p.signal + 1..a.cursor : seeds[t].ts <= Time(n)
    <2>1. s \in Nat
      BY SeedTypes
    <2>. QED
      BY <1>5, <1>6, <2>1
  <1>8. Observed(a, n)
    BY <1>5 DEF Observed
  <1>9. q = RefusePending(a)
    BY DEF a
  <1>10. Traced(a, n, TRUE)
    <2>1. IsReplay(r)
      BY DEF Core, Shaped
    <2>. QED
      BY <1>1, <2>1, ActivateRoutes DEF a, Traced
  <1>. QED
    BY <1>4, <1>5, <1>7, <1>8, <1>9, <1>10, RefuseKeeps

LEMMA FinishKeeps ==
  ASSUME seeds \in SeedLists, stream \in Seq(Quote), NEW r,
         Core(r, Len(stream)), Observed(r, Len(stream)), PacedAt(r, Len(stream)),
         Traced(r, Len(stream), FALSE), NEW q, q = FinishReplay(r)
  PROVE  /\ Core(q, Len(stream)) /\ Observed(q, Len(stream))
         /\ q.cursor = Len(seeds) /\ q.pending = {} /\ Traced(q, Len(stream), TRUE)
  <1> DEFINE n == Len(stream)
  <1>1. /\ r.cursor \in 0..Len(seeds) /\ Len(seeds) \in Nat /\ Signals = 1..Len(seeds)
        /\ n \in Nat /\ \A i \in 1..n : Time(i) \in Nat
        /\ \A s \in Signals : seeds[s].ts \in Nat
    BY StreamTypes, SeedTypes DEF Core, Shaped
  <1>2. PICK f : /\ f[r.cursor] = RefusePending(r)
                 /\ \A s \in r.cursor + 1..Len(seeds) :
                      f[s] = RefusePending(ActivateSignal(f[s - 1], s))
                 /\ q = f[Len(seeds)]
    BY <1>1, FinishReplayIs
  <1> DEFINE P(s) == /\ Core(f[s], n) /\ Observed(f[s], n)
                     /\ f[s].cursor = s /\ f[s].pending = {} /\ Traced(f[s], n, TRUE)
             Bad == {s \in r.cursor..Len(seeds) : ~P(s)}
  <1>3. P(r.cursor)
    <2>1. ASSUME NEW p \in r.pending, NEW s \in p.signal + 1..r.cursor
          PROVE  seeds[s].ts <= Time(n)
      <3>1. p.signal \in Signals
        BY DEF Core, Shaped, PendingOf
      <3>2. s \in 1..r.cursor
        BY <1>1, <3>1
      <3>. QED
        BY <3>2 DEF PacedAt
    <2>2. Traced(r, n, TRUE)
      BY RoutedEnds DEF Traced
    <2>. QED
      BY <1>2, <2>1, <2>2, RefuseKeeps
  <1>4. ASSUME NEW s \in r.cursor + 1..Len(seeds), P(s - 1) PROVE P(s)
    <2>1. s \in Signals /\ s = f[s - 1].cursor + 1
      BY <1>1, <1>4
    <2>2. Decided(s, n)
      <3>1. \A i \in 1..n : Time(i) < seeds[s].ts
        BY DEF PacedAt
      <3>2. \A i \in 1..n : Time(i) <= seeds[s].ts
        BY <1>1, <2>1, <3>1
      <3>. QED
        BY <1>1, <3>2 DEF Decided
    <2>3. f[s] = RefusePending(ActivateSignal(f[s - 1], s))
      BY <1>2
    <2>4. Core(f[s - 1], n) /\ Observed(f[s - 1], n) /\ f[s - 1].pending = {}
          /\ Traced(f[s - 1], n, TRUE)
      BY <1>4
    <2> HIDE DEF P, Bad
    <2>5. Core(f[s], n) /\ Observed(f[s], n) /\ f[s].cursor = s /\ f[s].pending = {}
          /\ Traced(f[s], n, TRUE)
      <3>1. PICK before : before = f[s - 1]
        OBVIOUS
      <3>2. PICK after : after = f[s]
        OBVIOUS
      <3>3. Core(after, n) /\ Observed(after, n) /\ after.cursor = s /\ after.pending = {}
            /\ Traced(after, n, TRUE)
        <4>1. Core(before, n) /\ Observed(before, n) /\ before.pending = {} /\ Traced(before, n, TRUE)
              /\ s \in Signals /\ s = before.cursor + 1
              /\ after = RefusePending(ActivateSignal(before, s))
          BY <2>1, <2>3, <2>4, <3>1, <3>2
        <4>. QED
          BY <2>2, <4>1, FinishOne
      <3>. QED
        BY <3>2, <3>3
    <2>. QED
      BY <2>5 DEF P
  <1>5. Bad = {}
    <2>. SUFFICES ASSUME Bad # {} PROVE FALSE
      OBVIOUS
    <2>1. Bad \subseteq Nat
      <3> HIDE DEF P
      <3>. QED
        BY <1>1
    <2>2. PICK k \in Bad : \A j \in Bad : k <= j
      <3> HIDE DEF Bad
      <3>. QED
        BY <2>1, Least
    <2>3. k \in r.cursor..Len(seeds) /\ ~P(k)
      OBVIOUS
    <2>4. k # r.cursor
      BY <1>3, <2>3
    <2>5. k \in r.cursor + 1..Len(seeds) /\ k - 1 \in r.cursor..Len(seeds) /\ ~(k <= k - 1)
      <3> HIDE DEF P, Bad
      <3>. QED
        BY <1>1, <2>3, <2>4
    <2>6. P(k - 1)
      <3> HIDE DEF P
      <3>1. k - 1 \notin Bad
        BY <2>2, <2>5, Zenon
      <3>. QED
        BY <2>5, <3>1
    <2>. QED
      BY <1>4, <2>3, <2>5, <2>6
  <1>6. P(Len(seeds))
    <2> HIDE DEF P
    <2>. QED
      BY <1>1, <1>5
  <1>. QED
    BY <1>2, <1>6

-----------------------------------------------------------------------------
(* What the replay has met stays met.                                      *)

\* A route is a matter of the events it has met.
LEMMA RouteStays ==
  ASSUME seeds' = seeds, NEW n \in Nat, \A k \in 1..n : stream'[k] = stream[k],
         NEW x, x.decision \in 1..n
  PROVE  /\ EnRoute(x, n) => EnRoute(x, n)'
         /\ Followed(x, n) => Followed(x, n)'
         /\ \A over : Barred(x, n, over) => Barred(x, n, over)'
  <1>1. PICK d \in 1..n : d = x.decision
    OBVIOUS
  <1>2. \A k \in 1..n : /\ Time(k)' = Time(k) /\ Valid(k)' = Valid(k)
                        /\ stream'[k].terminal = stream[k].terminal
                        /\ \A side : Opposite(k, side)' = Opposite(k, side)
    BY DEF Time, Valid, Opposite
  <1>3. Due(x)' = Due(x) /\ Side(x.signal)' = Side(x.signal)
    BY DEF Due, Eligibility, Side
  <1>4. \A k \in 1..n : EntryPrice(x, k)' = EntryPrice(x, k)
    BY <1>2, <1>3 DEF EntryPrice
  <1>5. ASSUME NEW i \in 0..n PROVE Way(x, i)' = Way(x, i) /\ Way(x, i) \subseteq d + 1..i
    <2>1. d + 1..i \subseteq 1..n
      OBVIOUS
    <2>2. \A k \in d + 1..i : stream'[k].contract = stream[k].contract
      BY <2>1
    <2>. QED
      BY <1>1, <2>2 DEF Way
  <1>6. \A i \in 0..n : Gates(x, i)' = Gates(x, i) /\ Gates(x, i) \subseteq {d} \cup (d + 1..i)
    BY <1>1, <1>5 DEF Gates
  <1>7. \A m \in 1..n : \A k : Follows(x, k, m)' <=> Follows(x, k, m)
    BY <1>5 DEF Follows
  <1>8. \A i \in 0..n : Way(x, i) \subseteq 1..n /\ Gates(x, i) \subseteq 1..n
    <2>1. \A i \in 0..n : d + 1..i \subseteq 1..n
      OBVIOUS
    <2>. QED
      BY <1>5, <1>6, <2>1
  <1>9. ASSUME NEW i \in 1..n PROVE CleanRoute(x, i)' <=> CleanRoute(x, i)
    <2>1. i \in 0..n /\ i - 1 \in 0..n
      OBVIOUS
    <2>2. PICK frozen : frozen = IF Time(i) = Due(x) THEN i ELSE Max(Gates(x, i - 1))
      OBVIOUS
    <2>3. frozen \in 1..n
      <3>1. Max(Gates(x, i - 1)) \in Gates(x, i - 1)
        <4>1. Gates(x, i - 1) \subseteq 0..n /\ Gates(x, i - 1) # {}
          BY <1>8, <2>1 DEF Gates
        <4>. QED
          BY <4>1, MaxIs
      <3>. QED
        BY <1>8, <2>1, <2>2, <3>1
    <2>4. (IF Time(i) = Due(x) THEN i ELSE Max(Gates(x, i - 1)))' = frozen
      BY <1>2, <1>3, <1>6, <2>1, <2>2
    <2>5. Loss(Side(x.signal), EntryPrice(x, i), Opposite(frozen, Side(x.signal)))'
            = Loss(Side(x.signal), EntryPrice(x, i), Opposite(frozen, Side(x.signal)))
      BY <1>2, <1>3, <1>4, <2>3 DEF Loss
    <2>6. (\A k \in Way(x, i - 1) : Time(k) < Due(x))' <=> \A k \in Way(x, i - 1) : Time(k) < Due(x)
      BY <1>2, <1>3, <1>5, <1>8, <2>1
    <2>7. (\A k \in Gates(x, i) : Valid(k) /\ ~stream[k].terminal)'
            <=> \A k \in Gates(x, i) : Valid(k) /\ ~stream[k].terminal
      BY <1>2, <1>6, <1>8, <2>1
    <2>8. (\A k \in Gates(x, i - 1) : \E m \in Way(x, i) :
             Follows(x, k, m) /\ Min({Time(m), Due(x)}) - Time(k) <= MaxQuoteAge)'
            <=> \A k \in Gates(x, i - 1) : \E m \in Way(x, i) :
             Follows(x, k, m) /\ Min({Time(m), Due(x)}) - Time(k) <= MaxQuoteAge
      <3>1. \A k \in 1..n : \A m \in 1..n :
              (Min({Time(m), Due(x)}) - Time(k) <= MaxQuoteAge)'
                <=> Min({Time(m), Due(x)}) - Time(k) <= MaxQuoteAge
        BY <1>2, <1>3
      <3>. QED
        BY <1>5, <1>6, <1>7, <1>8, <2>1, <3>1
    <2>. QED
      BY <1>2, <1>3, <2>2, <2>4, <2>5, <2>6, <2>7, <2>8 DEF CleanRoute
  <1>10. n \in 0..n
    OBVIOUS
  <1>11. EnRoute(x, n) => EnRoute(x, n)'
    BY <1>2, <1>3, <1>5, <1>6, <1>7, <1>8, <1>10 DEF EnRoute
  <1>12. Followed(x, n) => Followed(x, n)'
    BY <1>5, <1>8, <1>9, <1>10 DEF Followed
  <1>13. ASSUME NEW f \in Way(x, n), Breaks(x, f), \A k \in Way(x, f - 1) : Time(k) < Due(x)
         PROVE  Breaks(x, f)' /\ (\A k \in Way(x, f - 1) : Time(k) < Due(x))'
    <2>1. f \in 1..n /\ f \in 0..n /\ f - 1 \in 0..n
      BY <1>8, <1>10
    <2>2. (\A k \in Way(x, f - 1) : Time(k) < Due(x))'
      BY <1>2, <1>3, <1>5, <1>8, <1>13, <2>1
    <2>3. Breaks(x, f)'
      BY <1>2, <1>3, <1>6, <1>7, <1>8, <1>9, <1>13, <2>1 DEF Breaks
    <2>. QED
      BY <2>2, <2>3
  <1>14. ASSUME NEW over, Barred(x, n, over) PROVE Barred(x, n, over)'
    BY <1>2, <1>3, <1>5, <1>8, <1>10, <1>13, <1>14 DEF Barred
  <1>. QED
    BY <1>11, <1>12, <1>14

\* Nor do its verdicts change.
LEMMA RoutesStay ==
  ASSUME seeds' = seeds, NEW n \in Nat, \A k \in 1..n : stream'[k] = stream[k], NEW r, NEW over,
         EnRoutes(r, n), Routed(r, n, over)
  PROVE  EnRoutes(r, n)' /\ Routed(r, n, over)'
  <1>1. \A x : EnRoute(x, n) => EnRoute(x, n)'
    BY RouteStays DEF EnRoute
  <1>2. \A x : Followed(x, n) => Followed(x, n)'
    BY RouteStays DEF Followed
  <1>3. \A x : Barred(x, n, over) => Barred(x, n, over)'
    BY RouteStays DEF Barred
  <1>. QED
    BY <1>1, <1>2, <1>3 DEF EnRoutes, Routed

-----------------------------------------------------------------------------
(* A new event is later than every decision made, and changes none of them.*)

LEMMA AppendIs ==
  ASSUME stream \in Seq(Quote), NEW e \in Quote, stream' = Append(stream, e)
  PROVE  /\ Len(stream) \in Nat /\ Len(stream') = Len(stream) + 1 /\ stream' \in Seq(Quote)
         /\ \A i \in 1..Len(stream) : stream'[i] = stream[i] /\ Time(i)' = Time(i)
         /\ stream'[Len(stream')] = e /\ Time(Len(stream))' = e.ts
  <1>1. /\ Len(stream) \in Nat /\ Len(stream') = Len(stream) + 1 /\ stream' \in Seq(Quote)
        /\ \A i \in 1..Len(stream) : stream'[i] = stream[i]
        /\ stream'[Len(stream')] = e
    OBVIOUS
  <1>. QED
    BY <1>1 DEF Time

\* What no quote enters.
LEMMA SeedsAlone ==
  ASSUME seeds' = seeds, drained' = drained, NEW r, NEW n, Core(r, n)
  PROVE  /\ Shaped(r, n)' /\ Sole(r)' /\ Exact(r)' /\ Accounts(r)' /\ Flat(r)'
         /\ Live(r)' = Live(r) /\ Identities' = Identities
         /\ \A id : SlotOf(id)' = SlotOf(id)
  <1>1. Identities' = Identities
    BY DEF Identities, Signals
  <1>2. \A id : SlotOf(id)' = SlotOf(id)
    BY DEF SlotOf, Slot, Side
  <1>3. Live(r)' = Live(r)
    BY <1>1 DEF Live, Holds
  <1>4. Shaped(r, n)'
    BY <1>1 DEF Core, Shaped, IsReplay, PendingOf, GroupOf, ResultOf, Signals, Identity
  <1>5. Exact(r)'
    BY <1>2, <1>3 DEF Core, Exact
  <1>6. Accounts(r)'
    BY <1>3 DEF Core, Accounts, Ids, Identity
  <1>. QED
    BY <1>1, <1>2, <1>3, <1>4, <1>5, <1>6 DEF Core, Sole, Flat

LEMMA SeenStays ==
  ASSUME seeds \in SeedLists, stream \in Seq(Quote), NEW e \in Quote, stream' = Append(stream, e),
         seeds' = seeds, NEW s \in Signals, seeds[s].ts < e.ts
  PROVE  SeenBy(s)' = SeenBy(s)
  <1> DEFINE seen == {i \in DOMAIN stream : /\ stream[i].contract = seeds[s].contract
                                            /\ Time(i) <= seeds[s].ts}
             after == {i \in DOMAIN stream' : /\ stream'[i].contract = seeds[s].contract
                                             /\ stream'[i].ts <= seeds[s].ts}
  <1>1. /\ Len(stream) \in Nat /\ Len(stream') = Len(stream) + 1 /\ stream' \in Seq(Quote)
        /\ \A i \in 1..Len(stream) : stream'[i] = stream[i]
        /\ stream'[Len(stream')] = e
    BY AppendIs
  <1>2. DOMAIN stream = 1..Len(stream) /\ DOMAIN stream' = 1..Len(stream) + 1
    BY <1>1
  <1>3. e.ts \in Nat /\ seeds[s].ts \in Nat
    BY SeedTypes DEF Quote
  <1>4. ~(stream'[Len(stream) + 1].ts <= seeds[s].ts)
    BY <1>1, <1>3
  <1>5. \A i : i \in seen <=> i \in 1..Len(stream) /\ stream[i].contract = seeds[s].contract
                              /\ stream[i].ts <= seeds[s].ts
    BY <1>2 DEF Time
  <1>6. \A i : i \in after <=> i \in 1..Len(stream) + 1 /\ stream'[i].contract = seeds[s].contract
                               /\ stream'[i].ts <= seeds[s].ts
    BY <1>2
  <1> HIDE DEF seen, after
  <1>7. \A i : i \in seen <=> i \in after
    <2>. SUFFICES ASSUME NEW i PROVE i \in seen <=> i \in after
      OBVIOUS
    <2>1. CASE i \in 1..Len(stream)
      <3>1. i \in 1..Len(stream) + 1 /\ stream'[i] = stream[i]
        BY <1>1, <2>1
      <3>. QED
        BY <1>5, <1>6, <2>1, <3>1
    <2>2. CASE i \notin 1..Len(stream)
      <3>1. i \notin 1..Len(stream) + 1 \/ i = Len(stream) + 1
        BY <1>1, <2>2
      <3>. QED
        BY <1>4, <1>5, <1>6, <2>2, <3>1
    <2>. QED
      BY <2>1, <2>2
  <1>8. seen = after
    BY <1>7
  <1>9. SeenBy(s) = LastOf(seen)
    BY DEF SeenBy, seen
  <1>10. SeenBy(s)' = LastOf(after)
    BY DEF SeenBy, after, Time, LastOf
  <1>. QED
    BY <1>8, <1>9, <1>10

\* The owner of a cell after a new event held it as long as before.
LEMMA BeyondStays ==
  ASSUME seeds \in SeedLists, stream \in Seq(Quote), NEW e \in Quote, stream' = Append(stream, e),
         seeds' = seeds, \A i \in 1..Len(stream) : Time(i) <= e.ts,
         NEW x, x.failure \in 0..Len(stream),
         x.status = "ENTRY_FILLED" => x.fill \in 1..Len(stream), Len(stream) # 0,
         NEW ts \in Nat, HeldBeyond(x, ts)
  PROVE  HeldBeyond(x, ts)'
  <1>1. /\ Len(stream) \in Nat /\ \A i \in 1..Len(stream) : Time(i)' = Time(i) /\ Time(i) \in Nat
        /\ Time(Len(stream))' = e.ts
    BY AppendIs, StreamTypes
  <1>2. Len(stream) \in 1..Len(stream) /\ e.ts \in Nat
    BY <1>1 DEF Quote
  <1>3. RefusedAtTheEnd(x)' <=> RefusedAtTheEnd(x)
    <2>1. CASE x.failure = 0
      BY <2>1 DEF RefusedAtTheEnd
    <2>2. CASE x.failure # 0
      <3>1. Time(x.failure)' = Time(x.failure)
        BY <1>1, <2>2
      <3>2. Eligibility(x.signal, x.scenario)' = Eligibility(x.signal, x.scenario)
        BY DEF Eligibility
      <3>. QED
        BY <3>1, <3>2 DEF RefusedAtTheEnd
    <2>. QED
      BY <2>1, <2>2
  <1>4. CASE x.status = "ENTRY_FILLED" /\ Time(x.fill) > ts
    BY <1>1, <1>4 DEF HeldBeyond
  <1>5. CASE x.status = "ENTRY_NOT_FILLED" /\ RefusedAtTheEnd(x) /\ ts <= Time(Len(stream))
    <2>1. Time(Len(stream)) <= e.ts /\ Time(Len(stream)) \in Nat
      BY <1>1, <1>2
    <2>2. ts <= e.ts
      BY <1>2, <1>5, <2>1
    <2>. QED
      BY <1>1, <1>3, <1>5, <2>2 DEF HeldBeyond
  <1>6. CASE /\ x.status = "ENTRY_NOT_FILLED" /\ ~RefusedAtTheEnd(x)
             /\ x.failure # 0 /\ Time(x.failure) > ts
    <2>1. Time(x.failure)' = Time(x.failure)
      BY <1>1, <1>6
    <2>. QED
      BY <1>3, <1>6, <2>1 DEF HeldBeyond
  <1>. QED
    BY <1>4, <1>5, <1>6 DEF HeldBeyond

LEMMA AppendCore ==
  ASSUME seeds \in SeedLists, stream \in Seq(Quote), NEW e \in Quote, stream' = Append(stream, e),
         seeds' = seeds, drained' = drained, NEW r, NEW n \in 0..Len(stream), Core(r, n),
         \A i \in 1..Len(stream) : Time(i) <= e.ts,
         \A s \in 1..r.cursor : n # 0 /\ seeds[s].ts < e.ts
  PROVE  Core(r, n)'
  <1>1. /\ Shaped(r, n)' /\ Sole(r)' /\ Exact(r)' /\ Accounts(r)' /\ Flat(r)'
        /\ Live(r)' = Live(r) /\ Identities' = Identities
        /\ \A id : SlotOf(id)' = SlotOf(id)
    BY SeedsAlone
  <1>2. /\ Len(stream) \in Nat /\ n \in Nat /\ 0..n \subseteq 0..Len(stream)
        /\ 1..n \subseteq 1..Len(stream)
        /\ Len(seeds) \in Nat /\ Signals = 1..Len(seeds) /\ r.cursor \in 0..Len(seeds)
        /\ \A i \in 1..Len(stream) : Time(i)' = Time(i)
    BY StreamTypes, SeedTypes, AppendIs DEF Core, Shaped
  <1>3. \A x \in r.records : /\ ResultOf(x, n) /\ x.signal \in 1..r.cursor /\ x.signal \in Signals
    <2>. SUFFICES ASSUME NEW x \in r.records
                  PROVE  ResultOf(x, n) /\ x.signal \in 1..r.cursor /\ x.signal \in Signals
      OBVIOUS
    <2>1. Identity(x) \in Ids(r.records)
      BY DEF Ids
    <2>2. Identity(x) \in (1..r.cursor) \X Scenarios \X Cells
      BY <2>1 DEF Core, Accounts
    <2>3. x.signal \in 1..r.cursor
      BY <2>2 DEF Identity
    <2>. QED
      BY <1>2, <2>3 DEF Core, Shaped
  <1>4. Sights(r)'
    <2>. SUFFICES ASSUME NEW x \in r.records \cup r.pending \cup r.groups
                  PROVE  x.decision = SeenBy(x.signal)'
      BY DEF Sights
    <2>1. x.signal \in 1..r.cursor /\ x.signal \in Signals
      <3>1. x \in r.pending \cup r.groups => x.signal \in 1..r.cursor
        BY ClaimsBehind DEF Core
      <3>. QED
        BY <1>2, <1>3, <3>1
    <2>2. SeenBy(x.signal)' = SeenBy(x.signal)
      BY <2>1, SeenStays
    <2>. QED
      BY <2>2 DEF Core, Sights
  <1>5. Serial(r)'
    <2>1. \A id, later : Before(id, later)' <=> Before(id, later)
      BY <1>1 DEF Before
    <2>2. \A x \in r.records : x.status = "ENTRY_FILLED" => Time(x.fill)' = Time(x.fill)
      <3>. SUFFICES ASSUME NEW x \in r.records, x.status = "ENTRY_FILLED"
                    PROVE  Time(x.fill)' = Time(x.fill)
        OBVIOUS
      <3>1. x.fill \in 1..n
        BY <1>3 DEF ResultOf
      <3>. QED
        BY <1>2, <3>1
    <2>3. \A x : Identity(x)' = Identity(x)
      BY DEF Identity
    <2>4. Serial(r)
      BY DEF Core
    <2>. QED
      BY <1>1, <2>1, <2>2, <2>3, <2>4 DEF Serial
  <1>6. Skips(r)'
    <2>1. \A id, later : Before(id, later)' <=> Before(id, later)
      BY <1>1 DEF Before
    <2>2. \A x : Owner(x)' = Owner(x) /\ Identity(x)' = Identity(x)
      BY DEF Owner, Identity
    <2>3. ASSUME NEW x \in r.records, NEW y \in r.records, HeldBeyond(y, seeds[x.signal].ts)
          PROVE  HeldBeyond(y, seeds[x.signal].ts)'
      <3>1. y.failure \in 0..Len(stream) /\ (y.status = "ENTRY_FILLED" => y.fill \in 1..Len(stream))
        BY <1>2, <1>3 DEF ResultOf
      <3>2. n # 0 /\ Len(stream) # 0
        BY <1>2, <1>3
      <3>3. seeds[x.signal].ts \in Nat
        BY <1>3, SeedTypes
      <3>4. PICK ts \in Nat : ts = seeds[x.signal].ts
        BY <3>3
      <3>5. HeldBeyond(y, ts)'
        BY <2>3, <3>1, <3>2, <3>4, BeyondStays
      <3>. QED
        BY <3>4, <3>5
    <2>4. Skips(r)
      BY DEF Core
    <2>. QED
      BY <1>1, <2>1, <2>2, <2>3, <2>4 DEF Skips
  <1>. QED
    BY <1>1, <1>4, <1>5, <1>6 DEF Core

LEMMA ObservedStays ==
  ASSUME seeds \in SeedLists, stream \in Seq(Quote), NEW e \in Quote, stream' = Append(stream, e),
         seeds' = seeds, NEW r, NEW n \in 0..Len(stream), Observed(r, n), PacedAt(r, n)
  PROVE  Observed(r, n)' /\ PacedAt(r, n)'
  <1>1. /\ Len(stream) \in Nat /\ n \in Nat /\ 1..n \subseteq 1..Len(stream)
        /\ \A i \in 1..Len(stream) : stream'[i] = stream[i] /\ Time(i)' = Time(i)
    BY AppendIs
  <1>2. \A i \in 1..n : stream'[i] = stream[i] /\ Time(i)' = Time(i)
    BY <1>1
  <1>3. \A c : {i \in 1..n : stream'[i].contract = c} = {i \in 1..n : stream[i].contract = c}
    BY <1>2
  <1>4. Observed(r, n)'
    <2>1. r.latest = [c \in Contracts |-> LastOf({i \in 1..n : stream'[i].contract = c})]
      <3>1. r.latest = [c \in Contracts |-> LastOf({i \in 1..n : stream[i].contract = c})]
        BY DEF Observed
      <3>. QED
        BY <1>3, <3>1, Zenon
    <2>2. \A c \in Contracts :
            c \in r.terminated <=> \E i \in 1..n : stream'[i].contract = c /\ stream'[i].terminal
      BY <1>2 DEF Observed
    <2>. QED
      BY <2>1, <2>2 DEF Observed, LastOf
  <1>5. PacedAt(r, n)'
    <2>1. n # 0 => Time(n)' = Time(n)
      BY <1>1
    <2>. QED
      BY <1>2, <2>1 DEF PacedAt
  <1>. QED
    BY <1>4, <1>5

\* The buffer after a new event.
LEMMA AppendBuffers ==
  ASSUME Buffered, NEW e \in Quote, stream' = Append(stream, e), NEW f \in 0..Len(stream), flushed' = f,
         \A i \in 1..Len(stream) : Time(i) <= e.ts,
         \A i \in f + 1..Len(stream) : Time(i) = e.ts,
         \A i \in 1..f : Time(i) < e.ts
  PROVE  Buffered'
  <1>1. /\ stream \in Seq(Quote) /\ Len(stream) \in Nat /\ DOMAIN stream = 1..Len(stream)
        /\ \A i \in 1..Len(stream) : Time(i) \in Nat
        /\ e.ts \in Nat
    BY StreamTypes DEF Buffered, Quote
  <1>2. /\ Len(stream') = Len(stream) + 1 /\ stream' \in Seq(Quote)
        /\ \A i \in 1..Len(stream) : Time(i)' = Time(i)
        /\ stream'[Len(stream')] = e
    BY <1>1, AppendIs
  <1> DEFINE n == Len(stream)
             after(i) == stream'[i].ts
  <1>3. after(n + 1) = e.ts /\ \A i \in 1..n : after(i) = Time(i)
    BY <1>2 DEF Time
  <1>4. DOMAIN stream' = 1..n + 1
    BY <1>2
  <1>5. f \in Nat /\ f <= n /\ n \in Nat
    BY <1>1
  <1> HIDE DEF after
  <1>6. \A i, j \in 1..n + 1 : i <= j => after(i) <= after(j)
    <2>. SUFFICES ASSUME NEW i \in 1..n + 1, NEW j \in 1..n + 1, i <= j
                  PROVE  after(i) <= after(j)
      OBVIOUS
    <2>1. CASE j = n + 1
      <3>1. i = n + 1 \/ i \in 1..n
        BY <1>5
      <3>. QED
        BY <1>1, <1>3, <2>1, <3>1
    <2>2. CASE j # n + 1
      <3>1. i \in 1..n /\ j \in 1..n
        BY <1>5, <2>2
      <3>. QED
        BY <1>1, <1>3, <3>1 DEF Buffered
    <2>. QED
      BY <2>1, <2>2
  <1>7. \A i \in f + 1..n + 1 : after(i) = e.ts
    <2>. SUFFICES ASSUME NEW i \in f + 1..n + 1 PROVE after(i) = e.ts
      OBVIOUS
    <2>1. CASE i = n + 1
      BY <1>3, <2>1
    <2>2. CASE i # n + 1
      <3>1. f + 1..n \subseteq 1..n
        BY <1>5
      <3>2. i \in f + 1..n
        BY <1>5, <2>2
      <3>3. Time(i) = e.ts
        BY <3>2
      <3>. QED
        BY <1>3, <3>1, <3>2, <3>3
    <2>. QED
      BY <2>1, <2>2
  <1>8. \A i \in 1..f, j \in f + 1..n + 1 : after(i) < after(j)
    <2>1. \A i \in 1..f : i \in 1..n
      BY <1>5
    <2>. QED
      BY <1>3, <1>7, <2>1
  <1>9. flushed' = f /\ f \in 0..n + 1
    BY <1>5
  <1>. QED
    BY <1>2, <1>3, <1>4, <1>6, <1>7, <1>8, <1>9 DEF Buffered, Time, after

LEMMA AcceptKeeps ==
  ASSUME ReplayInv, NEW e \in Quote, Accept(e)
  PROVE  ReplayInv'
  <1> DEFINE n == Len(stream)
  <1>1. /\ seeds \in SeedLists /\ Buffered /\ stream \in Seq(Quote)
        /\ Core(replay, flushed) /\ Observed(replay, flushed)
        /\ status = "running" /\ Paced
        /\ stream' = Append(stream, e) /\ e.ts > boundary /\ boundary \in Int
        /\ seeds' = seeds /\ drained' = drained /\ dates' = dates /\ boundary' = boundary
        /\ status' = status
    BY DEF ReplayInv, Accept, Buffered
  <1>2. /\ n \in Nat /\ flushed \in 0..n /\ e.ts \in Nat
        /\ \A i \in 1..n : Time(i) \in Nat
        /\ \A s \in Signals : seeds[s].ts \in Nat
        /\ Signals = 1..Len(seeds) /\ Len(seeds) \in Nat
        /\ replay.cursor \in 0..Len(seeds)
        /\ Len(stream') = n + 1
    BY <1>1, StreamTypes, SeedTypes, AppendIs DEF Buffered, Quote, Core, Shaped
  <1>3. \A k \in 1..n : stream'[k] = stream[k]
    BY <1>1, AppendIs
  <1>4. Last(stream) = stream[n]
    BY DEF Last
  <1>5. n # 0 => e.ts >= Time(n)
    <2>1. n # 0 => stream # <<>>
      OBVIOUS
    <2>. QED
      BY <1>4, <2>1 DEF Accept, Time
  <1>6. \A i \in 1..n : Time(i) <= Time(n) /\ Time(i) <= e.ts
    <2>. SUFFICES ASSUME NEW i \in 1..n PROVE Time(i) <= Time(n) /\ Time(i) <= e.ts
      OBVIOUS
    <2>1. n \in 1..n /\ i <= n /\ DOMAIN stream = 1..n
      BY <1>1, <1>2
    <2>2. Time(i) <= Time(n)
      BY <2>1 DEF Buffered, ReplayInv
    <2>. QED
      BY <1>2, <1>5, <2>1, <2>2
  <1>7. CASE n > flushed /\ e.ts # Time(n)
    <2>1. PICK q, m : q = FlushBuffer(replay) /\ m = n
      OBVIOUS
    <2>2. replay' = q /\ flushed' = m
      BY <1>4, <1>7, <2>1 DEF Accept, Time
    <2>3. Core(q, n) /\ Observed(q, n) /\ PacedAt(q, n) /\ Traced(q, n, FALSE) /\ m = n
      BY <1>1, <2>1, FlushKeeps DEF Paced, ReplayInv
    <2>4. n \in 0..n /\ n \in 1..n /\ Time(n) < e.ts
      BY <1>2, <1>5, <1>7
    <2>5. \A s \in 1..q.cursor : n # 0 /\ seeds[s].ts < e.ts
      <3>. SUFFICES ASSUME NEW s \in 1..q.cursor PROVE n # 0 /\ seeds[s].ts < e.ts
        OBVIOUS
      <3>1. n # 0 /\ seeds[s].ts <= Time(n)
        BY <2>3 DEF PacedAt
      <3>2. q.cursor \in 0..Len(seeds)
        BY <2>3 DEF Core, Shaped
      <3>3. seeds[s].ts \in Nat /\ Time(n) \in Nat
        BY <1>2, <2>4, <3>2
      <3>. QED
        BY <1>2, <2>4, <3>1, <3>3
    <2>6. Core(q, m)'
      <3>1. Core(q, m) /\ m \in 0..n /\ \A s \in 1..q.cursor : m # 0 /\ seeds[s].ts < e.ts
        BY <2>3, <2>4, <2>5
      <3>. QED
        BY <1>1, <1>6, <3>1, AppendCore
    <2>7. Observed(q, m)' /\ PacedAt(q, m)'
      <3>1. Observed(q, m) /\ PacedAt(q, m) /\ m \in 0..n
        BY <2>3, <2>4
      <3>. QED
        BY <1>1, <3>1, ObservedStays
    <2>8. Buffered'
      <3>1. \A i \in 1..n : Time(i) < e.ts
        BY <1>2, <1>6, <2>4
      <3>2. \A i \in n + 1..n : Time(i) = e.ts
        BY <1>2
      <3>3. /\ m \in 0..n /\ flushed' = m /\ \A i \in 1..m : Time(i) < e.ts
            /\ \A i \in m + 1..n : Time(i) = e.ts
        BY <2>2, <2>3, <2>4, <3>1, <3>2
      <3>. QED
        BY <1>1, <1>6, <3>3, AppendBuffers
    <2>9. Traced(q, m, FALSE)'
      <3>1. m \in Nat /\ EnRoutes(q, m) /\ Routed(q, m, FALSE) /\ \A k \in 1..m : stream'[k] = stream[k]
        BY <1>2, <1>3, <2>3 DEF Traced
      <3>. QED
        BY <1>1, <3>1, RoutesStay DEF Traced
    <2>10. /\ Core(replay, flushed)' /\ Observed(replay, flushed)' /\ PacedAt(replay, flushed)'
          /\ Traced(replay, flushed, FALSE)'
      BY <2>2, <2>6, <2>7, <2>9
    <2>11. flushed' # Len(stream')
      BY <1>2, <2>2, <2>3
    <2>. QED
      BY <1>1, <2>8, <2>10, <2>11 DEF ReplayInv, Paced
  <1>8. CASE ~(n > flushed /\ e.ts # Time(n))
    <2>1. replay' = replay /\ flushed' = flushed
      BY <1>4, <1>8 DEF Accept, Time
    <2>2. \A i \in 1..flushed : Time(i) < e.ts
      <3>. SUFFICES ASSUME NEW i \in 1..flushed PROVE Time(i) < e.ts
        OBVIOUS
      <3>1. i \in 1..n /\ flushed # 0 /\ flushed \in 1..n
        BY <1>2
      <3>2. CASE n = flushed
        <4>1. boundary >= Time(n)
          BY <1>1, <3>1, <3>2 DEF Paced
        <4>. QED
          BY <1>1, <1>2, <1>6, <3>1, <3>2, <4>1
      <3>3. CASE n # flushed
        <4>1. n \in flushed + 1..n /\ e.ts = Time(n)
          BY <1>2, <1>8, <3>3
        <4>. QED
          BY <1>1, <4>1 DEF Buffered
      <3>. QED
        BY <3>2, <3>3
    <2>3. PacedAt(replay, flushed)
      BY <1>1 DEF Paced
    <2>4. \A s \in 1..replay.cursor : flushed # 0 /\ seeds[s].ts < e.ts
      <3>. SUFFICES ASSUME NEW s \in 1..replay.cursor PROVE flushed # 0 /\ seeds[s].ts < e.ts
        OBVIOUS
      <3>1. flushed # 0 /\ seeds[s].ts <= Time(flushed)
        BY <2>3 DEF PacedAt
      <3>2. flushed \in 1..n /\ flushed \in 1..flushed /\ s \in Signals
        BY <1>2, <3>1
      <3>3. seeds[s].ts \in Nat /\ Time(flushed) \in Nat /\ Time(flushed) < e.ts
        BY <1>2, <2>2, <3>2
      <3>. QED
        BY <1>2, <3>1, <3>3
    <2>5. PICK q, m : q = replay /\ m = flushed
      OBVIOUS
    <2>6. Core(q, m) /\ Observed(q, m) /\ PacedAt(q, m) /\ m \in 0..n
          /\ \A s \in 1..q.cursor : m # 0 /\ seeds[s].ts < e.ts
      BY <1>1, <1>2, <2>3, <2>4, <2>5
    <2>7. Core(q, m)'
      BY <1>1, <1>6, <2>6, AppendCore
    <2>8. Observed(q, m)' /\ PacedAt(q, m)'
      BY <1>1, <2>6, ObservedStays
    <2>9. Buffered'
      <3>1. \A i \in m + 1..n : Time(i) = e.ts
        <4>. SUFFICES ASSUME NEW i \in m + 1..n PROVE Time(i) = e.ts
          OBVIOUS
        <4>1. n > flushed
          BY <1>2, <2>5
        <4>2. Time(i) = Time(n)
          BY <1>1, <2>5 DEF Buffered
        <4>. QED
          BY <1>8, <4>1, <4>2
      <3>. QED
        BY <1>1, <1>6, <2>1, <2>2, <2>5, <2>6, <3>1, AppendBuffers
    <2>10. Traced(q, m, FALSE)'
      <3>1. m \in Nat /\ EnRoutes(q, m) /\ Routed(q, m, FALSE)
        <4>1. Traced(replay, flushed, FALSE)
          BY <1>1, Zenon DEF ReplayInv
        <4>2. flushed \in Nat
          BY <1>2
        <4>. QED
          BY <2>5, <4>1, <4>2 DEF Traced
      <3>2. \A k \in 1..m : stream'[k] = stream[k]
        <4>1. 1..m \subseteq 1..n
          BY <1>2, <2>6
        <4>. QED
          BY <1>3, <4>1
      <3>. QED
        BY <1>1, <3>1, <3>2, RoutesStay DEF Traced
    <2>11. /\ Core(replay, flushed)' /\ Observed(replay, flushed)' /\ PacedAt(replay, flushed)'
           /\ Traced(replay, flushed, FALSE)'
      BY <2>1, <2>5, <2>7, <2>8, <2>10
    <2>12. flushed' # Len(stream')
      BY <1>2, <2>1
    <2>. QED
      BY <1>1, <2>9, <2>11, <2>12 DEF ReplayInv, Paced
  <1>. QED
    BY <1>7, <1>8

-----------------------------------------------------------------------------
(* The other operations.                                                   *)

\* A replay with no stream change.
LEMMA SameStream ==
  ASSUME seeds' = seeds, stream' = stream, drained' = drained, NEW r, NEW n
  PROVE  /\ Core(r, n) => Core(r, n)'
         /\ Observed(r, n)' <=> Observed(r, n)
         /\ PacedAt(r, n)' <=> PacedAt(r, n)
  <1>1. \A x, ts : HeldBeyond(x, ts)' <=> HeldBeyond(x, ts)
    <2>1. \A x : RefusedAtTheEnd(x)' <=> RefusedAtTheEnd(x)
      BY DEF RefusedAtTheEnd, Eligibility, Time
    <2>. QED
      BY <2>1 DEF HeldBeyond, Time
  <1>2. \A s : SeenBy(s)' = SeenBy(s)
    BY DEF SeenBy, Time, LastOf
  <1>3. Core(r, n) => Core(r, n)'
    <2>. SUFFICES ASSUME Core(r, n) PROVE Core(r, n)'
      OBVIOUS
    <2>1. /\ Shaped(r, n)' /\ Sole(r)' /\ Exact(r)' /\ Accounts(r)' /\ Flat(r)'
          /\ Live(r)' = Live(r) /\ Identities' = Identities
          /\ \A id : SlotOf(id)' = SlotOf(id)
      BY SeedsAlone
    <2>2. \A id, later : Before(id, later)' <=> Before(id, later)
      BY <2>1 DEF Before
    <2>3. \A x : Owner(x)' = Owner(x) /\ Identity(x)' = Identity(x)
      BY DEF Owner, Identity
    <2>4. Sights(r)'
      BY <1>2 DEF Core, Sights
    <2>5. Serial(r)'
      <3>1. Serial(r) /\ \A i : Time(i)' = Time(i)
        BY DEF Core, Time
      <3>. QED
        BY <2>1, <2>2, <2>3, <3>1 DEF Serial
    <2>6. Skips(r)'
      <3>1. Skips(r)
        BY DEF Core
      <3>. QED
        BY <1>1, <2>1, <2>2, <2>3, <3>1 DEF Skips
    <2>. QED
      BY <2>1, <2>4, <2>5, <2>6 DEF Core
  <1>4. Observed(r, n)' <=> Observed(r, n)
    BY DEF Observed, LastOf
  <1>5. PacedAt(r, n)' <=> PacedAt(r, n)
    BY DEF PacedAt, Time
  <1>. QED
    BY <1>3, <1>4, <1>5

\* A buffer that was flushed.
LEMMA FlushedIs ==
  ASSUME Buffered, stream' = stream, flushed' = Len(stream)
  PROVE  Buffered'
  <1>1. stream \in Seq(Quote) /\ Len(stream) \in Nat /\ DOMAIN stream = 1..Len(stream)
    BY StreamTypes DEF Buffered
  <1>2. flushed' \in 0..Len(stream) /\ flushed' + 1..Len(stream) = {}
    BY <1>1
  <1>. QED
    BY <1>2 DEF Buffered, Time

LEMMA CompleteKeeps ==
  ASSUME ReplayInv, CompleteSourceDate
  PROVE  ReplayInv'
  <1>1. /\ seeds \in SeedLists /\ Buffered /\ stream \in Seq(Quote)
        /\ Core(replay, flushed) /\ Observed(replay, flushed) /\ PacedAt(replay, flushed)
        /\ Traced(replay, flushed, FALSE)
        /\ status = "running" /\ dates \in Nat /\ boundary \in Int
        /\ stream' = stream /\ flushed' = Len(stream) /\ dates' = dates + 1
        /\ seeds' = seeds /\ drained' = drained /\ status' = status
        /\ boundary' = IF stream = <<>> THEN -1 ELSE Last(stream).ts
    BY DEF ReplayInv, CompleteSourceDate, Buffered, Paced
  <1>2. PICK q, m : q = FlushBuffer(replay) /\ m = Len(stream)
    OBVIOUS
  <1>3. Core(q, m) /\ Observed(q, m) /\ PacedAt(q, m) /\ Traced(q, m, FALSE)
    BY <1>1, <1>2, FlushKeeps
  <1>4. replay' = q /\ flushed' = m
    BY <1>1, <1>2 DEF CompleteSourceDate
  <1>5. Core(q, m)' /\ Observed(q, m)' /\ PacedAt(q, m)' /\ Traced(q, m, FALSE)'
    <2>1. m \in Nat /\ \A k \in 1..m : stream'[k] = stream[k]
      BY <1>1, <1>2, StreamTypes
    <2>2. Traced(q, m, FALSE)'
      BY <1>1, <1>3, <2>1, RoutesStay DEF Traced
    <2>. QED
      BY <1>1, <1>3, <2>2, SameStream
  <1>6. /\ Core(replay, flushed)' /\ Observed(replay, flushed)' /\ PacedAt(replay, flushed)'
        /\ Traced(replay, flushed, FALSE)'
    BY <1>4, <1>5
  <1>7. Buffered'
    BY <1>1, FlushedIs
  <1>8. Len(stream) \in Nat /\ \A i \in 1..Len(stream) : Time(i) \in Nat
    BY <1>1, StreamTypes
  <1>9. boundary' \in Int /\ (flushed' # 0 => boundary' >= Time(Len(stream)))
    <2>1. CASE stream = <<>>
      BY <1>1, <2>1
    <2>2. CASE stream # <<>>
      <3>1. Len(stream) \in 1..Len(stream)
        BY <1>1, <1>8, <2>2
      <3>2. boundary' = Time(Len(stream))
        BY <1>1, <2>2 DEF Last, Time
      <3>. QED
        BY <1>8, <3>1, <3>2
    <2>. QED
      BY <2>1, <2>2
  <1>10. flushed' # 0 => boundary' >= Time(flushed)'
    BY <1>1, <1>9 DEF Time
  <1>11. dates' \in Nat
    BY <1>1
  <1>12. Paced'
    BY <1>6, <1>10 DEF Paced
  <1>. QED
    BY <1>1, <1>6, <1>7, <1>9, <1>11, <1>12 DEF ReplayInv

LEMMA FinishStepKeeps ==
  ASSUME ReplayInv, Finish
  PROVE  ReplayInv'
  <1>1. /\ seeds \in SeedLists /\ Buffered /\ stream \in Seq(Quote)
        /\ Core(replay, flushed) /\ Observed(replay, flushed) /\ PacedAt(replay, flushed)
        /\ Traced(replay, flushed, FALSE)
        /\ dates \in Nat /\ boundary \in Int
        /\ stream' = stream /\ flushed' = Len(stream) /\ dates' = dates
        /\ seeds' = seeds /\ drained' = drained /\ boundary' = boundary
    BY DEF ReplayInv, Finish, Buffered, Paced
  <1>2. PICK f, q, m : f = FlushBuffer(replay) /\ q = FinishReplay(f) /\ m = Len(stream)
    OBVIOUS
  <1>3. Core(f, m) /\ Observed(f, m) /\ PacedAt(f, m) /\ Traced(f, m, FALSE)
    BY <1>1, <1>2, FlushKeeps
  <1>4. /\ Core(q, m) /\ Observed(q, m) /\ q.cursor = Len(seeds) /\ q.pending = {}
        /\ Traced(q, m, TRUE)
    BY <1>1, <1>2, <1>3, FinishKeeps
  <1>5. replay' = q /\ flushed' = m
    BY <1>1, <1>2 DEF Finish
  <1>6. Core(q, m)' /\ Observed(q, m)' /\ Traced(q, m, TRUE)'
    <2>1. m \in Nat /\ \A k \in 1..m : stream'[k] = stream[k]
      BY <1>1, <1>2, StreamTypes
    <2>2. Traced(q, m, TRUE)'
      BY <1>1, <1>4, <2>1, RoutesStay DEF Traced
    <2>. QED
      BY <1>1, <1>4, <2>2, SameStream
  <1>7. Core(replay, flushed)' /\ Observed(replay, flushed)' /\ Traced(replay, flushed, TRUE)'
    BY <1>5, <1>6
  <1>8. Buffered'
    BY <1>1, FlushedIs
  <1>9. status' \in {"finished", "raised"} /\ (status' = "finished" => q.groups = {})
    BY <1>5 DEF Finish
  <1>10. Ended'
    BY <1>1, <1>4, <1>5, <1>9 DEF Ended
  <1>. QED
    BY <1>1, <1>7, <1>8, <1>9, <1>10 DEF ReplayInv

LEMMA DrainCore ==
  ASSUME seeds' = seeds, stream' = stream, NEW r, NEW n, Core(r, n),
         drained' = drained \cup Ids(r.records), NEW q, q = [r EXCEPT !.records = {}]
  PROVE  Core(q, n)'
  <1>1. /\ IsReplay(q) /\ q.cursor = r.cursor /\ q.pending = r.pending /\ q.groups = r.groups
        /\ q.latest = r.latest /\ q.terminated = r.terminated /\ q.records = {}
        /\ q.occupied = r.occupied
    <2>1. IsReplay(r)
      BY DEF Core, Shaped
    <2>. QED
      BY <2>1 DEF IsReplay
  <1>2. Identities' = Identities
    BY DEF Identities, Signals
  <1>3. \A id : SlotOf(id)' = SlotOf(id)
    BY DEF SlotOf, Slot, Side
  <1>4. Live(q)' = Live(r)
    BY <1>1, <1>2 DEF Live, Holds
  <1>5. Shaped(q, n)'
    <2>1. IsReplay(q)'
      BY <1>1 DEF IsReplay
    <2>. QED
      BY <1>1, <2>1 DEF Core, Shaped, PendingOf, GroupOf, Signals
  <1>6. Exact(q)'
    BY <1>1, <1>3, <1>4 DEF Core, Exact
  <1>7. Accounts(q)'
    <2>1. Ids({}) = {}
      BY DEF Ids
    <2>2. Accounts(r)
      BY DEF Core
    <2>3. Live(r) \cap drained' = {}
      BY <2>2 DEF Accounts
    <2>4. Live(r) \cup drained' = (1..r.cursor) \X Scenarios \X Cells
      BY <2>2 DEF Accounts
    <2>5. Ids(q.records)' = {}
      BY <1>1 DEF Ids
    <2>. QED
      BY <1>1, <1>4, <2>3, <2>4, <2>5 DEF Accounts
  <1>8. Sights(q)'
    <2>1. \A s : SeenBy(s)' = SeenBy(s)
      BY DEF SeenBy, Time, LastOf
    <2>. QED
      BY <1>1, <2>1 DEF Core, Sights
  <1>9. Sole(q)' /\ Flat(q)'
    BY <1>1 DEF Core, Sole, Flat
  <1>10. Serial(q)' /\ Skips(q)'
    BY <1>1 DEF Serial, Skips
  <1>. QED
    BY <1>5, <1>6, <1>7, <1>8, <1>9, <1>10 DEF Core

LEMMA DrainKeeps ==
  ASSUME ReplayInv, DrainResultRecords
  PROVE  ReplayInv'
  <1>1. /\ seeds \in SeedLists /\ Buffered
        /\ Core(replay, flushed) /\ Observed(replay, flushed)
        /\ dates \in Nat /\ boundary \in Int /\ status \in {"running", "finished", "raised"}
        /\ stream' = stream /\ flushed' = flushed /\ dates' = dates
        /\ seeds' = seeds /\ boundary' = boundary /\ status' = status
        /\ drained' = drained \cup Ids(replay.records)
        /\ replay' = [replay EXCEPT !.records = {}]
    BY DEF ReplayInv, DrainResultRecords, Ids
  <1>2. PICK r, q, n : r = replay /\ q = replay' /\ n = flushed
    OBVIOUS
  <1>3. q = [r EXCEPT !.records = {}] /\ Core(r, n) /\ drained' = drained \cup Ids(r.records)
    BY <1>1, <1>2
  <1>4. Core(q, n)'
    BY <1>1, <1>3, DrainCore
  <1>5. Core(replay, flushed)'
    BY <1>1, <1>2, <1>4
  <1>6. /\ replay'.cursor = replay.cursor /\ replay'.latest = replay.latest
        /\ replay'.terminated = replay.terminated /\ replay'.pending = replay.pending
        /\ replay'.groups = replay.groups /\ replay'.records = {}
    <2>1. IsReplay(replay)
      BY <1>1 DEF Core, Shaped
    <2>. QED
      BY <1>1, <2>1 DEF IsReplay
  <1>7. Observed(replay, flushed)'
    BY <1>1, <1>6 DEF Observed, LastOf
  <1>8. Buffered'
    BY <1>1 DEF Buffered, Time
  <1>9. ASSUME NEW over, Traced(replay, flushed, over) PROVE Traced(replay, flushed, over)'
    <2>1. n \in Nat /\ \A k \in 1..n : stream'[k] = stream[k]
      BY <1>1, <1>2, StreamTypes DEF Buffered
    <2>2. EnRoutes(r, n) /\ Routed(r, n, over)
      BY <1>2, <1>9 DEF Traced
    <2>3. EnRoutes(r, n)' /\ Routed(r, n, over)'
      BY <1>1, <2>1, <2>2, RoutesStay
    <2>4. q.pending = r.pending /\ q.groups = r.groups /\ q.records = {}
      BY <1>2, <1>6
    <2>5. EnRoutes(q, n)' /\ Routed(q, n, over)'
      BY <2>3, <2>4 DEF EnRoutes, Routed
    <2>. QED
      BY <1>1, <1>2, <2>5 DEF Traced
  <1>10. CASE status = "running"
    <2>1. Paced'
      BY <1>1, <1>6, <1>10 DEF ReplayInv, Paced, PacedAt, Time
    <2>. QED
      <3>1. Traced(replay, flushed, FALSE)'
        BY <1>10, <1>9 DEF ReplayInv
      <3>. QED
        BY <1>1, <1>5, <1>7, <1>8, <1>10, <2>1, <3>1 DEF ReplayInv
  <1>11. CASE status # "running"
    <2>1. Ended'
      BY <1>1, <1>6, <1>11 DEF ReplayInv, Ended
    <2>. QED
      <3>1. Traced(replay, flushed, TRUE)'
        BY <1>11, <1>9 DEF ReplayInv
      <3>. QED
        BY <1>1, <1>5, <1>7, <1>8, <1>11, <2>1, <3>1 DEF ReplayInv
  <1>. QED
    BY <1>10, <1>11

LEMMA ReplayInit ==
  ASSUME Init
  PROVE  ReplayInv
  <1>1. /\ seeds \in SeedLists /\ stream = <<>> /\ flushed = 0 /\ drained = {} /\ dates = 0
        /\ boundary = -1 /\ status = "running"
        /\ IsReplay(replay) /\ replay.cursor = 0 /\ replay.pending = {} /\ replay.groups = {}
        /\ replay.records = {} /\ replay.occupied = [slot \in Slots |-> 0]
        /\ replay.latest = [c \in Contracts |-> 0] /\ replay.terminated = {}
    BY DEF Init, IsReplay
  <1>2. Len(stream) = 0 /\ stream \in Seq(Quote) /\ DOMAIN stream = {} /\ Len(seeds) \in Nat
    BY <1>1, SeedTypes
  <1>3. Live(replay) = {} /\ Ids(replay.records) = {}
    BY <1>1 DEF Live, Holds, Ids
  <1>4. Shaped(replay, flushed) /\ Exact(replay)
    BY <1>1, <1>2, <1>3 DEF Shaped, Exact
  <1>5. Accounts(replay)
    <2>1. 1..replay.cursor = {}
      BY <1>1
    <2>2. (1..replay.cursor) \X Scenarios \X Cells = {}
      BY <2>1
    <2>. QED
      BY <1>1, <1>3, <2>2 DEF Accounts
  <1>6. Core(replay, flushed)
    BY <1>1, <1>3, <1>4, <1>5 DEF Core, Sole, Sights, Flat, Serial, Skips
  <1>7. Observed(replay, flushed)
    <2>1. \A c : {i \in 1..flushed : stream[i].contract = c} = {}
      BY <1>1
    <2>2. LastOf({}) = 0
      BY DEF LastOf
    <2>3. \A c \in Contracts : LastOf({i \in 1..flushed : stream[i].contract = c}) = 0
      BY <2>1, <2>2
    <2>4. replay.latest = [c \in Contracts |-> LastOf({i \in 1..flushed : stream[i].contract = c})]
      BY <1>1, <2>3, Zenon
    <2>5. \A c \in Contracts :
            c \in replay.terminated <=> \E i \in 1..flushed : stream[i].contract = c /\ stream[i].terminal
      BY <1>1
    <2>. QED
      BY <2>4, <2>5 DEF Observed
  <1>8. Buffered
    BY <1>1, <1>2 DEF Buffered
  <1>9. Paced
    BY <1>1 DEF Paced, PacedAt
  <1>10. Traced(replay, flushed, FALSE)
    BY <1>1 DEF Traced, EnRoutes, Routed
  <1>11. /\ seeds \in SeedLists /\ dates \in Nat /\ boundary \in Int
         /\ status = "running" /\ status \in {"running", "finished", "raised"}
    BY <1>1
  <1>. QED
    BY <1>6, <1>7, <1>8, <1>9, <1>10, <1>11, Zenon DEF ReplayInv

\* The merged reader's events are quotes of the open date.
LEMMA ProcessAccepts ==
  ASSUME ReplayInv, Process
  PROVE  \E e \in Quote : Accept(e) /\ e.session = dates /\ (e.terminal => e.valid)
  <1>1. stream \in Seq(Quote) /\ Len(stream) \in Nat /\ dates \in Nat
    BY StreamTypes DEF ReplayInv, Buffered
  <1>2. PICK input \in Inputs[Len(stream) + 1] :
          Accept([ts |-> input.gap + (IF stream = <<>> THEN 0 ELSE Last(stream).ts),
                  contract |-> input.contract, bid |-> input.bid, ask |-> input.bid + 1,
                  valid |-> input.valid, terminal |-> input.terminal, session |-> dates])
    BY DEF Process
  <1>3. /\ input.gap \in Nat /\ input.contract \in Contracts /\ input.bid \in Int
        /\ input.valid \in BOOLEAN /\ input.terminal \in BOOLEAN
        /\ input.terminal => input.valid
    <2>1. Len(stream) + 1 \in DOMAIN Inputs
      BY <1>1, InputsAreQuotes DEF Process
    <2>2. Inputs[Len(stream) + 1] \in SUBSET [gap : Nat, contract : Contracts, bid : Int,
                                              valid : BOOLEAN, terminal : BOOLEAN]
      BY <2>1, InputsAreQuotes
    <2>3. input.terminal => input.valid
      BY <1>2, <2>1, TerminalsAreValid
    <2>. QED
      BY <1>2, <2>2, <2>3
  <1>4. (IF stream = <<>> THEN 0 ELSE Last(stream).ts) \in Nat
    <2>1. CASE stream = <<>>
      BY <2>1
    <2>2. CASE stream # <<>>
      <3>1. Len(stream) \in 1..Len(stream)
        BY <1>1, <2>2
      <3>2. Last(stream).ts = Time(Len(stream)) /\ Time(Len(stream)) \in Nat
        BY <1>1, <3>1, StreamTypes DEF Last, Time
      <3>. QED
        BY <2>2, <3>2
    <2>. QED
      BY <2>1, <2>2
  <1>5. PICK last \in Nat : last = IF stream = <<>> THEN 0 ELSE Last(stream).ts
    BY <1>4
  <1>6. PICK e : e = [ts |-> input.gap + last, contract |-> input.contract, bid |-> input.bid,
                      ask |-> input.bid + 1, valid |-> input.valid,
                      terminal |-> input.terminal, session |-> dates]
    OBVIOUS
  <1>7. e \in Quote
    BY <1>1, <1>3, <1>6 DEF Quote
  <1>8. Accept(e)
    BY <1>2, <1>5, <1>6
  <1>9. e.session = dates /\ (e.terminal => e.valid)
    BY <1>3, <1>6
  <1>. QED
    BY <1>7, <1>8, <1>9

\* The merged reader's events are quotes.
LEMMA ProcessKeeps ==
  ASSUME ReplayInv, Process
  PROVE  ReplayInv'
  <1>1. PICK e \in Quote : Accept(e)
    BY ProcessAccepts
  <1>. QED
    BY <1>1, AcceptKeeps

LEMMA StutterKeeps ==
  ASSUME ReplayInv, UNCHANGED vars
  PROVE  ReplayInv'
  <1>1. /\ seeds' = seeds /\ stream' = stream /\ flushed' = flushed /\ replay' = replay
        /\ drained' = drained /\ dates' = dates /\ boundary' = boundary /\ status' = status
    BY DEF vars
  <1>2. PICK r, n : r = replay /\ n = flushed
    OBVIOUS
  <1>3. Core(r, n)' /\ Observed(r, n)'
    <2>1. Core(r, n) /\ Observed(r, n)
      BY <1>2 DEF ReplayInv
    <2>. QED
      BY <1>1, <2>1, SameStream
  <1>4. Core(replay, flushed)' /\ Observed(replay, flushed)'
    BY <1>1, <1>2, <1>3
  <1>5. Buffered'
    BY <1>1 DEF ReplayInv, Buffered, Time
  <1>6. IF status = "running" THEN Paced' ELSE Ended'
    BY <1>1 DEF ReplayInv, Paced, PacedAt, Ended, Time
  <1>7. ASSUME NEW over, Traced(replay, flushed, over) PROVE Traced(replay, flushed, over)'
    <2>1. n \in Nat /\ \A k \in 1..n : stream'[k] = stream[k]
      BY <1>1, <1>2, StreamTypes DEF ReplayInv, Buffered
    <2>2. EnRoutes(r, n) /\ Routed(r, n, over)
      BY <1>2, <1>7 DEF Traced
    <2>3. Traced(r, n, over)'
      BY <1>1, <2>1, <2>2, RoutesStay DEF Traced
    <2>. QED
      BY <1>1, <1>2, <2>3
  <1>8. IF status = "running" THEN Traced(replay, flushed, FALSE)' ELSE Traced(replay, flushed, TRUE)'
    BY <1>7 DEF ReplayInv
  <1>. QED
    BY <1>1, <1>4, <1>5, <1>6, <1>8 DEF ReplayInv

\* The inductive invariant of the shared replay: what Core, Observed, Paced and Ended say
\* of the live state, at every boundary between events.
THEOREM ReplayInvariant == Spec => []ReplayInv
  <1>1. Init => ReplayInv
    BY ReplayInit
  <1>2. ReplayInv /\ [Next]_vars => ReplayInv'
    BY ProcessKeeps, CompleteKeeps, DrainKeeps, FinishStepKeeps, StutterKeeps DEF Next
  <1>. QED
    BY <1>1, <1>2, PTL DEF Spec

-----------------------------------------------------------------------------
(* What the invariant says of the properties.                              *)

LEMMA TypesHold ==
  ASSUME ReplayInv
  PROVE  ReplayTypeOK
  <1>1. /\ seeds \in SeedLists /\ stream \in Seq(Quote) /\ Len(stream) \in Nat
        /\ DOMAIN stream = 1..Len(stream) /\ flushed \in 0..Len(stream)
        /\ Shaped(replay, flushed) /\ Exact(replay) /\ Observed(replay, flushed)
    BY StreamTypes DEF ReplayInv, Buffered, Core
  <1>2. 1..flushed \subseteq DOMAIN stream /\ 0..flushed \subseteq {0} \cup DOMAIN stream
        /\ flushed \in Nat
    BY <1>1
  <1>3. \A p \in replay.pending : PendingType(p)
    BY <1>1, <1>2 DEF Shaped, PendingOf, PendingType, Positions
  <1>4. \A g \in replay.groups : GroupType(g)
    <2>. SUFFICES ASSUME NEW g \in replay.groups PROVE GroupType(g)
      OBVIOUS
    <2>1. GroupOf(g, flushed)
      BY <1>1 DEF Shaped
    <2>2. g.triggers \in [Grid -> OptionalPosition]
      BY <1>2, <2>1 DEF GroupOf, OptionalPosition
    <2>. QED
      BY <1>2, <2>1, <2>2 DEF GroupOf, GroupType, Positions
  <1>5. replay.latest \in [Contracts -> OptionalPosition]
    <2>1. \A c : LastOf({i \in 1..flushed : stream[i].contract = c}) \in OptionalPosition
      <3>. SUFFICES ASSUME NEW c
                    PROVE  LastOf({i \in 1..flushed : stream[i].contract = c}) \in OptionalPosition
        OBVIOUS
      <3>1. LastOf({i \in 1..flushed : stream[i].contract = c}) \in 0..flushed
        BY <1>2, LastOfIs
      <3>. QED
        BY <1>2, <3>1 DEF OptionalPosition
    <2>2. replay.latest = [c \in Contracts |-> LastOf({i \in 1..flushed : stream[i].contract = c})]
      BY <1>1 DEF Observed
    <2>. QED
      BY <2>1, <2>2
  <1>. QED
    BY <1>1, <1>3, <1>4, <1>5 DEF ReplayTypeOK, Shaped, Exact

\* The claims on cells are the identities that live.
LEMMA ClaimsAreLive ==
  ASSUME ReplayInv
  PROVE  LiveClaims = {<<SlotOf(id), id[1]>> : id \in Live(replay)}
  <1>1. /\ \A p \in replay.pending : PendingOf(p, flushed)
        /\ \A g \in replay.groups : GroupOf(g, flushed)
    BY DEF ReplayInv, Core, Shaped
  <1> DEFINE live == {<<SlotOf(id), id[1]>> : id \in Live(replay)}
  <1>2. \A claim : claim \in LiveClaims <=>
          \/ \E p \in replay.pending : \E cell \in p.cells :
               claim = <<Slot(p.signal, p.scenario, cell), p.signal>>
          \/ \E g \in replay.groups : \E cell \in g.active :
               claim = <<Slot(g.signal, g.scenario, cell), g.signal>>
    <2>1. \A x, cells, claim : claim \in Claimed(x, cells) <=>
            \E cell \in cells : claim = <<Slot(x.signal, x.scenario, cell), x.signal>>
      BY Zenon DEF Claimed
    <2>2. \A claim : claim \in LiveClaims <=>
            \/ \E p \in replay.pending : claim \in Claimed(p, p.cells)
            \/ \E g \in replay.groups : claim \in Claimed(g, g.active)
      BY DEF LiveClaims
    <2>3. /\ \A claim, p : claim \in Claimed(p, p.cells) <=>
               \E cell \in p.cells : claim = <<Slot(p.signal, p.scenario, cell), p.signal>>
          /\ \A claim, g : claim \in Claimed(g, g.active) <=>
               \E cell \in g.active : claim = <<Slot(g.signal, g.scenario, cell), g.signal>>
      BY <2>1, Zenon
    <2>. QED
      BY <2>2, <2>3
  <1>3. ASSUME NEW id, id \in Live(replay)
        PROVE  <<SlotOf(id), id[1]>> \in LiveClaims
    <2>1. SlotOf(id) = Slot(id[1], id[2], id[3]) /\ Holds(replay, id)
      BY <1>3 DEF SlotOf, Live
    <2>2. CASE \E p \in replay.pending : p.signal = id[1] /\ p.scenario = id[2] /\ id[3] \in p.cells
      BY <1>2, <2>1, <2>2
    <2>3. CASE \E g \in replay.groups : g.signal = id[1] /\ g.scenario = id[2] /\ id[3] \in g.active
      BY <1>2, <2>1, <2>3
    <2>. QED
      BY <2>1, <2>2, <2>3 DEF Holds
  <1>4. ASSUME NEW d, NEW cell \in Cells, d.signal \in Signals, d.scenario \in Scenarios,
               \/ d \in replay.pending /\ cell \in d.cells
               \/ d \in replay.groups /\ cell \in d.active
        PROVE  <<Slot(d.signal, d.scenario, cell), d.signal>> \in live
    <2>1. PICK id : id = <<d.signal, d.scenario, cell>>
      OBVIOUS
    <2>2. id[1] = d.signal /\ id[2] = d.scenario /\ id[3] = cell /\ id \in Identities
      BY <1>4, <2>1 DEF Identities
    <2>3. id \in Live(replay)
      BY <1>4, <2>2 DEF Live, Holds
    <2>4. <<SlotOf(id), id[1]>> = <<Slot(d.signal, d.scenario, cell), d.signal>>
      BY <2>2 DEF SlotOf
    <2>. QED
      BY <2>3, <2>4
  <1>5. ASSUME NEW claim, claim \in LiveClaims PROVE claim \in live
    <2>1. CASE \E p \in replay.pending : \E cell \in p.cells :
                 claim = <<Slot(p.signal, p.scenario, cell), p.signal>>
      <3>1. PICK p \in replay.pending : \E cell \in p.cells :
                 claim = <<Slot(p.signal, p.scenario, cell), p.signal>>
        BY <2>1
      <3>2. PICK cell \in p.cells : claim = <<Slot(p.signal, p.scenario, cell), p.signal>>
        BY <3>1
      <3>3. cell \in Cells /\ p.signal \in Signals /\ p.scenario \in Scenarios
        BY <1>1 DEF PendingOf
      <3> HIDE DEF live
      <3>. QED
        BY <1>4, <3>2, <3>3
    <2>2. CASE \E g \in replay.groups : \E cell \in g.active :
                 claim = <<Slot(g.signal, g.scenario, cell), g.signal>>
      <3>1. PICK g \in replay.groups : \E cell \in g.active :
                 claim = <<Slot(g.signal, g.scenario, cell), g.signal>>
        BY <2>2
      <3>2. PICK cell \in g.active : claim = <<Slot(g.signal, g.scenario, cell), g.signal>>
        BY <3>1
      <3>3. cell \in Cells /\ g.signal \in Signals /\ g.scenario \in Scenarios
        BY <1>1 DEF GroupOf
      <3> HIDE DEF live
      <3>. QED
        BY <1>4, <3>2, <3>3
    <2>. QED
      BY <1>2, <1>5, <2>1, <2>2
  <1>6. LiveClaims \subseteq live
    <2> HIDE DEF live
    <2>. QED
      BY <1>5
  <1>7. live \subseteq LiveClaims
    BY <1>3
  <1>. QED
    BY <1>6, <1>7

LEMMA RestorableHolds ==
  ASSUME ReplayInv
  PROVE  Restorable
  <1>1. /\ seeds \in SeedLists /\ Buffered /\ Shaped(replay, flushed) /\ Sole(replay)
        /\ Exact(replay) /\ Accounts(replay)
    BY DEF ReplayInv, Core
  <1>2. ReplayTypeOK
    BY TypesHold
  <1>3. LiveClaims = {<<SlotOf(id), id[1]>> : id \in Live(replay)}
    BY ClaimsAreLive
  <1>4. \A id \in Live(replay) :
          SlotOf(id) \in Slots /\ id[1] # 0 /\ replay.occupied[SlotOf(id)] = id[1]
    <2>. SUFFICES ASSUME NEW id \in Live(replay)
                  PROVE  SlotOf(id) \in Slots /\ id[1] # 0 /\ replay.occupied[SlotOf(id)] = id[1]
      OBVIOUS
    <2>1. id \in Identities
      BY LiveIds
    <2>2. SlotOf(id) \in Slots /\ id[1] \in Signals /\ Signals = 1..Len(seeds) /\ Len(seeds) \in Nat
      BY <1>1, <2>1, SlotIs, SeedTypes
    <2>. QED
      BY <1>1, <2>2 DEF Exact
  <1>5. LiveClaims = {<<slot, replay.occupied[slot]>> :
                        slot \in {slot \in Slots : replay.occupied[slot] # 0}}
    <2> DEFINE taken == {slot \in Slots : replay.occupied[slot] # 0}
               claims == {<<slot, replay.occupied[slot]>> : slot \in taken}
    <2>1. ASSUME NEW id \in Live(replay) PROVE <<SlotOf(id), id[1]>> \in claims
      BY <1>4
    <2>2. ASSUME NEW slot \in taken PROVE <<slot, replay.occupied[slot]>> \in LiveClaims
      <3>1. PICK id \in Live(replay) : SlotOf(id) = slot
        BY <1>1 DEF Exact
      <3>2. replay.occupied[slot] = id[1]
        BY <1>4, <3>1
      <3>. QED
        BY <1>3, <3>1, <3>2
    <2> HIDE DEF taken
    <2>3. claims \subseteq LiveClaims
      BY <2>2
    <2>4. LiveClaims \subseteq claims
      <3> HIDE DEF claims
      <3>. QED
        BY <1>3, <2>1
    <2>. QED
      BY <2>3, <2>4 DEF taken
  <1>6. \A p, q \in replay.pending \cup replay.groups :
          p # q => <<p.signal, p.scenario>> # <<q.signal, q.scenario>>
    BY <1>1 DEF Sole
  <1>7. ASSUME NEW x \in replay.records,
               <<Slot(x.signal, x.scenario, x.cell), x.signal>> \in LiveClaims
        PROVE  FALSE
    <2>1. PICK id \in Live(replay) : <<SlotOf(id), id[1]>> = <<Slot(x.signal, x.scenario, x.cell), x.signal>>
      BY <1>3, <1>7
    <2>2. SlotOf(Identity(x)) = Slot(x.signal, x.scenario, x.cell) /\ Identity(x)[1] = x.signal
      BY DEF SlotOf, Identity
    <2>3. Identity(x) \in Identities /\ id \in Identities
      BY <1>1, LiveIds DEF Shaped, ResultOf
    <2>4. SlotOf(id) = SlotOf(Identity(x)) /\ id[1] = Identity(x)[1]
      BY <2>1, <2>2
    <2>5. id = Identity(x)
      BY <1>1, <2>3, <2>4, SlotTells
    <2>6. Identity(x) \in Ids(replay.records)
      BY DEF Ids
    <2>. QED
      BY <1>1, <2>1, <2>5, <2>6 DEF Accounts
  <1>8. \A i \in flushed + 1..Len(stream) : Time(i) = Time(Len(stream))
    BY <1>1 DEF Buffered
  <1>9. status = "finished" => replay.pending \cup replay.groups = {} /\ flushed = Len(stream)
    BY DEF ReplayInv, Ended
  <1>. QED
    BY <1>2, <1>5, <1>6, <1>7, <1>8, <1>9 DEF Restorable

LEMMA OneResultHolds ==
  ASSUME ReplayInv
  PROVE  OneResultPerIdentity
  <1>1. Accounts(replay) /\ seeds \in SeedLists
    BY DEF ReplayInv, Core
  <1>2. \A x \in replay.records : Identity(x) \notin drained
    BY <1>1 DEF Accounts, Ids
  <1>3. CASE status = "finished"
    <2>1. replay.cursor = Len(seeds) /\ replay.pending = {} /\ replay.groups = {}
      BY <1>3 DEF ReplayInv, Ended
    <2>2. Live(replay) = {}
      BY <2>1 DEF Live, Holds
    <2>3. 1..replay.cursor = Signals
      BY <1>1, <2>1, SeedTypes
    <2>4. Ids(replay.records) \cup drained = Signals \X Scenarios \X Cells
      BY <1>1, <2>2, <2>3 DEF Accounts
    <2>5. drained \cup {Identity(x) : x \in replay.records} = Signals \X Scenarios \X Cells
      BY <2>4 DEF Ids
    <2>. QED
      BY <1>1, <1>2, <2>5 DEF OneResultPerIdentity, Accounts
  <1>4. CASE status # "finished"
    BY <1>1, <1>2, <1>4 DEF OneResultPerIdentity, Accounts
  <1>. QED
    BY <1>3, <1>4

LEMMA SeesHolds ==
  ASSUME ReplayInv
  PROVE  SeesExactlyThePast
BY DEF ReplayInv, Core, Sights, SeenBy, SeesExactlyThePast

LEMMA OccupancyHolds ==
  ASSUME ReplayInv
  PROVE  OccupancyIsExact
  <1>1. /\ seeds \in SeedLists /\ Shaped(replay, flushed) /\ Exact(replay)
        /\ Serial(replay) /\ Skips(replay) /\ Flat(replay)
    BY DEF ReplayInv, Core
  <1>2. SkipsNameTheHolder
    <2>. SUFFICES ASSUME NEW x \in replay.records, x.status = "SKIPPED_OCCUPIED"
                  PROVE  /\ x.owner < x.signal
                         /\ \/ replay.occupied[Slot(x.signal, x.scenario, x.cell)] = x.owner
                            \/ \E y \in replay.records :
                                 /\ Identity(y) = <<x.owner, x.scenario, x.cell>>
                                 /\ HeldBeyond(y, seeds[x.signal].ts)
      BY DEF SkipsNameTheHolder
    <2>1. /\ Owner(x)[1] = x.owner /\ Identity(x)[1] = x.signal
          /\ SlotOf(Identity(x)) = Slot(x.signal, x.scenario, x.cell)
      BY DEF Owner, Identity, SlotOf
    <2>2. Before(Owner(x), Identity(x))
      BY <1>1 DEF Skips
    <2>3. x.owner < x.signal /\ SlotOf(Owner(x)) = SlotOf(Identity(x))
      BY <2>1, <2>2 DEF Before
    <2>4. CASE Owner(x) \in Live(replay)
      <3>1. replay.occupied[SlotOf(Owner(x))] = Owner(x)[1]
        BY <1>1, <2>4 DEF Exact
      <3>. QED
        BY <2>1, <2>3, <3>1
    <2>5. CASE \E y \in replay.records : Identity(y) = Owner(x) /\ HeldBeyond(y, seeds[x.signal].ts)
      BY <2>3, <2>5 DEF Owner
    <2>. QED
      BY <1>1, <2>4, <2>5 DEF Skips
  <1>3. SlotsAreSerial
    <2>. SUFFICES ASSUME NEW x \in replay.records, NEW y \in replay.records \cup replay.groups,
                         x.status = "ENTRY_FILLED", y.entry # 0, x.signal < y.signal,
                         x.scenario = y.scenario, Side(x.signal) = Side(y.signal),
                         seeds[x.signal].contract = seeds[y.signal].contract,
                         x.cell \in IF y \in replay.groups THEN y.active ELSE {y.cell}
                  PROVE  Time(x.fill) <= seeds[y.signal].ts
      BY DEF SlotsAreSerial
    <2>1. PICK later : later = <<y.signal, y.scenario, x.cell>>
      OBVIOUS
    <2>2. later[1] = y.signal /\ later[2] = y.scenario /\ later[3] = x.cell
      BY <2>1
    <2>3. Before(Identity(x), later)
      BY <2>2 DEF Before, Identity, SlotOf, Slot
    <2>4. CASE y \in replay.groups
      <3>1. GroupOf(y, flushed) /\ x.cell \in y.active
        BY <1>1, <2>4 DEF Shaped
      <3>2. later \in Identities
        BY <2>1, <3>1 DEF Identities, GroupOf
      <3>3. later \in Live(replay)
        BY <2>2, <2>4, <3>1, <3>2 DEF Live, Holds
      <3>. QED
        BY <1>1, <2>2, <2>3, <3>3 DEF Serial
    <2>5. CASE y \notin replay.groups
      <3>1. Identity(y) = later
        BY <2>1, <2>5 DEF Identity
      <3>. QED
        BY <1>1, <2>3, <2>5, <3>1 DEF Serial
    <2>. QED
      BY <2>4, <2>5
  <1>4. TerminatedContractsAreFlat
    BY <1>1 DEF Flat, TerminatedContractsAreFlat
  <1>. QED
    BY <1>2, <1>3, <1>4 DEF OccupancyIsExact

\* CleanRoute is RouteIsClean, on an ordered stream.
LEMMA CleanIs ==
  ASSUME seeds \in SeedLists, Buffered, NEW x, x.signal \in Signals, x.scenario \in Scenarios,
         x.decision \in 1..Len(stream), NEW i \in Way(x, Len(stream))
  PROVE  RouteIsClean(x, i) <=> CleanRoute(x, i)
  <1> DEFINE way == {k \in x.decision + 1..Len(stream) :
                       stream[k].contract = seeds[x.signal].contract /\ Time(k) <= Time(i) /\ k <= i}
             gates == {x.decision} \cup {k \in way : Time(k) < Due(x)}
             frozen(G) == IF Time(i) = Due(x) THEN i ELSE Max(G)
             linked(G, W) == \A k \in G : \E n \in G \cup {i} :
                               /\ n > k
                               /\ Min({Time(n), Due(x)}) - Time(k) <= MaxQuoteAge
                               /\ ~\E m \in W : k < m /\ m < n
  <1>1. /\ Len(stream) \in Nat /\ DOMAIN stream = 1..Len(stream)
        /\ \A k \in 1..Len(stream) : Time(k) \in Nat
        /\ \A k, l \in 1..Len(stream) : k <= l => Time(k) <= Time(l)
        /\ Due(x) \in Nat
    BY StreamTypes, DueIs DEF Buffered
  <1>2. PICK d \in 1..Len(stream) : d = x.decision
    OBVIOUS
  <1>3. i \in d + 1..Len(stream) /\ i \in 1..Len(stream) /\ stream[i].contract = seeds[x.signal].contract
    BY <1>1, <1>2 DEF Way
  <1>4. way = Way(x, i)
    <2>1. \A k \in d + 1..i : k \in d + 1..Len(stream) /\ k \in 1..Len(stream) /\ Time(k) <= Time(i) /\ k <= i
      BY <1>1, <1>3
    <2>2. \A k \in d + 1..Len(stream) : k <= i => k \in d + 1..i
      BY <1>1, <1>3
    <2>. QED
      BY <1>2, <2>1, <2>2 DEF Way
  <1>5. Way(x, i) = Way(x, i - 1) \cup {i} /\ i \notin Way(x, i - 1)
    <2>1. d + 1..i = (d + 1..i - 1) \cup {i} /\ i \notin d + 1..i - 1
      BY <1>3
    <2>. QED
      BY <1>2, <1>3, <2>1 DEF Way
  <1>6. RouteIsClean(x, i) <=>
          /\ Time(i) >= Due(x)
          /\ way = {i} \cup (gates \ {x.decision})
          /\ \A k \in gates \cup {i} : Valid(k) /\ ~stream[k].terminal
          /\ linked(gates, way)
          /\ Loss(Side(x.signal), EntryPrice(x, i), Opposite(frozen(gates), Side(x.signal))) <= 0
    BY Zenon DEF RouteIsClean, Due
  <1>7. ASSUME Time(i) >= Due(x), \A k \in Way(x, i - 1) : Time(k) < Due(x)
        PROVE  way = {i} \cup (gates \ {x.decision})
    <2>1. x.decision \notin way
      BY <1>1, <1>2
    <2> HIDE DEF way
    <2>2. \A k \in way : k = i \/ k \in gates \ {x.decision}
      BY <1>4, <1>5, <1>7, <2>1
    <2>3. i \in way
      BY <1>4, <1>5
    <2>. QED
      BY <2>2, <2>3
  <1> HIDE DEF way, frozen, linked
  <1>8. ASSUME Time(i) >= Due(x), way = {i} \cup (gates \ {x.decision})
        PROVE  \A k \in Way(x, i - 1) : Time(k) < Due(x)
    BY <1>4, <1>5, <1>8
  <1>9. ASSUME Time(i) >= Due(x), \A k \in Way(x, i - 1) : Time(k) < Due(x)
        PROVE  gates = Gates(x, i - 1) /\ gates \cup {i} = Gates(x, i)
    <2>1. {k \in way : Time(k) < Due(x)} = Way(x, i - 1)
      <3>1. ~(Time(i) < Due(x))
        BY <1>1, <1>3, <1>9
      <3>. QED
        BY <1>4, <1>5, <1>9, <3>1
    <2>. QED
      BY <1>5, <2>1 DEF Gates
  <1>10. linked(Gates(x, i - 1), Way(x, i)) <=>
           \A k \in Gates(x, i - 1) : \E m \in Way(x, i) :
             Follows(x, k, m) /\ Min({Time(m), Due(x)}) - Time(k) <= MaxQuoteAge
    <2> DEFINE near(k, m) == Min({Time(m), Due(x)}) - Time(k) <= MaxQuoteAge
    <2>1. /\ Gates(x, i - 1) \cup {i} = {d} \cup Way(x, i)
          /\ \A k \in Gates(x, i - 1) : k \in Nat /\ k >= d
          /\ \A k \in Way(x, i) : k \in d + 1..i
      <3>1. \A k \in d + 1..i - 1 : k \in Nat /\ k >= d
        OBVIOUS
      <3>2. Way(x, i - 1) \subseteq d + 1..i - 1 /\ Way(x, i) \subseteq d + 1..i
        BY <1>2 DEF Way
      <3>. QED
        BY <1>2, <1>5, <3>1, <3>2 DEF Gates
    <2>2. ASSUME NEW m \in Way(x, i), NEW k \in Gates(x, i - 1), m > k
          PROVE  (~\E l \in Way(x, i) : k < l /\ l < m) <=> ~\E l \in Way(x, m) : k < l /\ l < m
      <3>1. \A l \in Way(x, i) : l < m => l \in Way(x, m)
        BY <1>2, <2>1 DEF Way
      <3>2. Way(x, m) \subseteq Way(x, i)
        <4>1. d + 1..m \subseteq d + 1..i
          BY <1>3, <2>1
        <4>. QED
          BY <1>2, <4>1 DEF Way
      <3>. QED
        BY <3>1, <3>2
    <2>3. \A k \in Gates(x, i - 1) : ~(d > k)
      BY <1>2, <2>1
    <2>4. linked(Gates(x, i - 1), Way(x, i)) <=>
            \A k \in Gates(x, i - 1) : \E n \in Gates(x, i - 1) \cup {i} :
              n > k /\ near(k, n) /\ ~\E m \in Way(x, i) : k < m /\ m < n
      BY Zenon DEF linked
    <2> HIDE DEF near
    <2>5. \A k \in Gates(x, i - 1) :
            (\E n \in Gates(x, i - 1) \cup {i} :
               n > k /\ near(k, n) /\ ~\E m \in Way(x, i) : k < m /\ m < n)
            <=> \E m \in Way(x, i) : Follows(x, k, m) /\ near(k, m)
      BY <2>1, <2>2, <2>3 DEF Follows
    <2>. QED
      BY <2>4, <2>5 DEF near
  <1>11. CleanRoute(x, i) <=>
           /\ Time(i) >= Due(x)
           /\ \A k \in Way(x, i - 1) : Time(k) < Due(x)
           /\ \A k \in Gates(x, i) : Valid(k) /\ ~stream[k].terminal
           /\ \A k \in Gates(x, i - 1) : \E m \in Way(x, i) :
                Follows(x, k, m) /\ Min({Time(m), Due(x)}) - Time(k) <= MaxQuoteAge
           /\ Loss(Side(x.signal), EntryPrice(x, i),
                   Opposite(frozen(Gates(x, i - 1)), Side(x.signal))) <= 0
    BY Zenon DEF CleanRoute, frozen
  <1> HIDE DEF gates
  <1>12. CASE Time(i) >= Due(x) /\ \A k \in Way(x, i - 1) : Time(k) < Due(x)
    <2>1. /\ gates = Gates(x, i - 1) /\ gates \cup {i} = Gates(x, i) /\ way = Way(x, i)
          /\ way = {i} \cup (gates \ {x.decision})
      BY <1>4, <1>7, <1>9, <1>12
    <2>. QED
      BY <1>6, <1>10, <1>11, <1>12, <2>1, Zenon
  <1>13. CASE ~(Time(i) >= Due(x) /\ \A k \in Way(x, i - 1) : Time(k) < Due(x))
    BY <1>6, <1>8, <1>11, <1>13, Zenon
  <1>. QED
    BY <1>12, <1>13

\* No clean route passes an event that breaks it.
LEMMA BarredIs ==
  ASSUME seeds \in SeedLists, Buffered, NEW x, x.signal \in Signals, x.scenario \in Scenarios,
         NEW n \in Nat, n <= Len(stream), NEW over, Barred(x, n, over), over => Len(stream) <= n,
         NEW i \in Way(x, Len(stream))
  PROVE  ~CleanRoute(x, i)
  <1>1. /\ Len(stream) \in Nat /\ n \in Nat /\ \A k \in 1..Len(stream) : Time(k) \in Nat
        /\ \A k, l \in 1..Len(stream) : k <= l => Time(k) <= Time(l)
        /\ Due(x) \in Nat
    <2>1. stream \in Seq(Quote) /\ \A k, l \in DOMAIN stream : k <= l => Time(k) <= Time(l)
      BY Zenon DEF Buffered
    <2>2. Len(stream) \in Nat /\ DOMAIN stream = 1..Len(stream) /\ \A k \in 1..Len(stream) : Time(k) \in Nat
      BY <2>1, StreamTypes, Zenon
    <2>3. Due(x) \in Nat
      BY DueIs, Zenon
    <2>. QED
      BY <2>1, <2>2, <2>3, Zenon
  <1>2. PICK d \in 1..n : d = x.decision
    BY DEF Barred
  <1>3. \A k : \A m : k \in Way(x, m) <=> k \in d + 1..m /\ stream[k].contract = seeds[x.signal].contract
    BY <1>2 DEF Way
  <1>4. i \in d + 1..Len(stream) /\ i \in 1..Len(stream)
    BY <1>1, <1>3
  <1>. SUFFICES ASSUME CleanRoute(x, i) PROVE FALSE
    OBVIOUS
  <1>5. /\ Time(i) >= Due(x) /\ \A k \in Way(x, i - 1) : Time(k) < Due(x)
        /\ \A k \in Gates(x, i) : Valid(k) /\ ~stream[k].terminal
        /\ \A k \in Gates(x, i - 1) : \E m \in Way(x, i) :
             Follows(x, k, m) /\ Min({Time(m), Due(x)}) - Time(k) <= MaxQuoteAge
    BY DEF CleanRoute
  <1>6. CASE over /\ \A k \in Way(x, n) : Time(k) < Due(x)
    <2>1. i \in Way(x, n)
      BY <1>1, <1>3, <1>4, <1>6
    <2>2. Time(i) < Due(x)
      BY <1>6, <2>1
    <2>. QED
      BY <1>1, <1>4, <1>5, <2>2
  <1>7. ASSUME NEW f \in Way(x, n), Breaks(x, f), \A k \in Way(x, f - 1) : Time(k) < Due(x)
        PROVE  FALSE
    <2>1. f \in d + 1..n /\ f \in 1..Len(stream) /\ stream[f].contract = seeds[x.signal].contract
      BY <1>1, <1>3, <1>7
    <2>2. CASE i < f
      <3>1. i \in Way(x, f - 1)
        BY <1>3, <1>4, <2>1, <2>2
      <3>2. Time(i) < Due(x)
        BY <1>7, <3>1
      <3>. QED
        BY <1>1, <1>4, <1>5, <3>2
    <2>3. CASE i = f
      BY <1>1, <1>4, <1>5, <1>7, <2>3 DEF Breaks
    <2>4. CASE i > f
      <3>1. f \in Way(x, i - 1) /\ f \in Way(x, i)
        BY <1>3, <1>4, <2>1, <2>4
      <3>2. Time(f) < Due(x) /\ Valid(f) /\ ~stream[f].terminal
        BY <1>5, <3>1 DEF Gates
      <3>3. PICK k \in Gates(x, f - 1) : Follows(x, k, f) /\ Time(f) - Time(k) > MaxQuoteAge
        BY <1>1, <1>7, <2>1, <3>2 DEF Breaks
      <3>4. k \in Gates(x, i - 1) /\ k \in 1..Len(stream) /\ k < f
        <4>1. k = d \/ k \in Way(x, f - 1)
          BY <1>2 DEF Gates
        <4>2. k \in d..f - 1
          BY <1>3, <2>1, <4>1
        <4>3. k = d \/ k \in Way(x, i - 1)
          BY <1>3, <1>4, <2>1, <2>4, <4>1
        <4>. QED
          BY <1>1, <1>2, <2>1, <4>2, <4>3 DEF Gates
      <3>5. PICK m \in Way(x, i) :
              Follows(x, k, m) /\ Min({Time(m), Due(x)}) - Time(k) <= MaxQuoteAge
        BY <1>5, <3>4
      <3>6. m = f
        <4>1. m \in d + 1..i
          BY <1>3
        <4>2. ~(m < f)
          <5>. SUFFICES ASSUME m < f PROVE FALSE
            OBVIOUS
          <5>1. m \in Way(x, f) /\ k < m
            BY <1>3, <2>1, <3>4, <3>5, <4>1 DEF Follows
          <5>. QED
            BY <3>3, <5>1 DEF Follows
        <4>3. ~(f < m)
          <5>. SUFFICES ASSUME f < m PROVE FALSE
            OBVIOUS
          <5>1. f \in Way(x, m) /\ k < f
            BY <1>3, <2>1, <3>4, <4>1
          <5>. QED
            BY <3>5, <5>1 DEF Follows
        <4>. QED
          BY <2>1, <4>1, <4>2, <4>3
      <3>7. Min({Time(f), Due(x)}) = Time(f)
        <4>1. PICK t \in Nat : t = Time(f)
          BY <1>1, <2>1
        <4>2. Min({t, Due(x)}) = IF t <= Due(x) THEN t ELSE Due(x)
          BY <1>1, MinOfTwo
        <4>. QED
          BY <1>1, <3>2, <4>1, <4>2
      <3>8. Time(f) \in Nat /\ Time(k) \in Nat
        BY <1>1, <2>1, <3>4
      <3>. QED
        BY <3>3, <3>5, <3>6, <3>7, <3>8, LimitsAreDurations
    <2>. QED
      BY <1>4, <2>1, <2>2, <2>3, <2>4
  <1>. QED
    BY <1>6, <1>7 DEF Barred

\* What the routes met so far say of the entries.
LEMMA EntriesHold ==
  ASSUME ReplayInv
  PROVE  EntriesFollowTheRoute
  <1>1. /\ seeds \in SeedLists /\ Buffered /\ stream \in Seq(Quote)
        /\ Len(stream) \in Nat /\ flushed \in Nat /\ flushed <= Len(stream)
        /\ \A g \in replay.groups : GroupOf(g, flushed)
        /\ \A x \in replay.records : x.signal \in Signals /\ x.scenario \in Scenarios
    <2>1. \A x \in replay.records : Identity(x) \in Identities
      BY DEF ReplayInv, Core, Shaped, ResultOf
    <2>2. \A x \in replay.records : x.signal \in Signals /\ x.scenario \in Scenarios
      BY <2>1 DEF Identity, Identities
    <2>. QED
      BY <2>2, StreamTypes DEF ReplayInv, Buffered, Core, Shaped
  <1>2. PICK over : Routed(replay, flushed, over) /\ (over => Len(stream) <= flushed)
    <2>1. CASE status = "running"
      BY <2>1 DEF ReplayInv, Traced
    <2>2. CASE status # "running"
      <3>1. Routed(replay, flushed, TRUE) /\ flushed = Len(stream)
        BY <2>2 DEF ReplayInv, Traced, Ended
      <3>2. Len(stream) <= flushed
        BY <1>1, <3>1
      <3>. QED
        BY <3>1, <3>2
    <2>. QED
      BY <2>1, <2>2
  <1>3. PICK n \in Nat : n = flushed /\ n <= Len(stream) /\ (over => Len(stream) <= n)
    BY <1>1, <1>2
  <1>4. ASSUME NEW x, x.signal \in Signals, x.scenario \in Scenarios, Followed(x, n)
        PROVE  RouteIsClean(x, x.entry)
    <2>1. x.decision \in 1..n /\ x.entry \in Way(x, n) /\ CleanRoute(x, x.entry)
      BY <1>4 DEF Followed
    <2>2. x.decision \in 1..Len(stream) /\ x.entry \in Way(x, Len(stream))
      BY <1>1, <1>3, <2>1, WayGrows
    <2>. QED
      BY <1>1, <1>4, <2>1, <2>2, CleanIs
  <1>5. ASSUME NEW x \in replay.records, x.status = "ENTRY_NOT_FILLED", x.decision # 0,
               x.failure # x.decision, NEW i \in x.decision + 1..n,
               stream[i].contract = seeds[x.signal].contract
        PROVE  ~RouteIsClean(x, i)
    <2>1. x.signal \in Signals /\ x.scenario \in Scenarios
      BY <1>1
    <2>2. Barred(x, n, over)
      BY <1>2, <1>3, <1>5 DEF Routed
    <2>3. PICK d \in 1..n : d = x.decision
      BY <2>2 DEF Barred
    <2>4. d \in 1..Len(stream) /\ i \in d + 1..Len(stream)
      BY <1>1, <1>3, <1>5, <2>3
    <2>5. i \in Way(x, Len(stream))
      BY <1>5, <2>3, <2>4 DEF Way
    <2>6. ~CleanRoute(x, i)
      BY <1>1, <1>3, <2>1, <2>2, <2>5, BarredIs
    <2>. QED
      BY <1>1, <2>1, <2>3, <2>4, <2>5, <2>6, CleanIs
  <1>6. \A g \in replay.groups : RouteIsClean(g, g.entry)
    BY <1>1, <1>2, <1>3, <1>4 DEF GroupOf, Routed
  <1>7. \A x \in replay.records : x.status = "ENTRY_FILLED" => RouteIsClean(x, x.entry)
    BY <1>1, <1>2, <1>3, <1>4 DEF Routed
  <1>. QED
    BY <1>3, <1>5, <1>6, <1>7, Zenon DEF EntriesFollowTheRoute

\* The occupancy map is exactly that of the reservations and open positions, no two of
\* them share a cell, and no live cell has a result: what _validate_restored_state asks of
\* a checkpoint holds at every event boundary.
THEOREM ReplayIsRestorable == Spec => []Restorable
  <1>1. ReplayInv => Restorable
    BY RestorableHolds
  <1>. QED
    BY <1>1, ReplayInvariant, PTL

\* No signal, scenario and cell gets a second result, before a drain or after it, and a
\* finished replay has given every one its result.
THEOREM EveryIdentityHasOneResult == Spec => []OneResultPerIdentity
  <1>1. ReplayInv => OneResultPerIdentity
    BY OneResultHolds
  <1>. QED
    BY <1>1, ReplayInvariant, PTL

\* No decision looks ahead of its time, and none misses a quote of its own timestamp.
THEOREM DecisionsSeeThePast == Spec => []SeesExactlyThePast
  <1>1. ReplayInv => SeesExactlyThePast
    BY SeesHolds
  <1>. QED
    BY <1>1, ReplayInvariant, PTL

\* A skip names a signal that really held the cell, the positions of a cell follow one
\* another, and a contract past its terminal quote has none.
THEOREM OccupancyHolder == Spec => []OccupancyIsExact
  <1>1. ReplayInv => OccupancyIsExact
    BY OccupancyHolds
  <1>. QED
    BY <1>1, ReplayInvariant, PTL

\* An open position, and a filled record, was entered at an event that gave its entry a
\* clean route: at or after its eligibility, each quote on the way valid and in time, the
\* price no worse than the frozen one.  A reserved entry refused on its way, or at the end
\* of the stream, passes over no event that gives it one.
THEOREM EntriesFollowRoutes == Spec => []EntriesFollowTheRoute
  <1>1. ReplayInv => EntriesFollowTheRoute
    BY EntriesHold
  <1>. QED
    BY <1>1, ReplayInvariant, PTL
=============================================================================
