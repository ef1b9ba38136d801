----------------------------- MODULE SharedReplay -----------------------------
(***************************************************************************)
(* The shared replay, backtest/shared_replay.py: one forward pass over the *)
(* merged quotes of all contracts drives every signal through every        *)
(* scenario and every cell of the barrier grid.  A cell of a scenario,     *)
(* side and contract holds one signal at a time.  Quotes are buffered until*)
(* their receive timestamp is complete; a group of equal timestamps is     *)
(* replayed as a whole and then the signals decided at it are activated.   *)
(* An event is referred to by its position in the stream, its event_index. *)
(***************************************************************************)
EXTENDS Integers, Sequences, FiniteSets, SequencesExt

CONSTANTS Grid,               \* BARRIER_TICKS
          Scenario,           \* EXECUTION_SCENARIOS, by scenario_id
          MaxQuoteAge,        \* MAX_EXECUTABLE_QUOTE_AGE_NS
          FirstTouchSessions, \* FIRST_TOUCH_ACTIVE_SESSIONS
          Contracts,
          SeedLists,          \* the signal lists a replay may be built with
          Inputs,             \* bound: the events the merged reader may produce at
                              \* each position, with the time since the last one
          MaxDates            \* bound on the completed source dates

ASSUME GridIsTicks == Grid \subseteq Nat \ {0} /\ IsFiniteSet(Grid)
ASSUME LimitsAreDurations == MaxQuoteAge \in Nat /\ MaxDates \in Nat
ASSUME ScenariosHaveRules ==
  \A sc \in DOMAIN Scenario :
    Scenario[sc] \in [routingDelay : Nat, entryAdverse : Nat, tradeThrough : Nat,
                     stopLatency : Nat, stopAdverse : Nat, terminalAdverse : Nat]
(* The constructor sorts the signals by their decision times.              *)
ASSUME SeedsAreSorted ==
  \A list \in SeedLists :
    /\ list \in Seq([ts : Nat, side : {"LONG", "SHORT"}, contract : Contracts])
    /\ \A s, t \in DOMAIN list : s <= t => list[s].ts <= list[t].ts
ASSUME InputsAreQuotes ==
  Inputs \in Seq(SUBSET [gap : Nat, contract : Contracts, bid : Int,
                         valid : BOOLEAN, terminal : BOOLEAN])
(* The quote class refuses a terminal that is not executable.              *)
ASSUME TerminalsAreValid ==
  \A n \in DOMAIN Inputs : \A input \in Inputs[n] : input.terminal => input.valid
(* The constants of the baseline scenario are those of the barrier engine, *)
(* whose stops take time to route and whose terminal exit concedes nothing;*)
(* the label clock outlasts the session of the entry.                      *)
ASSUME BaselineIsOfTheEngine ==
  "BASELINE" \in DOMAIN Scenario =>
    Scenario["BASELINE"].stopLatency > 0 /\ Scenario["BASELINE"].terminalAdverse = 0
ASSUME ClockOutlastsTheEntry == FirstTouchSessions \in Nat \ {0}

Scenarios == DOMAIN Scenario
Cells == Grid \X Grid                \* <<take profit, stop loss>>
Slots == Scenarios \X {"LONG", "SHORT"} \X Contracts \X Cells

VARIABLES seeds,      \* the signals in replay order; a signal is its rank
          stream,     \* every event accepted so far
          flushed,    \* events already replayed; the rest is the tie buffer
          replay,     \* the live state of the SharedReplay object
          drained,    \* result identities handed out by earlier drains
          dates,      \* completed source dates
          boundary,   \* completed_boundary_ts_recv_ns
          status      \* "running", "finished", or "raised" by finish

vars == <<seeds, stream, flushed, replay, drained, dates, boundary, status>>

Signals == DOMAIN seeds
Side(s) == seeds[s].side
Eligibility(s, sc) == seeds[s].ts + Scenario[sc].routingDelay
Slot(s, sc, cell) == <<sc, Side(s), seeds[s].contract, cell>>

Time(i) == stream[i].ts
Valid(i) == stream[i].valid
Executable(i, side) == IF side = "LONG" THEN stream[i].bid ELSE stream[i].ask
Opposite(i, side) == IF side = "LONG" THEN stream[i].ask ELSE stream[i].bid
Worse(side, price, ticks) == IF side = "LONG" THEN price - ticks ELSE price + ticks
Better(side, price, ticks) == Worse(side, price, -ticks)
Loss(side, entry, price) == IF side = "LONG" THEN entry - price ELSE price - entry

(* The first and the last of a set of positions, 0 if there is none.       *)
FirstOf(events) == IF events = {} THEN 0 ELSE Min(events)
LastOf(events) == IF events = {} THEN 0 ELSE Max(events)

-----------------------------------------------------------------------------
(* Results.  Every result has the same fields; the ones that do not apply  *)
(* keep their default.                                                     *)

Result(s, sc, cell, entryStatus, decision) ==
  [signal |-> s, scenario |-> sc, cell |-> cell, status |-> entryStatus,
   decision |-> decision, reason |-> "", failure |-> 0, owner |-> 0, entry |-> 0,
   entryPrice |-> 0, outcome |-> "", label |-> "", fill |-> 0, price |-> 0]

Identity(result) == <<result.signal, result.scenario, result.cell>>

Skipped(s, sc, cell, decision, owner) ==
  [Result(s, sc, cell, "SKIPPED_OCCUPIED", decision) EXCEPT !.owner = owner]

NotFilled(s, sc, cell, decision, reason, failure) ==
  [Result(s, sc, cell, "ENTRY_NOT_FILLED", decision) EXCEPT
     !.reason = reason, !.failure = failure]

(* The result of a closed cell: the label of a cell whose clock had ended  *)
(* is censored, and that of a routed stop is the stop.                     *)
Exit(g, cell, trigger, outcome, fill, price) ==
  [Result(g.signal, g.scenario, cell, "ENTRY_FILLED", g.decision) EXCEPT
     !.entry = g.entry, !.entryPrice = g.price,
     !.outcome = outcome, !.fill = fill, !.price = price,
     !.label = IF cell \in g.censored THEN "CENSORED"
               ELSE IF trigger # 0 THEN "STOP_FIRST"
               ELSE outcome]

Occupy(occupied, slots, owner) ==
  [slot \in Slots |-> IF slot \in slots THEN owner ELSE occupied[slot]]
SlotsOf(s, sc, cells) == {Slot(s, sc, cell) : cell \in cells}

Bug_StoreResults(r, results) ==
  [r EXCEPT !.records = @ \cup results,
            !.occupied = Occupy(@, {Slot(x.signal, x.scenario, x.cell) :
                                      x \in {x \in results : x.entry # 0}}, 0)]

(* Results that end a reservation or a position free their cells.          *)
StoreResults(r, results) ==
  [r EXCEPT !.records = @ \cup results,
            !.occupied = Occupy(@, {Slot(x.signal, x.scenario, x.cell) : x \in results}, 0)]

-----------------------------------------------------------------------------
(* A signal's activation: the decision gate, then every scenario and cell  *)
(* skips, refuses or reserves. *)

Bug_GateFailure(r, s) ==
  LET quote == r.latest[seeds[s].contract]
  IN  IF quote = 0 THEN "NO_DECISION_QUOTE"
      ELSE IF seeds[s].ts - Time(quote) > MaxQuoteAge THEN "STALE_DECISION_QUOTE"
      ELSE IF ~Valid(quote) THEN "INVALID_DECISION_BBO"
      ELSE ""

GateFailure(r, s) ==
  LET quote == r.latest[seeds[s].contract]
  IN  IF seeds[s].contract \in r.terminated THEN "CONTRACT_ALREADY_TERMINATED"
      ELSE IF quote = 0 THEN "NO_DECISION_QUOTE"
      ELSE IF seeds[s].ts - Time(quote) > MaxQuoteAge THEN "STALE_DECISION_QUOTE"
      ELSE IF ~Valid(quote) THEN "INVALID_DECISION_BBO"
      ELSE ""

FreeCells(r, s, sc) == {cell \in Cells : r.occupied[Slot(s, sc, cell)] = 0}

ActivateSignal(r, s) ==
  LET quote == r.latest[seeds[s].contract]
      failure == GateFailure(r, s)
      pairs == {w \in Scenarios \X Cells : w[2] \in FreeCells(r, s, w[1])}
      skips == {Skipped(s, w[1], w[2], quote, r.occupied[Slot(s, w[1], w[2])]) :
                  w \in (Scenarios \X Cells) \ pairs}
      refusals == {NotFilled(s, w[1], w[2], quote, failure, quote) : w \in pairs}
      entries == {[signal |-> s, scenario |-> sc, cells |-> FreeCells(r, s, sc),
                   decision |-> quote, gate |-> quote] :
                    sc \in {sc \in Scenarios : FreeCells(r, s, sc) # {}}}
  IN  IF failure # ""
      THEN [r EXCEPT !.records = @ \cup skips \cup refusals, !.cursor = s]
      ELSE [r EXCEPT !.records = @ \cup skips, !.cursor = s,
                     !.pending = @ \cup entries,
                     !.occupied = Occupy(@, UNION {SlotsOf(s, p.scenario, p.cells) :
                                                    p \in entries}, s)]

(* The signals after the cursor, one by one, up to the first that is not   *)
(* due.                                                                    *)
ActivateWhile(r, due) ==
  LET last == Max({s \in r.cursor..Len(seeds) : r.cursor + 1..s \subseteq due})
      after[s \in r.cursor..last] ==
        IF s = r.cursor THEN r ELSE ActivateSignal(after[s - 1], s)
  IN  after[last]
ActivateSignalsBefore(r, ts) == ActivateWhile(r, {s \in Signals : seeds[s].ts < ts})
ActivateSignalsAt(r, ts) == ActivateWhile(r, {s \in Signals : seeds[s].ts = ts})

-----------------------------------------------------------------------------
(* One position group over the events of its contract. *)

Bug_ApplyFirstTouchCensor(g, events) ==
  LET ended == FirstOf({i \in events :
                 stream[i].session >= stream[g.entry].session + FirstTouchSessions})
  IN  IF g.censor # 0 \/ ended = 0 THEN g
      ELSE [g EXCEPT !.censor = ended, !.censored = g.active]

ApplyFirstTouchCensor(g, events) ==
  LET ended == FirstOf({i \in events :
                 stream[i].session >= stream[g.entry].session + FirstTouchSessions})
  IN  IF g.censor # 0 \/ ended = 0 THEN g
      ELSE [g EXCEPT !.censor = ended,
                     !.censored = {cell \in g.active : g.triggers[cell[2]] = 0}]

Bug_RoutedFill(g, sl, events) ==
  IF g.triggers[sl] = 0 THEN 0
  ELSE FirstOf({i \in events :
         Valid(i) /\ Time(i) > Time(g.triggers[sl]) + Scenario[g.scenario].stopLatency})

(* A stop routed by an earlier timestamp fills at the first valid event    *)
(* after its latency.                                                      *)
RoutedFill(g, sl, events) ==
  IF g.triggers[sl] = 0 THEN 0
  ELSE FirstOf({i \in events :
         Valid(i) /\ Time(i) >= Time(g.triggers[sl]) + Scenario[g.scenario].stopLatency})

(* Routed stops fill; then every stop column is marked before any take     *)
(* profit row closes; then a terminal quote closes what is left.           *)
AdvancePositionGroup(g, events) ==
  LET side == Side(g.signal)
      rules == Scenario[g.scenario]
      terminal == FirstOf({i \in events : stream[i].terminal})
      quotes == {i \in events : Valid(i) /\ ~stream[i].terminal}
      filledBy == [sl \in Grid |-> RoutedFill(g, sl, events)]
      stopFill(sl) ==
        LET limit == Worse(side, Worse(side, g.price, sl), rules.stopAdverse)
            observed == Executable(filledBy[sl], side)
        IN  IF side = "LONG" THEN Min({observed, limit}) ELSE Max({observed, limit})
      stopped == {cell \in g.active : filledBy[cell[2]] # 0}
      open == g.active \ stopped
      triggers == [sl \in Grid |->
        IF filledBy[sl] # 0 \/ ~\E cell \in open : cell[2] = sl THEN 0
        ELSE IF g.triggers[sl] # 0 THEN g.triggers[sl]
        ELSE FirstOf({i \in quotes : sl <= Loss(side, g.price, Executable(i, side))})]
      hit == [tp \in Grid |-> FirstOf({i \in quotes :
                tp <= -Loss(side, g.price, Executable(i, side)) - rules.tradeThrough})]
      won == {cell \in open : triggers[cell[2]] = 0 /\ hit[cell[1]] # 0}
      left == open \ won
      liquidation == Worse(side, Executable(terminal, side), rules.terminalAdverse)
  IN  [group |-> [g EXCEPT !.triggers = triggers,
                           !.active = IF terminal # 0 THEN {} ELSE left],
       exits |-> {Exit(g, cell, g.triggers[cell[2]], "STOP_FIRST",
                       filledBy[cell[2]], stopFill(cell[2])) : cell \in stopped}
            \cup {Exit(g, cell, 0, "TP_FIRST", hit[cell[1]],
                       Better(side, g.price, cell[1])) : cell \in won}
            \cup {Exit(g, cell, triggers[cell[2]], "TERMINAL_EXIT", terminal, liquidation) :
                    cell \in IF terminal # 0 THEN left ELSE {}}]

-----------------------------------------------------------------------------
(* One pending entry over the events of its contract. *)

EntryPrice(p, i) ==
  Better(Side(p.signal), Opposite(i, Side(p.signal)), Scenario[p.scenario].entryAdverse)

Bug_EligibilityQuote(p, i) == p.gate
EligibilityQuote(p, i) == IF Time(i) = Eligibility(p.signal, p.scenario) THEN i ELSE p.gate

(* What event i means for the route: "ROUTED", "FILLED" or the reason of   *)
(* the refusal.                                                            *)
RouteVerdict(p, i) ==
  LET eligibility == Eligibility(p.signal, p.scenario)
      reference == EligibilityQuote(p, i)
  IN  IF stream[i].terminal THEN "TERMINAL_BEFORE_ENTRY"
      ELSE IF Min({Time(i), eligibility}) - Time(p.gate) > MaxQuoteAge
           THEN "STALE_BBO_DURING_ROUTE"
      ELSE IF Time(i) < eligibility
           THEN IF Valid(i) THEN "ROUTED" ELSE "INVALID_BBO_DURING_ROUTE"
      ELSE IF ~Valid(reference) THEN "INVALID_ENTRY_ELIGIBILITY_BBO"
      ELSE IF ~Valid(i) THEN "INVALID_ENTRY_ATTEMPT_BBO"
      ELSE IF Loss(Side(p.signal), EntryPrice(p, i),
                   Opposite(reference, Side(p.signal))) > 0 THEN "PRICE_OUTSIDE_LIMIT"
      ELSE "FILLED"

(* Every event that does not decide becomes the gate of the next one.      *)
GateBefore(p, events, i) ==
  LET earlier == {k \in events : k < i} IN IF earlier = {} THEN p.gate ELSE Max(earlier)

Route(p, events) ==
  LET verdict(i) == RouteVerdict([p EXCEPT !.gate = GateBefore(p, events, i)], i)
      at == FirstOf({i \in events : verdict(i) # "ROUTED"})
  IN  [verdict |-> IF at = 0 THEN "ROUTED" ELSE verdict(at), at |-> at,
       gate |-> IF at # 0 THEN GateBefore(p, events, at)
                ELSE IF events = {} THEN p.gate ELSE Max(events)]

FillPendingEntry(p, i) ==
  [signal |-> p.signal, scenario |-> p.scenario, active |-> p.cells,
   decision |-> p.decision, entry |-> i, price |-> EntryPrice(p, i),
   triggers |-> [sl \in Grid |-> 0], censored |-> {}, censor |-> 0]

Refusals(p, reason, failure) ==
  {NotFilled(p.signal, p.scenario, cell, p.decision, reason, failure) : cell \in p.cells}

-----------------------------------------------------------------------------
(* A complete timestamp group. *)

Events(contract) == {i \in flushed + 1..Len(stream) : stream[i].contract = contract}

DropEmptyPositionGroups(groups) == {g \in groups : g.active # {}}

AdvanceGroups(r) ==
  LET advanced == {AdvancePositionGroup(
                     ApplyFirstTouchCensor(g, Events(seeds[g.signal].contract)),
                     Events(seeds[g.signal].contract)) :
                       g \in {g \in r.groups : Events(seeds[g.signal].contract) # {}}}
  IN  [StoreResults(r, UNION {a.exits : a \in advanced}) EXCEPT
         !.groups = {g \in @ : Events(seeds[g.signal].contract) = {}}
                      \cup DropEmptyPositionGroups({a.group : a \in advanced})]

AdvancePendingEntries(r) ==
  LET route(p) == Route(p, Events(seeds[p.signal].contract))
      after(i) == {k \in Events(stream[i].contract) : k > i}
      refused == {p \in r.pending : route(p).verdict \notin {"ROUTED", "FILLED"}}
      entered == {AdvancePositionGroup(FillPendingEntry(p, route(p).at), after(route(p).at)) :
                    p \in {p \in r.pending : route(p).verdict = "FILLED"}}
      results == (UNION {Refusals(p, route(p).verdict, route(p).at) : p \in refused})
                   \cup (UNION {e.exits : e \in entered})
  IN  [StoreResults(r, results) EXCEPT
         !.groups = @ \cup DropEmptyPositionGroups({e.group : e \in entered}),
         !.pending = {[p EXCEPT !.gate = route(p).gate] :
                        p \in {p \in @ : route(p).verdict = "ROUTED"}}]

ObserveGroup(r) ==
  [r EXCEPT !.latest = [c \in Contracts |-> IF Events(c) = {} THEN @[c] ELSE Max(Events(c))],
            !.terminated = @ \cup {c \in Contracts : \E i \in Events(c) : stream[i].terminal}]

Bug_FlushBuffer(r) ==
  IF Len(stream) = flushed THEN r
  ELSE LET ts == Time(Len(stream))
       IN  ObserveGroup(AdvancePendingEntries(AdvanceGroups(
             ActivateSignalsAt(ActivateSignalsBefore(r, ts), ts))))

FlushBuffer(r) ==
  IF Len(stream) = flushed THEN r
  ELSE LET ts == Time(Len(stream))
       IN  ActivateSignalsAt(
             ObserveGroup(AdvancePendingEntries(AdvanceGroups(ActivateSignalsBefore(r, ts)))), ts)

-----------------------------------------------------------------------------
(* The end of the stream: pending entries saw no attempt.  The signals not *)
(* yet reached are activated and refused one by one, so that none of them  *)
(* occupies a cell for the next.                                           *)

FinalReason(p) ==
  IF Eligibility(p.signal, p.scenario) - Time(p.gate) > MaxQuoteAge
  THEN "STALE_BBO_DURING_ROUTE" ELSE "NO_ENTRY_ELIGIBILITY_EVENT"

FinalFailure(p) == IF FinalReason(p) = "STALE_BBO_DURING_ROUTE" THEN p.gate ELSE 0

RefusePending(r) ==
  [StoreResults(r, UNION {Refusals(p, FinalReason(p), FinalFailure(p)) : p \in r.pending})
     EXCEPT !.pending = {}]

Bug_FinishUnseen(r) == RefusePending(r)

FinishReplay(r) ==
  LET after[s \in r.cursor..Len(seeds)] ==
        IF s = r.cursor THEN RefusePending(r) ELSE RefusePending(ActivateSignal(after[s - 1], s))
  IN  after[Len(seeds)]

-----------------------------------------------------------------------------
(* The operations. *)

Init ==
  /\ seeds \in SeedLists
  /\ stream = <<>> /\ flushed = 0 /\ drained = {} /\ dates = 0 /\ boundary = -1
  /\ status = "running"
  /\ replay = [cursor |-> 0, pending |-> {}, groups |-> {}, records |-> {},
               occupied |-> [slot \in Slots |-> 0],
               latest |-> [c \in Contracts |-> 0], terminated |-> {}]

InputTerminated == {stream[i].contract : i \in {i \in DOMAIN stream : stream[i].terminal}}

(* _accept_event: an event of a later timestamp first flushes the buffer.  *)
Accept(event) ==
  /\ status = "running"
  /\ stream # <<>> => event.ts >= Last(stream).ts
  /\ event.ts > boundary
  /\ event.contract \notin InputTerminated
  /\ stream' = Append(stream, event)
  /\ IF Len(stream) > flushed /\ event.ts # Last(stream).ts
     THEN replay' = FlushBuffer(replay) /\ flushed' = Len(stream)
     ELSE UNCHANGED <<replay, flushed>>
  /\ UNCHANGED <<seeds, drained, dates, boundary, status>>

(* The merged reader's next event, in the session of the open date.        *)
Process ==
  /\ Len(stream) < Len(Inputs)
  /\ \E input \in Inputs[Len(stream) + 1] :
       Accept([ts |-> input.gap + (IF stream = <<>> THEN 0 ELSE Last(stream).ts),
               contract |-> input.contract, bid |-> input.bid, ask |-> input.bid + 1,
               valid |-> input.valid, terminal |-> input.terminal, session |-> dates])

CompleteSourceDate ==
  /\ status = "running"
  /\ dates < MaxDates
  /\ replay' = FlushBuffer(replay)
  /\ flushed' = Len(stream)
  /\ dates' = dates + 1
  /\ boundary' = IF stream = <<>> THEN -1 ELSE Last(stream).ts
  /\ UNCHANGED <<seeds, stream, drained, status>>

(* drain_result_records: the driver drains a completed date.               *)
DrainResultRecords ==
  /\ status # "raised"
  /\ flushed = Len(stream)
  /\ replay.records # {}
  /\ drained' = drained \cup {Identity(x) : x \in replay.records}
  /\ replay' = [replay EXCEPT !.records = {}]
  /\ UNCHANGED <<seeds, stream, flushed, dates, boundary, status>>

(* finish raises when a filled position has no exit.                       *)
Finish ==
  /\ status = "running"
  /\ replay' = FinishReplay(FlushBuffer(replay))
  /\ flushed' = Len(stream)
  /\ status' = IF replay'.groups = {} THEN "finished" ELSE "raised"
  /\ UNCHANGED <<seeds, stream, drained, dates, boundary>>

Next == Process \/ CompleteSourceDate \/ DrainResultRecords \/ Finish

Spec == Init /\ [][Next]_vars

-----------------------------------------------------------------------------
(* Types. *)

Positions == DOMAIN stream
OptionalPosition == {0} \cup DOMAIN stream

PendingType(p) ==
  /\ p.signal \in Signals /\ p.scenario \in Scenarios
  /\ p.cells \in (SUBSET Cells) \ {{}}
  /\ p.decision \in Positions /\ p.gate \in Positions

GroupType(g) ==
  /\ g.signal \in Signals /\ g.scenario \in Scenarios
  /\ g.active \in (SUBSET Cells) \ {{}} /\ g.censored \in SUBSET Cells
  /\ g.entry \in Positions /\ g.triggers \in [Grid -> OptionalPosition]

(* The fields of the replay object have their types.                       *)
ReplayTypeOK ==
  /\ flushed \in 0..Len(stream) /\ replay.cursor \in 0..Len(seeds)
  /\ \A p \in replay.pending : PendingType(p)
  /\ \A g \in replay.groups : GroupType(g)
  /\ replay.occupied \in [Slots -> 0..Len(seeds)]
  /\ replay.latest \in [Contracts -> OptionalPosition]
  /\ replay.terminated \subseteq Contracts

(* What a restored checkpoint must satisfy, at every event boundary: the   *)
(* occupancy is exactly that of the pending entries and the open           *)
(* positions, no two of them share a cell, no live cell has a result, the  *)
(* buffer holds one timestamp, and a finished replay holds nothing         *)
(* (_validate_restored_state; it also backs the assertions on occupancy in *)
(* the handlers).                                                          *)
Claimed(x, cells) == {<<Slot(x.signal, x.scenario, cell), x.signal>> : cell \in cells}
LiveClaims == (UNION {Claimed(p, p.cells) : p \in replay.pending})
                \cup (UNION {Claimed(g, g.active) : g \in replay.groups})

Restorable ==
  /\ ReplayTypeOK
  /\ LiveClaims = {<<slot, replay.occupied[slot]>> :
                      slot \in {slot \in Slots : replay.occupied[slot] # 0}}
  /\ \A p, q \in replay.pending \cup replay.groups :
       p # q => <<p.signal, p.scenario>> # <<q.signal, q.scenario>>
  /\ \A x \in replay.records :
       <<Slot(x.signal, x.scenario, x.cell), x.signal>> \notin LiveClaims
  /\ \A i \in flushed + 1..Len(stream) : Time(i) = Time(Len(stream))
  /\ status = "finished" =>
       replay.pending \cup replay.groups = {} /\ flushed = Len(stream)

-----------------------------------------------------------------------------
(* Correctness. *)

(* The barrier engine for the constants of the baseline scenario.          *)
Barriers == INSTANCE BarrierReplay WITH
  TradeThrough <- Scenario["BASELINE"].tradeThrough,
  StopLatency <- Scenario["BASELINE"].stopLatency,
  MinimumAdverse <- Scenario["BASELINE"].stopAdverse

(* The contract's events after an entry, up to a position.  A terminal     *)
(* quote is the last of its contract.                                      *)
PathAfter(s, entry, upTo) ==
  [i \in {i \in entry + 1..upTo : stream[i].contract = seeds[s].contract} |-> stream[i]]
WithoutTerminal(path) == Restrict(path, {i \in DOMAIN path : ~path[i].terminal})

Surface(s, entryPrice, path) ==
  LET terminal == FirstOf({i \in DOMAIN path : path[i].terminal})
      engine == Barriers!Replay(Side(s), entryPrice, WithoutTerminal(path))
  IN  IF terminal = 0 THEN engine ELSE Barriers!Liquidate(engine, path, terminal)

BaselineExits == {x \in replay.records : x.status = "ENTRY_FILLED" /\ x.scenario = "BASELINE"}

(* Every closed baseline cell has the outcome, the time and the price that *)
(* the independent engine of barriers.py computes from the whole path      *)
(* after the entry, and a cell still open is one this engine leaves open:  *)
(* grouping cells by column and row, partial ownership and early removal   *)
(* change nothing.                                                         *)
AgreesWithBarriers ==
  /\ \A x \in BaselineExits :
       LET path == PathAfter(x.signal, x.entry, Len(stream))
       IN  [outcome |-> x.outcome, ts |-> Time(x.fill), price |-> x.price]
             = Barriers!Cell(Surface(x.signal, x.entryPrice, path), x.cell[1], x.cell[2])
  /\ \A g \in {g \in replay.groups : g.scenario = "BASELINE"} :
       LET surface == Surface(g.signal, g.price, PathAfter(g.signal, g.entry, flushed))
       IN  \A cell \in g.active :
             Barriers!Cell(surface, cell[1], cell[2]).outcome = "CENSORED"

(* The label of a baseline cell is what the engine decides from the events *)
(* of the label clock's sessions alone, whatever the position did later;   *)
(* a clock that ends undecided gives a censored label.                     *)
LabelsAreFirstTouch ==
  \A x \in BaselineExits :
    LET ends == stream[x.entry].session + FirstTouchSessions
        path == WithoutTerminal(PathAfter(x.signal, x.entry, x.fill))
        engine == Barriers!Replay(Side(x.signal), x.entryPrice,
                    Restrict(path, {i \in DOMAIN path : path[i].session < ends}))
    IN  x.label = IF Barriers!StopWins(engine, x.cell[1], x.cell[2]) THEN "STOP_FIRST"
                  ELSE IF engine.hits[x.cell[1]] # Barriers!None THEN "TP_FIRST"
                  ELSE IF stream[x.fill].session < ends THEN "TERMINAL_EXIT"
                  ELSE "CENSORED"

(* A decision sees exactly the past: its quote is the last one of its      *)
(* contract at or before the decision time, every event of that very       *)
(* timestamp included and no later one.                                    *)
SeesExactlyThePast ==
  \A x \in replay.records \cup replay.pending \cup replay.groups :
    x.decision = LastOf({i \in DOMAIN stream : /\ stream[i].contract = seeds[x.signal].contract
                                              /\ Time(i) <= seeds[x.signal].ts})

(* Whether an entry at position i follows the routing rules: it is the     *)
(* first event at or after the eligibility time, no gap on the way there   *)
(* exceeds the quote age, every quote is valid, and the stressed price is  *)
(* inside the limit frozen at eligibility.                                 *)
RouteIsClean(p, i) ==
  LET eligibility == Eligibility(p.signal, p.scenario)
      way == {k \in p.decision + 1..Len(stream) :
                stream[k].contract = seeds[p.signal].contract /\ Time(k) <= Time(i) /\ k <= i}
      gates == {p.decision} \cup {k \in way : Time(k) < eligibility}
      frozen == IF Time(i) = eligibility THEN i ELSE Max(gates)
  IN  /\ Time(i) >= eligibility
      /\ way = {i} \cup (gates \ {p.decision})
      /\ \A k \in gates \cup {i} : Valid(k) /\ ~stream[k].terminal
      /\ \A k \in gates : \E n \in gates \cup {i} :
           /\ n > k
           /\ Min({Time(n), eligibility}) - Time(k) <= MaxQuoteAge
           /\ ~\E m \in way : k < m /\ m < n
      /\ Loss(Side(p.signal), EntryPrice(p, i), Opposite(frozen, Side(p.signal))) <= 0

(* A reserved entry is filled exactly when some event gives it a clean     *)
(* route, and by that event.  (A refusal by the decision gate names the    *)
(* decision quote as its failure and never had a reservation.)             *)
EntriesFollowTheRoute ==
  /\ \A x \in {x \in replay.records : x.status = "ENTRY_FILLED"} \cup replay.groups :
       RouteIsClean(x, x.entry)
  /\ \A x \in replay.records :
       x.status = "ENTRY_NOT_FILLED" /\ x.decision # 0 /\ x.failure # x.decision =>
         ~\E i \in x.decision + 1..flushed :
            stream[i].contract = seeds[x.signal].contract /\ RouteIsClean(x, i)

(* A signal skips a cell only while its named owner really holds it: the   *)
(* owner is an earlier signal that holds it still, or gave it up at an     *)
(* event after the skip was decided, or at the end of a stream that went   *)
(* beyond it: a signal the stream never reached is blocked by no other.    *)
(* (A route found stale only at the end names its last quote, and is told  *)
(* from one an event found stale by that quote's age at eligibility.)      *)
RefusedAtTheEnd(x) ==
  \/ x.reason = "NO_ENTRY_ELIGIBILITY_EVENT"
  \/ /\ x.reason = "STALE_BBO_DURING_ROUTE" /\ x.failure # 0
     /\ Eligibility(x.signal, x.scenario) - Time(x.failure) > MaxQuoteAge

HeldBeyond(x, ts) ==
  \/ x.status = "ENTRY_FILLED" /\ Time(x.fill) > ts
  \/ x.status = "ENTRY_NOT_FILLED" /\ RefusedAtTheEnd(x) /\ ts <= Time(Len(stream))
  \/ /\ x.status = "ENTRY_NOT_FILLED" /\ ~RefusedAtTheEnd(x)
     /\ x.failure # 0 /\ Time(x.failure) > ts

SkipsNameTheHolder ==
  \A x \in {x \in replay.records : x.status = "SKIPPED_OCCUPIED"} :
    /\ x.owner < x.signal
    /\ \/ replay.occupied[Slot(x.signal, x.scenario, x.cell)] = x.owner
       \/ \E y \in replay.records :
            /\ Identity(y) = <<x.owner, x.scenario, x.cell>>
            /\ HeldBeyond(y, seeds[x.signal].ts)

(* A signal enters a cell only after the previous position there ended: no *)
(* two signals hold one cell at overlapping times.                         *)
SlotsAreSerial ==
  \A x \in replay.records : \A y \in replay.records \cup replay.groups :
    /\ x.status = "ENTRY_FILLED" /\ y.entry # 0 /\ x.signal < y.signal
    /\ x.scenario = y.scenario /\ Side(x.signal) = Side(y.signal)
    /\ seeds[x.signal].contract = seeds[y.signal].contract
    /\ x.cell \in IF y \in replay.groups THEN y.active ELSE {y.cell}
    => Time(x.fill) <= seeds[y.signal].ts

(* A contract past its terminal quote has no position and no pending entry.*)
TerminatedContractsAreFlat ==
  \A x \in replay.pending \cup replay.groups :
    seeds[x.signal].contract \notin replay.terminated

(* Who holds a cell, since when and until when, is never in doubt.         *)
OccupancyIsExact == SkipsNameTheHolder /\ SlotsAreSerial /\ TerminatedContractsAreFlat

(* No identity ever gets a second result, in the buffer or after a drain,  *)
(* and a finished replay has decided every signal, scenario and cell.      *)
OneResultPerIdentity ==
  /\ \A x, y \in replay.records : Identity(x) = Identity(y) => x = y
  /\ \A x \in replay.records : Identity(x) \notin drained
  /\ status = "finished" =>
       drained \cup {Identity(x) : x \in replay.records} = Signals \X Scenarios \X Cells
=============================================================================
