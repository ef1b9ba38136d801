---------------------------- MODULE BarrierReplay ----------------------------
(***************************************************************************)
(* The barrier engine of one filled position, backtest/barriers.py: one    *)
(* pass over the executable quotes after the entry keeps the first event   *)
(* of every threshold, and the outcome of each take-profit and stop-loss   *)
(* cell is read off the thresholds.  The path is a function from event     *)
(* indexes to quotes, in the order of the indexes; the events of one       *)
(* receive timestamp form a group, a set of indexes.  The grid and the tick*)
(* constants are parameters.                                               *)
(***************************************************************************)
EXTENDS Integers, FiniteSets, FiniteSetsExt

CONSTANTS Grid,            \* BARRIER_TICKS, distances of take profits and of stops
          TradeThrough,    \* TAKE_PROFIT_TRADE_THROUGH_TICKS
          StopLatency,     \* STOP_LATENCY_NS
          MinimumAdverse   \* STOP_MINIMUM_ADVERSE_TICKS

None == [ts |-> -1, price |-> 0]    \* no event
Sides == {"LONG", "SHORT"}

Executable(quote, side) == IF side = "LONG" THEN quote.bid ELSE quote.ask
Gain(side, entry, price) == IF side = "LONG" THEN price - entry ELSE entry - price
Reference(quote, side) == [ts |-> quote.ts, price |-> Executable(quote, side)]

TakeProfitCapacity(side, entry, price) == Gain(side, entry, price) - TradeThrough
StopCapacity(side, entry, price) == -Gain(side, entry, price)

TargetPrice(side, entry, tp) == IF side = "LONG" THEN entry + tp ELSE entry - tp
StopPrice(side, entry, sl) == IF side = "LONG" THEN entry - sl ELSE entry + sl
StopFillPrice(side, trigger, observed) ==
  IF side = "LONG" THEN Min({observed, trigger - MinimumAdverse})
                   ELSE Max({observed, trigger + MinimumAdverse})

(* The first valid event among some of the path, or none.                  *)
FirstValid(events, indexes, side) ==
  LET valid == {i \in indexes : events[i].valid}
  IN  IF valid = {} THEN None ELSE Reference(events[Min(valid)], side)

-----------------------------------------------------------------------------
(* The state of the pass. *)

Engine(side, entry) ==
  [side |-> side, entry |-> entry,
   hits |-> [tp \in Grid |-> None], triggers |-> [sl \in Grid |-> None],
   fills |-> [sl \in Grid |-> None], terminal |-> None]

(* Stops routed at an earlier timestamp fill at the first valid event      *)
(* after the latency.                                                      *)
FillPendingStops(engine, events, group) ==
  [engine EXCEPT !.fills = [sl \in Grid |->
     IF engine.triggers[sl] # None /\ engine.fills[sl] = None
     THEN FirstValid(events,
                     {i \in group : events[i].ts >= engine.triggers[sl].ts + StopLatency},
                     engine.side)
     ELSE engine.fills[sl]]]

TouchThresholds(engine, events, group) ==
  LET price(i) == Executable(events[i], engine.side)
      hit(tp) == FirstValid(events,
                   {i \in group : tp <= TakeProfitCapacity(engine.side, engine.entry, price(i))},
                   engine.side)
      triggered(sl) == FirstValid(events,
                         {i \in group : sl <= StopCapacity(engine.side, engine.entry, price(i))},
                         engine.side)
  IN  [engine EXCEPT
         !.hits = [tp \in Grid |-> IF engine.hits[tp] = None THEN hit(tp) ELSE engine.hits[tp]],
         !.triggers = [sl \in Grid |-> IF engine.triggers[sl] = None THEN triggered(sl)
                                       ELSE engine.triggers[sl]]]

ProcessTimestampGroup(engine, events, group) ==
  TouchThresholds(FillPendingStops(engine, events, group), events, group)

(* The forced liquidation by event i after the path: it may fill a routed  *)
(* stop, and touches no threshold.                                         *)
Liquidate(engine, events, i) ==
  [FillPendingStops(engine, events, {i}) EXCEPT
     !.terminal = IF events[i].valid THEN Reference(events[i], engine.side) ELSE None]

(* The whole pass: a group is processed once its last event was read.      *)
TimestampGroup(events, i) == {k \in DOMAIN events : events[k].ts = events[i].ts}
LastIndex(events) == IF DOMAIN events = {} THEN 0 ELSE Max(DOMAIN events)

Replay(side, entry, events) ==
  LET after[i \in 0..LastIndex(events)] ==
        IF i = 0 THEN Engine(side, entry)
        ELSE IF i \in DOMAIN events /\ \A k \in TimestampGroup(events, i) : k <= i
             THEN ProcessTimestampGroup(after[i - 1], events, TimestampGroup(events, i))
             ELSE after[i - 1]
  IN  after[LastIndex(events)]

-----------------------------------------------------------------------------
(* One cell of the surface.  A stop at the timestamp of the take profit    *)
(* wins, whatever the order of the two events.                             *)
StopWins(engine, tp, sl) ==
  /\ engine.triggers[sl] # None
  /\ engine.hits[tp] = None \/ engine.triggers[sl].ts <= engine.hits[tp].ts

Closed(outcome, event, price) == [outcome |-> outcome, ts |-> event.ts, price |-> price]

Cell(engine, tp, sl) ==
  LET atTerminal == IF engine.terminal # None
                    THEN Closed("TERMINAL_EXIT", engine.terminal, engine.terminal.price)
                    ELSE Closed("CENSORED", None, 0)
  IN  IF StopWins(engine, tp, sl)
      THEN IF engine.fills[sl] # None
           THEN Closed("STOP_FIRST", engine.fills[sl],
                       StopFillPrice(engine.side, StopPrice(engine.side, engine.entry, sl),
                                     engine.fills[sl].price))
           ELSE atTerminal
      ELSE IF engine.hits[tp] # None
           THEN Closed("TP_FIRST", engine.hits[tp], TargetPrice(engine.side, engine.entry, tp))
           ELSE atTerminal
=============================================================================
