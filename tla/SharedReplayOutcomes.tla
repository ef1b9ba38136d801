------------------------ MODULE SharedReplayOutcomes ------------------------
(***************************************************************************)
(* The shared replay closes every cell as the barrier engine would, and    *)
(* labels it by the sessions of the label clock: for any grid, scenarios,  *)
(* signal lists and quotes.                                                *)
(*                                                                         *)
(* The argument.  Priced says where each cell stands on the path of its    *)
(* position: an open one has touched nothing that would have closed it, a  *)
(* closed one was closed by the first event that does.  Every step keeps   *)
(* it, a flush of many events as one of a single event.  The pass of the   *)
(* barrier engine over a path finds the same first events (Reads), so the  *)
(* two agree on every cell.                                                *)
(***************************************************************************)
EXTENDS SharedReplaySafety

-----------------------------------------------------------------------------
(* The outcomes of cells, against the path of their position.              *)

\* The position of an open group and of a closed cell.
OfGroup(g) == [signal |-> g.signal, scenario |-> g.scenario, entry |-> g.entry, price |-> g.price]
OfExit(x) ==
  [signal |-> x.signal, scenario |-> x.scenario, entry |-> x.entry, price |-> x.entryPrice]

\* The events of its contract after its entry, up to the n-th, and what they touch.
Path(q, n) == {k \in q.entry + 1..n : stream[k].contract = seeds[q.signal].contract}
Quotes(q, n) == {k \in Path(q, n) : Valid(k) /\ ~stream[k].terminal}
Against(q, k) == Loss(Side(q.signal), q.price, Executable(k, Side(q.signal)))
StopTouches(q, sl, n) == {k \in Quotes(q, n) : sl <= Against(q, k)}
TargetTouches(q, tp, n) ==
  {k \in Quotes(q, n) : tp <= -Against(q, k) - Scenario[q.scenario].tradeThrough}

\* Where the stop routed at event t may fill.
Fills(q, t, n) ==
  {k \in Path(q, n) : /\ Valid(k) /\ Time(k) > Time(t)
                      /\ Time(k) >= Time(t) + Scenario[q.scenario].stopLatency}

\* Events beyond the sessions of the label clock.
Beyond(q, k) == stream[k].session >= stream[q.entry].session + FirstTouchSessions
Late(q, n) == \E k \in Path(q, n) : Beyond(q, k)

\* After n events an open cell knows its stop's first touch; without one its target was not
\* touched, and with one neither was its target before it nor did the stop fill.  The label
\* clock has run up to event m.
CellWaits(g, cell, n, m) ==
  LET q == OfGroup(g)
      t == g.triggers[cell[2]]
  IN  /\ t = FirstOf(StopTouches(q, cell[2], n))
      /\ t = 0 => TargetTouches(q, cell[1], n) = {}
      /\ t # 0 => /\ \A k \in TargetTouches(q, cell[1], n) : Time(t) <= Time(k)
                  /\ Fills(q, t, n) = {}
      /\ cell \in g.censored <=> IF t = 0 THEN Late(q, m) ELSE Beyond(q, t)
Waits(g, n, m) ==
  /\ g.price \in Int
  /\ g.censor # 0 <=> Late(OfGroup(g), m)
  /\ \A cell \in g.active : CellWaits(g, cell, n, m)

\* A closed cell has the outcome of its path: stopped by a stop touched no later than the
\* target, or at its target, or by the terminal quote.
Stopped(q, cell, n) ==
  LET stop == FirstOf(StopTouches(q, cell[2], n))
  IN  stop # 0 /\ \A k \in TargetTouches(q, cell[1], n) : Time(stop) <= Time(k)
Decider(x, q, n) ==
  IF Stopped(q, x.cell, n) THEN FirstOf(StopTouches(q, x.cell[2], n)) ELSE x.fill
Closes(x, n) ==
  LET q == OfExit(x)
      side == Side(x.signal)
      rules == Scenario[x.scenario]
      stop == FirstOf(StopTouches(q, x.cell[2], n))
      limit == Worse(side, Worse(side, q.price, x.cell[2]), rules.stopAdverse)
      observed == Executable(x.fill, side)
  IN  /\ q.price \in Int /\ x.fill \in Path(q, n)
      /\ \/ /\ x.outcome = "STOP_FIRST" /\ Stopped(q, x.cell, n)
            /\ Fills(q, stop, n) # {} /\ x.fill = FirstOf(Fills(q, stop, n))
            /\ x.price = IF side = "LONG" THEN Min({observed, limit}) ELSE Max({observed, limit})
         \/ /\ x.outcome = "TP_FIRST" /\ ~Stopped(q, x.cell, n)
            /\ TargetTouches(q, x.cell[1], n) # {}
            /\ x.fill = FirstOf(TargetTouches(q, x.cell[1], n))
            /\ x.price = Better(side, q.price, x.cell[1])
         \/ /\ x.outcome = "TERMINAL_EXIT" /\ stream[x.fill].terminal
            /\ IF Stopped(q, x.cell, n) THEN Fills(q, stop, n) = {}
               ELSE TargetTouches(q, x.cell[1], n) = {}
            /\ x.price = Worse(side, observed, rules.terminalAdverse)
      /\ x.label = IF Beyond(q, Decider(x, q, n)) THEN "CENSORED"
                   ELSE IF Stopped(q, x.cell, n) THEN "STOP_FIRST" ELSE x.outcome

Priced(r, n) ==
  /\ \A g \in r.groups : Waits(g, n, n)
  /\ \A x \in r.records : x.status = "ENTRY_FILLED" => Closes(x, Len(stream))

\* Sessions follow one another with the timestamps; a terminal quote is valid and ends its
\* contract.
Dated ==
  /\ \A i \in DOMAIN stream :
       /\ stream[i].session <= dates /\ (stream[i].session < dates => Time(i) <= boundary)
       /\ stream[i].terminal => Valid(i)
  /\ \A i, j \in DOMAIN stream : i < j =>
       /\ stream[i].session <= stream[j].session
       /\ Time(i) = Time(j) => stream[i].session = stream[j].session
       /\ stream[i].terminal => stream[j].contract # stream[i].contract
OutcomeInv == ReplayInv /\ Dated /\ Priced(replay, flushed)

LEMMA FirstOfUnique ==
  ASSUME NEW S, S \subseteq Nat \ {0}, NEW m \in S, \A k \in S : m <= k
  PROVE  FirstOf(S) = m
  <1>1. FirstOf(S) \in S /\ FirstOf(S) <= m
    BY FirstOfIs
  <1>2. m <= FirstOf(S) /\ FirstOf(S) \in Nat /\ m \in Nat
    BY <1>1
  <1>. QED
    BY <1>1, <1>2

\* The first of positions and of later ones.
LEMMA FirstOfLater ==
  ASSUME NEW n \in Nat, NEW S, S \subseteq 1..n, NEW T, T \subseteq Nat, \A k \in T : k > n
  PROVE  FirstOf(S \cup T) = IF S = {} THEN FirstOf(T) ELSE FirstOf(S)
  <1>1. CASE S = {}
    BY <1>1
  <1>2. CASE S # {}
    <2>1. S \subseteq Nat \ {0}
      OBVIOUS
    <2>2. FirstOf(S) \in S /\ \A k \in S : FirstOf(S) <= k
      BY <1>2, <2>1, FirstOfIs
    <2>3. FirstOf(S) \in 1..n
      BY <2>2
    <2>4. S \cup T \subseteq Nat \ {0} /\ \A k \in S \cup T : FirstOf(S) <= k
      BY <2>2, <2>3
    <2>. QED
      BY <1>2, <2>2, <2>4, FirstOfUnique
  <1>. QED
    BY <1>1, <1>2

\* U is the positions S up to n and the positions T after it, up to m.
Joined(S, T, U, n, m) ==
  n \in Nat /\ m \in Nat /\ S \subseteq 1..n /\ T \subseteq n + 1..m /\ U = S \cup T

LEMMA FirstOfGrown ==
  ASSUME NEW n, NEW m, NEW S, NEW T, NEW U, Joined(S, T, U, n, m)
  PROVE  FirstOf(U) = IF S = {} THEN FirstOf(T) ELSE FirstOf(S)
  <1>1. n \in Nat /\ m \in Nat /\ S \subseteq 1..n /\ U = S \cup T /\ T \subseteq n + 1..m
    BY DEF Joined
  <1>2. \A k \in T : k \in Nat /\ k > n
    BY <1>1
  <1>3. T \subseteq Nat /\ \A k \in T : k > n
    BY <1>2
  <1>4. FirstOf(S \cup T) = IF S = {} THEN FirstOf(T) ELSE FirstOf(S)
    BY <1>1, <1>3, FirstOfLater
  <1>. QED
    BY <1>1, <1>4

-----------------------------------------------------------------------------
(* One advance of a group, cell by cell.                                   *)

NewTouches(g, sl, events) ==
  {i \in events : /\ Valid(i) /\ ~stream[i].terminal
                  /\ sl <= Loss(Side(g.signal), g.price, Executable(i, Side(g.signal)))}
NewTargets(g, tp, events) ==
  {i \in events : /\ Valid(i) /\ ~stream[i].terminal
                  /\ tp <= -Loss(Side(g.signal), g.price, Executable(i, Side(g.signal)))
                             - Scenario[g.scenario].tradeThrough}
Terminals(events) == {i \in events : stream[i].terminal}
Reach(g, cell, events) ==
  IF g.triggers[cell[2]] # 0 THEN g.triggers[cell[2]]
  ELSE FirstOf(NewTouches(g, cell[2], events))
StopLimit(g, sl, i) ==
  LET side == Side(g.signal)
      limit == Worse(side, Worse(side, g.price, sl), Scenario[g.scenario].stopAdverse)
      observed == Executable(i, side)
  IN  IF side = "LONG" THEN Min({observed, limit}) ELSE Max({observed, limit})
Liquidation(g, i) ==
  Worse(Side(g.signal), Executable(i, Side(g.signal)), Scenario[g.scenario].terminalAdverse)

\* A cell left open, and the three ways to close one.
StaysOpen(g, h, cell, events) ==
  /\ RoutedFill(g, cell[2], events) = 0 /\ FirstOf(Terminals(events)) = 0
  /\ h.triggers[cell[2]] = Reach(g, cell, events)
  /\ Reach(g, cell, events) = 0 => FirstOf(NewTargets(g, cell[1], events)) = 0
StopsOut(g, x, events) ==
  LET fill == RoutedFill(g, x.cell[2], events)
  IN  /\ fill # 0
      /\ x = Exit(g, x.cell, g.triggers[x.cell[2]], "STOP_FIRST", fill,
                  StopLimit(g, x.cell[2], fill))
TakesProfit(g, x, events) ==
  LET hit == FirstOf(NewTargets(g, x.cell[1], events))
  IN  /\ RoutedFill(g, x.cell[2], events) = 0 /\ Reach(g, x.cell, events) = 0 /\ hit # 0
      /\ x = Exit(g, x.cell, 0, "TP_FIRST", hit, Better(Side(g.signal), g.price, x.cell[1]))
Liquidates(g, x, events) ==
  LET terminal == FirstOf(Terminals(events))
  IN  /\ RoutedFill(g, x.cell[2], events) = 0 /\ terminal # 0
      /\ Reach(g, x.cell, events) = 0 => FirstOf(NewTargets(g, x.cell[1], events)) = 0
      /\ x = Exit(g, x.cell, Reach(g, x.cell, events), "TERMINAL_EXIT", terminal,
                  Liquidation(g, terminal))

LEMMA AdvanceTells ==
  ASSUME NEW n \in Nat, NEW g, GroupShape(g, n), NEW events, NEW a, a = AdvancePositionGroup(g, events)
  PROVE  /\ OfGroup(a.group) = OfGroup(g) /\ a.group.price = g.price
         /\ a.group.censored = g.censored /\ a.group.censor = g.censor
         /\ a.group.active \subseteq g.active
         /\ \A cell \in a.group.active : StaysOpen(g, a.group, cell, events)
         /\ \A x \in a.exits : /\ x.cell \in g.active
                               /\ \/ StopsOut(g, x, events)
                                  \/ TakesProfit(g, x, events)
                                  \/ Liquidates(g, x, events)
  <1> DEFINE side == Side(g.signal)
             rules == Scenario[g.scenario]
             terminal == FirstOf({i \in events : stream[i].terminal})
             quotes == {i \in events : Valid(i) /\ ~stream[i].terminal}
             filledBy == [sl \in Grid |-> RoutedFill(g, sl, events)]
             stopFill(sl) ==
               LET limit == Worse(side, Worse(side, g.price, sl), rules.stopAdverse)
                   observed == Executable(filledBy[sl], side)
               IN  IF side = "LONG" THEN Min({observed, limit}) ELSE Max({observed, limit})
             stopped == {cell \in g.active : filledBy[cell[2]] # 0}
             open == g.active \ stopped
             triggers == [sl \in Grid |->
               IF filledBy[sl] # 0 \/ ~\E cell \in open : cell[2] = sl THEN 0
               ELSE IF g.triggers[sl] # 0 THEN g.triggers[sl]
               ELSE FirstOf({i \in quotes : sl <= Loss(side, g.price, Executable(i, side))})]
             hit == [tp \in Grid |-> FirstOf({i \in quotes :
                       tp <= -Loss(side, g.price, Executable(i, side)) - rules.tradeThrough})]
             won == {cell \in open : triggers[cell[2]] = 0 /\ hit[cell[1]] # 0}
             left == open \ won
             liquidation == Worse(side, Executable(terminal, side), rules.terminalAdverse)
             closed == IF terminal # 0 THEN left ELSE {}
             stops == {Exit(g, cell, g.triggers[cell[2]], "STOP_FIRST",
                            filledBy[cell[2]], stopFill(cell[2])) : cell \in stopped}
             wins == {Exit(g, cell, 0, "TP_FIRST", hit[cell[1]],
                           Better(side, g.price, cell[1])) : cell \in won}
             ends == {Exit(g, cell, triggers[cell[2]], "TERMINAL_EXIT", terminal, liquidation) :
                        cell \in closed}
  <1>1. a = [group |-> [g EXCEPT !.triggers = triggers,
                                 !.active = IF terminal # 0 THEN {} ELSE left],
             exits |-> stops \cup wins \cup ends]
    BY Zenon DEF AdvancePositionGroup
  <1>2. terminal = FirstOf(Terminals(events))
    BY Zenon DEF Terminals
  <1>3. \A sl \in Grid : filledBy[sl] = RoutedFill(g, sl, events)
    BY Zenon
  <1>4. \A sl \in Grid :
          {i \in quotes : sl <= Loss(side, g.price, Executable(i, side))} = NewTouches(g, sl, events)
    <2> SUFFICES ASSUME NEW sl, NEW i
                 PROVE i \in {k \in quotes : sl <= Loss(side, g.price, Executable(k, side))} <=> i \in NewTouches(g, sl, events)
      BY Zenon
    <2>. QED
      BY Zenon DEF NewTouches
  <1>5. \A tp \in Grid : hit[tp] = FirstOf(NewTargets(g, tp, events))
    <2> SUFFICES ASSUME NEW tp, NEW i
                 PROVE i \in {k \in quotes : tp <= -Loss(side, g.price, Executable(k, side)) - rules.tradeThrough} <=> i \in NewTargets(g, tp, events)
      BY Zenon
    <2>. QED
      BY Zenon DEF NewTargets
  <1>6. g.active \subseteq Cells /\ \A cell \in Cells : cell[1] \in Grid /\ cell[2] \in Grid
    BY DEF GroupShape, Cells
  <1>7. \A cell \in open : triggers[cell[2]] = Reach(g, cell, events)
    <2>. SUFFICES ASSUME NEW cell \in open PROVE triggers[cell[2]] = Reach(g, cell, events)
      BY Zenon
    <2>1. cell[2] \in Grid /\ filledBy[cell[2]] = 0
      BY <1>6
    <2>2. \E c \in open : c[2] = cell[2]
      BY Zenon
    <2>3. triggers[cell[2]] = IF g.triggers[cell[2]] # 0 THEN g.triggers[cell[2]]
            ELSE FirstOf({i \in quotes : cell[2] <= Loss(side, g.price, Executable(i, side))})
      BY <2>1, <2>2, Zenon
    <2>. QED
      BY <1>4, <2>1, <2>3, Zenon DEF Reach
  <1>8. \A cell \in stopped : stopFill(cell[2]) = StopLimit(g, cell[2], RoutedFill(g, cell[2], events))
    BY <1>3, <1>6 DEF StopLimit
  <1>9. liquidation = Liquidation(g, terminal)
    BY DEF Liquidation
  <1>10. /\ stopped \subseteq g.active /\ \A cell \in stopped : filledBy[cell[2]] # 0
         /\ open \subseteq g.active /\ \A cell \in open : filledBy[cell[2]] = 0
         /\ \A cell \in won : cell \in open /\ triggers[cell[2]] = 0 /\ hit[cell[1]] # 0
         /\ \A cell \in left : cell \in open /\ ~(triggers[cell[2]] = 0 /\ hit[cell[1]] # 0)
         /\ closed = IF terminal # 0 THEN left ELSE {}
    BY Zenon
  <1> HIDE DEF side, rules, terminal, quotes, filledBy, stopFill, stopped, open, triggers, hit, won,
               left, liquidation, closed, stops, wins, ends
  <1>11. a.group = [g EXCEPT !.triggers = triggers, !.active = IF terminal # 0 THEN {} ELSE left]
         /\ a.exits = stops \cup wins \cup ends
    BY <1>1
  <1>12. /\ OfGroup(a.group) = OfGroup(g) /\ a.group.price = g.price
         /\ a.group.censored = g.censored /\ a.group.censor = g.censor
         /\ a.group.active = (IF terminal # 0 THEN {} ELSE left) /\ a.group.triggers = triggers
    BY <1>11 DEF OfGroup, GroupShape
  <1>13. \A cell \in a.group.active : cell \in g.active /\ StaysOpen(g, a.group, cell, events)
    <2>. SUFFICES ASSUME NEW cell \in a.group.active
                  PROVE  cell \in g.active /\ StaysOpen(g, a.group, cell, events)
      OBVIOUS
    <2>1. terminal = 0 /\ cell \in left
      BY <1>12
    <2>2. cell \in g.active /\ cell[1] \in Grid /\ cell[2] \in Grid
      BY <1>6, <1>10, <2>1
    <2>. QED
      BY <1>2, <1>3, <1>5, <1>7, <1>10, <1>12, <2>1, <2>2, Zenon DEF StaysOpen
  <1>14. ASSUME NEW x \in stops PROVE x.cell \in g.active /\ StopsOut(g, x, events)
    <2>1. PICK cell \in stopped : x = Exit(g, cell, g.triggers[cell[2]], "STOP_FIRST",
                                           filledBy[cell[2]], stopFill(cell[2]))
      BY Zenon DEF stops
    <2>2. x.cell = cell
      BY <2>1, ExitIs
    <2>3. cell \in g.active /\ cell[2] \in Grid
      BY <1>6, <1>10, <2>1
    <2>. QED
      BY <1>3, <1>8, <1>10, <2>1, <2>2, <2>3, Zenon DEF StopsOut
  <1>15. ASSUME NEW x \in wins PROVE x.cell \in g.active /\ TakesProfit(g, x, events)
    <2>1. PICK cell \in won : x = Exit(g, cell, 0, "TP_FIRST", hit[cell[1]],
                                       Better(side, g.price, cell[1]))
      BY Zenon DEF wins
    <2>2. x.cell = cell
      BY <2>1, ExitIs
    <2>3. cell \in g.active /\ cell[1] \in Grid /\ cell[2] \in Grid
      BY <1>6, <1>10, <2>1
    <2>. QED
      BY <1>3, <1>5, <1>7, <1>10, <2>1, <2>2, <2>3, Zenon DEF TakesProfit, side
  <1>16. ASSUME NEW x \in ends PROVE x.cell \in g.active /\ Liquidates(g, x, events)
    <2>1. PICK cell \in closed :
            x = Exit(g, cell, triggers[cell[2]], "TERMINAL_EXIT", terminal, liquidation)
      BY Zenon DEF ends
    <2>2. x.cell = cell
      BY <2>1, ExitIs
    <2>3. terminal # 0 /\ cell \in left
      BY <1>10
    <2>4. cell \in g.active /\ cell[1] \in Grid /\ cell[2] \in Grid
      BY <1>6, <1>10, <2>3
    <2>. QED
      BY <1>2, <1>3, <1>5, <1>7, <1>9, <1>10, <2>1, <2>2, <2>3, <2>4, Zenon DEF Liquidates
  <1>. QED
    BY <1>11, <1>12, <1>13, <1>14, <1>15, <1>16

LEMMA ExitTells ==
  ASSUME NEW g, NEW cell, NEW trigger, NEW outcome, NEW fill, NEW price, NEW x,
         x = Exit(g, cell, trigger, outcome, fill, price)
  PROVE  /\ OfExit(x) = OfGroup(g) /\ x.signal = g.signal /\ x.scenario = g.scenario
         /\ x.outcome = outcome /\ x.fill = fill /\ x.price = price /\ x.cell = cell
         /\ x.label = IF cell \in g.censored THEN "CENSORED"
                      ELSE IF trigger # 0 THEN "STOP_FIRST" ELSE outcome
  <1>1. /\ x.signal = g.signal /\ x.scenario = g.scenario /\ x.entry = g.entry
        /\ x.entryPrice = g.price
        /\ x.outcome = outcome /\ x.fill = fill /\ x.price = price /\ x.cell = cell
    BY DEF Exit, Result
  <1>2. x.label = IF cell \in g.censored THEN "CENSORED"
                  ELSE IF trigger # 0 THEN "STOP_FIRST" ELSE outcome
    BY DEF Exit, Result
  <1>3. OfExit(x) = OfGroup(g)
    BY <1>1, Zenon DEF OfExit, OfGroup
  <1>. QED
    BY <1>1, <1>2, <1>3

\* The events a position meets are those of its contract after the n-th: of one timestamp,
\* later than those of its path.
Meets(g, n, events) ==
  /\ n \in 1..Len(stream) /\ g.entry \in 1..n
  /\ events = {k \in n + 1..Len(stream) : stream[k].contract = seeds[g.signal].contract}
  /\ \A i, k \in events : Time(i) = Time(k)
  /\ \A i \in Path(OfGroup(g), n), k \in events : Time(i) < Time(k)

LEMMA PathNext ==
  ASSUME stream \in Seq(Quote), NEW g, NEW n, NEW events, Meets(g, n, events),
         NEW q, q = OfGroup(g), NEW m, m = Len(stream)
  PROVE  /\ Path(q, m) = Path(q, n) \cup events
         /\ \A sl : StopTouches(q, sl, m) = StopTouches(q, sl, n) \cup NewTouches(g, sl, events)
         /\ \A tp : TargetTouches(q, tp, m) = TargetTouches(q, tp, n) \cup NewTargets(g, tp, events)
         /\ \A t : Fills(q, t, m) = Fills(q, t, n) \cup
              {k \in events : /\ Valid(k) /\ Time(k) > Time(t)
                              /\ Time(k) >= Time(t) + Scenario[g.scenario].stopLatency}
         /\ Path(q, n) \subseteq 1..n
         /\ \A sl : StopTouches(q, sl, n) \subseteq Path(q, n)
                    /\ TargetTouches(q, sl, n) \subseteq Path(q, n)
         /\ n \in Nat /\ m \in Nat /\ n \in 1..m
         /\ events \subseteq 1..m /\ \A k \in events : k > n
  <1>0. /\ n \in Nat /\ m \in Nat /\ n <= m /\ n \in 1..m /\ g.entry \in 1..n
        /\ events = {k \in n + 1..m : stream[k].contract = seeds[g.signal].contract}
    BY DEF Meets
  <1>1. q.signal = g.signal /\ q.scenario = g.scenario /\ q.entry = g.entry /\ q.price = g.price
    BY DEF OfGroup
  <1>2. Path(q, m) = Path(q, n) \cup events
    <2>1. g.entry + 1..m = (g.entry + 1..n) \cup (n + 1..m)
      BY <1>0
    <2>2. /\ Path(q, m) = {k \in g.entry + 1..m : stream[k].contract = seeds[g.signal].contract}
          /\ Path(q, n) = {k \in g.entry + 1..n : stream[k].contract = seeds[g.signal].contract}
      BY <1>1 DEF Path
    <2>. QED
      BY <1>0, <2>1, <2>2, Zenon
  <1>3. \A k : k \in Quotes(q, m) <=>
          k \in Quotes(q, n) \/ (k \in events /\ Valid(k) /\ ~stream[k].terminal)
    BY <1>2, Zenon DEF Quotes
  <1>4. \A sl : StopTouches(q, sl, m) = StopTouches(q, sl, n) \cup NewTouches(g, sl, events)
    <2>. SUFFICES ASSUME NEW sl, NEW k
                  PROVE  k \in StopTouches(q, sl, m) <=>
                         k \in StopTouches(q, sl, n) \/ k \in NewTouches(g, sl, events)
      BY Zenon
    <2>. QED
      BY <1>1, <1>3, Zenon DEF StopTouches, NewTouches, Against
  <1>5. \A tp : TargetTouches(q, tp, m) = TargetTouches(q, tp, n) \cup NewTargets(g, tp, events)
    <2>. SUFFICES ASSUME NEW sl, NEW k
                  PROVE  k \in TargetTouches(q, sl, m) <=>
                         k \in TargetTouches(q, sl, n) \/ k \in NewTargets(g, sl, events)
      BY Zenon
    <2>. QED
      BY <1>1, <1>3, Zenon DEF TargetTouches, NewTargets, Against
  <1>6. \A t : Fills(q, t, m) = Fills(q, t, n) \cup
          {k \in events : /\ Valid(k) /\ Time(k) > Time(t)
                          /\ Time(k) >= Time(t) + Scenario[g.scenario].stopLatency}
    BY <1>1, <1>2, Zenon DEF Fills
  <1>7. Path(q, n) \subseteq 1..n
    BY <1>0, <1>1 DEF Path
  <1>9. events \subseteq 1..m /\ \A k \in events : k > n
    BY <1>0
  <1>8. \A sl : StopTouches(q, sl, n) \subseteq Path(q, n)
                    /\ TargetTouches(q, sl, n) \subseteq Path(q, n)
    BY Zenon DEF StopTouches, TargetTouches, Quotes
  <1>. QED
    BY <1>0, <1>2, <1>4, <1>5, <1>6, <1>7, <1>8, <1>9

\* The label clock is over after a path when its last events are beyond it.
LEMMA LateIs ==
  ASSUME stream \in Seq(Quote), Dated, NEW g, NEW n, NEW events, Meets(g, n, events),
         NEW k \in events
  PROVE  Late(OfGroup(g), Len(stream)) <=> Beyond(OfGroup(g), k)
  <1> DEFINE q == OfGroup(g)
             m == Len(stream)
  <1>1. Path(q, m) = Path(q, n) \cup events /\ Path(q, n) \subseteq 1..n /\ events \subseteq 1..m
        /\ m \in Nat /\ n \in Nat /\ n \in 1..m /\ \A i \in events : i > n
    BY PathNext
  <1>2. \A i \in 1..m : stream[i].session \in Nat
    <2>1. \A i \in 1..m : stream[i] \in Quote
      OBVIOUS
    <2>. QED
      BY <2>1 DEF Quote
  <1>3. q.entry \in 1..m
    BY <1>1 DEF Meets, OfGroup
  <1>7. Path(q, m) \subseteq 1..m
    <2>1. 1..n \subseteq 1..m
      BY <1>1
    <2>. QED
      BY <1>1, <2>1
  <1>4. \A i \in Path(q, m) : stream[i].session <= stream[k].session
    <2>. SUFFICES ASSUME NEW i \in Path(q, m) PROVE stream[i].session <= stream[k].session
      OBVIOUS
    <2>0. DOMAIN stream = 1..m /\ k \in 1..m /\ i \in 1..m
      <3>1. DOMAIN stream = 1..m
        BY StreamTypes
      <3>. QED
        BY <1>1, <1>7, <3>1, Zenon
    <2>1. CASE i \in events
      <3>1. Time(i) = Time(k)
        BY <2>1 DEF Meets
      <3>2. i < k \/ k < i \/ i = k
        BY <2>0
      <3>3. stream[i].session = stream[k].session
        BY <2>0, <3>1, <3>2 DEF Dated
      <3>. QED
        BY <1>2, <2>0, <3>3
    <2>2. CASE i \in Path(q, n)
      <3>1. i < k
        BY <1>1, <2>2
      <3>. QED
        BY <2>0, <3>1 DEF Dated
    <2>. QED
      BY <1>1, <2>1, <2>2
  <1>5. k \in Path(q, m) /\ k \in 1..m
    BY <1>1
  <1>6. stream[q.entry].session + FirstTouchSessions \in Nat
    BY <1>2, <1>3, ClockOutlastsTheEntry
  <1> HIDE DEF q, m
  <1>8. ASSUME NEW i \in Path(q, m), Beyond(q, i) PROVE Beyond(q, k)
    <2>1. stream[i].session \in Nat /\ stream[k].session \in Nat
          /\ stream[i].session <= stream[k].session
      BY <1>2, <1>4, <1>5, <1>7
    <2>. QED
      BY <1>6, <1>8, <2>1 DEF Beyond
  <1>. QED
    BY <1>5, <1>8 DEF Late, q, m

\* What the events tell of an open cell: the first touches and the fill of its stop, and the
\* label clock.
CellTold(g, cell, events, q, m, t, r, f, hit) ==
  /\ r = FirstOf(StopTouches(q, cell[2], m))
  /\ r = 0 => hit = FirstOf(TargetTouches(q, cell[1], m))
              /\ (hit = 0 <=> TargetTouches(q, cell[1], m) = {})
  /\ r # 0 => \A k \in TargetTouches(q, cell[1], m) : Time(r) <= Time(k)
  /\ t # 0 => r = t /\ f = FirstOf(Fills(q, t, m)) /\ (f = 0 <=> Fills(q, t, m) = {})
  /\ t = 0 => f = 0
  /\ r # 0 /\ f = 0 => Fills(q, r, m) = {}
  /\ cell \in g.censored <=> IF r = 0 THEN Late(q, m) ELSE Beyond(q, r)
  /\ hit # 0 => hit \in events
  /\ f # 0 => f \in events

LEMMA CellIs ==
  ASSUME stream \in Seq(Quote), Dated, NEW g, NEW n, NEW events, Meets(g, n, events),
         g.triggers \in [Grid -> 0..n], NEW cell \in Cells,
         CellWaits(g, cell, n, Len(stream)),
         \A sc \in Scenarios : Scenario[sc].stopLatency \in Nat, g.scenario \in Scenarios,
         NEW q, q = OfGroup(g), NEW m, m = Len(stream),
         NEW t, t = g.triggers[cell[2]], NEW r, r = Reach(g, cell, events),
         NEW f, f = RoutedFill(g, cell[2], events), NEW hit, hit = FirstOf(NewTargets(g, cell[1], events))
  PROVE  CellTold(g, cell, events, q, m, t, r, f, hit)
  <1> DEFINE sl == cell[2]
             tp == cell[1]
             newFills == {k \in events : /\ Valid(k) /\ Time(k) > Time(t)
                              /\ Time(k) >= Time(t) + Scenario[g.scenario].stopLatency}
  <1>1. /\ m \in Nat /\ n \in 1..m /\ g.entry \in 1..n /\ n \in Nat /\ n <= m
        /\ events = {k \in n + 1..m : stream[k].contract = seeds[g.signal].contract}
        /\ \A i, k \in events : Time(i) = Time(k)
        /\ \A i \in Path(q, n), k \in events : Time(i) < Time(k)
    BY DEF Meets
  <1>2. /\ Path(q, m) = Path(q, n) \cup events
        /\ StopTouches(q, sl, m) = StopTouches(q, sl, n) \cup NewTouches(g, sl, events)
        /\ TargetTouches(q, tp, m) = TargetTouches(q, tp, n) \cup NewTargets(g, tp, events)
        /\ Fills(q, t, m) = Fills(q, t, n) \cup newFills
        /\ Path(q, n) \subseteq 1..n
        /\ StopTouches(q, sl, n) \subseteq Path(q, n)
        /\ TargetTouches(q, tp, n) \subseteq Path(q, n)
    BY PathNext
  <1>3. events \subseteq 1..m /\ events \subseteq Nat \ {0} /\ (\A k \in events : k > n)
    BY <1>1
  <1>4. /\ NewTouches(g, sl, events) \subseteq events /\ NewTargets(g, tp, events) \subseteq events
        /\ newFills \subseteq events /\ Fills(q, t, n) \subseteq Path(q, n)
    BY Zenon DEF NewTouches, NewTargets, Fills
  <1>5. \A i \in 1..m : Time(i) \in Nat
    BY StreamTypes
  <1>6. /\ t = FirstOf(StopTouches(q, sl, n))
        /\ t = 0 => TargetTouches(q, tp, n) = {}
        /\ t # 0 => /\ \A k \in TargetTouches(q, tp, n) : Time(t) <= Time(k)
                    /\ Fills(q, t, n) = {}
        /\ cell \in g.censored <=> IF t = 0 THEN Late(q, m) ELSE Beyond(q, t)
    BY Zenon DEF CellWaits
  <1>7. r = IF t # 0 THEN t ELSE FirstOf(NewTouches(g, sl, events))
    BY DEF Reach
  <1>8. f = IF t = 0 THEN 0
            ELSE FirstOf({i \in events : Valid(i) /\ Time(i) >= Time(t) + Scenario[g.scenario].stopLatency})
    BY DEF RoutedFill
  <1>9. StopTouches(q, sl, n) \subseteq 1..n /\ StopTouches(q, sl, n) \subseteq Nat \ {0}
        /\ TargetTouches(q, tp, n) \subseteq 1..n
    BY <1>2
  <1>10. /\ StopTouches(q, sl, n) = {} <=> t = 0
         /\ t # 0 => t \in StopTouches(q, sl, n) /\ t \in Path(q, n) /\ t \in 1..n
    BY <1>2, <1>6, <1>9, FirstOfIs
  <1>11. r = FirstOf(StopTouches(q, sl, m))
    <2>1. FirstOf(StopTouches(q, sl, n) \cup NewTouches(g, sl, events))
            = IF StopTouches(q, sl, n) = {} THEN FirstOf(NewTouches(g, sl, events))
              ELSE FirstOf(StopTouches(q, sl, n))
      <3>1. NewTouches(g, sl, events) \subseteq Nat /\ \A k \in NewTouches(g, sl, events) : k > n
        BY <1>3, <1>4
      <3>. QED
        BY <1>1, <1>9, <3>1, FirstOfLater
    <2>. QED
      BY <1>2, <1>6, <1>7, <1>10, <2>1
  <1>12. FirstOf(NewTouches(g, sl, events)) # 0 => FirstOf(NewTouches(g, sl, events)) \in events
    <2>1. NewTouches(g, sl, events) \subseteq Nat \ {0}
      BY <1>3, <1>4
    <2>. QED
      BY <1>4, <2>1, FirstOfIs
  <1>13. (hit # 0 => hit \in events) /\ (hit = 0 <=> NewTargets(g, tp, events) = {})
    <2>1. NewTargets(g, tp, events) \subseteq Nat \ {0}
      BY <1>3, <1>4
    <2>. QED
      BY <1>4, <2>1, FirstOfIs
  <1>14. t # 0 => f = FirstOf(newFills)
    <2>. SUFFICES ASSUME t # 0 PROVE f = FirstOf(newFills)
      OBVIOUS
    <2>1. \A k \in events : Time(k) > Time(t)
      <3>1. \A k \in events : k \in 1..m
        BY <1>1, <1>3
      <3>2. t \in 1..m
        BY <1>1, <1>10
      <3>. QED
        BY <1>1, <1>5, <1>10, <3>1, <3>2
    <2>2. newFills = {i \in events : Valid(i) /\ Time(i) >= Time(t) + Scenario[g.scenario].stopLatency}
      BY <2>1, Zenon
    <2> HIDE DEF newFills
    <2>. QED
      BY <1>8, <2>2, Zenon
  <1> HIDE DEF newFills, sl, tp
  <1>15. t # 0 => f = FirstOf(Fills(q, t, m)) /\ (f = 0 <=> Fills(q, t, m) = {}) /\ (f # 0 => f \in events)
    <2>1. t # 0 => Fills(q, t, m) = newFills
      BY <1>2, <1>6
    <2>2. newFills \subseteq Nat \ {0}
      BY <1>3, <1>4
    <2>3. (FirstOf(newFills) = 0 <=> newFills = {}) /\ (newFills # {} => FirstOf(newFills) \in newFills)
      BY <2>2, FirstOfIs
    <2>. QED
      BY <1>4, <1>14, <2>1, <2>3
  <1>16. r = 0 => TargetTouches(q, tp, m) = NewTargets(g, tp, events)
    <2>1. r = 0 => t = 0
      BY <1>7
    <2>. QED
      BY <1>2, <1>6, <2>1
  <1>17. \A i \in events : \A k \in Path(q, m) : Time(k) <= Time(i)
    <2>1. \A i \in events : i \in 1..m
      BY <1>1, <1>3
    <2>2. \A i \in Path(q, n) : i \in 1..m
      BY <1>1, <1>2
    <2>. QED
      BY <1>1, <1>2, <1>5, <2>1, <2>2
  <1>18. r # 0 => \A k \in TargetTouches(q, tp, m) : Time(r) <= Time(k)
    <2>. SUFFICES ASSUME r # 0, NEW k \in TargetTouches(q, tp, m) PROVE Time(r) <= Time(k)
      OBVIOUS
    <2>1. CASE t # 0 /\ k \in TargetTouches(q, tp, n)
      BY <1>6, <1>7, <2>1
    <2>2. CASE t # 0 /\ k \in events
      <3>1. t \in 1..m /\ k \in 1..m /\ Time(t) < Time(k)
        BY <1>1, <1>3, <1>10, <2>2
      <3>. QED
        BY <1>5, <1>7, <2>2, <3>1
    <2>3. CASE t = 0
      <3>1. k \in events /\ r \in events
        BY <1>2, <1>4, <1>6, <1>7, <1>12, <2>3
      <3>2. Time(r) = Time(k) /\ k \in 1..m
        BY <1>1, <1>3, <3>1
      <3>. QED
        BY <1>5, <3>2
    <2>. QED
      BY <1>2, <1>4, <2>1, <2>2, <2>3
  <1>19. r # 0 /\ f = 0 => Fills(q, r, m) = {}
    <2>. SUFFICES ASSUME r # 0, f = 0 PROVE Fills(q, r, m) = {}
      OBVIOUS
    <2>1. CASE t # 0
      BY <1>7, <1>15, <2>1
    <2>2. CASE t = 0
      <3>1. r \in events
        BY <1>7, <1>12, <2>2
      <3>2. \A k \in Path(q, m) : ~(Time(k) > Time(r))
        <4>. SUFFICES ASSUME NEW k \in Path(q, m) PROVE ~(Time(k) > Time(r))
          OBVIOUS
        <4>1. Time(k) <= Time(r)
          BY <1>17, <3>1
        <4>2. k \in 1..m /\ r \in 1..m
          BY <1>1, <1>2, <1>3, <3>1
        <4>. QED
          BY <1>5, <4>1, <4>2
      <3>. QED
        BY <3>2, Zenon DEF Fills
    <2>. QED
      BY <2>1, <2>2
  <1>20. cell \in g.censored <=> IF r = 0 THEN Late(q, m) ELSE Beyond(q, r)
    <2>1. CASE t # 0
      BY <1>6, <1>7, <2>1
    <2>2. CASE t = 0 /\ r = 0
      BY <1>6, <2>2
    <2>3. CASE t = 0 /\ r # 0
      <3>1. r \in events
        BY <1>7, <1>12, <2>3
      <3>2. Late(q, m) <=> Beyond(q, r)
        BY <3>1, LateIs
      <3>. QED
        BY <1>6, <2>3, <3>2
    <2>. QED
      BY <2>1, <2>2, <2>3
  <1>. QED
    BY <1>7, <1>8, <1>11, <1>13, <1>15, <1>16, <1>18, <1>19, <1>20 DEF sl, tp, CellTold
LEMMA RulesAre ==
  \A sc \in Scenarios :
    /\ Scenario[sc].stopLatency \in Nat /\ Scenario[sc].stopAdverse \in Nat
    /\ Scenario[sc].tradeThrough \in Nat /\ Scenario[sc].terminalAdverse \in Nat
BY ScenariosHaveRules DEF Scenarios

\* A position that meets its next events keeps the open cells waiting, and closes the others
\* with the outcomes of their paths.
LEMMA AdvancePrices ==
  ASSUME stream \in Seq(Quote), Dated, NEW g, NEW n, GroupShape(g, n),
         NEW events, Meets(g, n, events), Waits(g, n, Len(stream)),
         NEW a, a = AdvancePositionGroup(g, events)
  PROVE  /\ Waits(a.group, Len(stream), Len(stream))
         /\ \A x \in a.exits : Closes(x, Len(stream))
  <1> DEFINE m == Len(stream)
             q == OfGroup(g)
             sof(cell) == StopTouches(q, cell[2], m)
             tof(cell) == TargetTouches(q, cell[1], m)
             t(cell) == g.triggers[cell[2]]
             r(cell) == Reach(g, cell, events)
             f(cell) == RoutedFill(g, cell[2], events)
             hit(cell) == FirstOf(NewTargets(g, cell[1], events))
             terminal == FirstOf(Terminals(events))
  <1>0. n \in Nat /\ g.triggers \in [Grid -> 0..n] /\ g.active \subseteq Cells
        /\ g.scenario \in Scenarios
    BY DEF Meets, GroupShape
  <1>1. /\ OfGroup(a.group) = OfGroup(g) /\ a.group.price = g.price
        /\ a.group.censored = g.censored /\ a.group.censor = g.censor
        /\ a.group.active \subseteq g.active
        /\ \A cell \in a.group.active : StaysOpen(g, a.group, cell, events)
        /\ \A x \in a.exits : /\ x.cell \in g.active
                              /\ \/ StopsOut(g, x, events)
                                 \/ TakesProfit(g, x, events)
                                 \/ Liquidates(g, x, events)
    BY <1>0, AdvanceTells
  <1>2. \A cell \in g.active : CellWaits(g, cell, n, m)
    BY DEF Waits
  <1>3. g.price \in Int /\ (g.censor # 0 <=> Late(q, m))
    BY DEF Waits
  <1>4. events \subseteq Path(q, m) /\ events \subseteq Nat \ {0} /\ m \in Nat
    BY PathNext
  <1>5. ASSUME NEW cell \in g.active
        PROVE  /\ r(cell) = FirstOf(sof(cell))
               /\ r(cell) = 0 => hit(cell) = FirstOf(tof(cell)) /\ (hit(cell) = 0 <=> tof(cell) = {})
               /\ r(cell) # 0 => \A k \in tof(cell) : Time(r(cell)) <= Time(k)
               /\ t(cell) # 0 => /\ r(cell) = t(cell) /\ f(cell) = FirstOf(Fills(q, t(cell), m))
                                 /\ (f(cell) = 0 <=> Fills(q, t(cell), m) = {})
               /\ t(cell) = 0 => f(cell) = 0
               /\ r(cell) # 0 /\ f(cell) = 0 => Fills(q, r(cell), m) = {}
               /\ cell \in g.censored <=> IF r(cell) = 0 THEN Late(q, m) ELSE Beyond(q, r(cell))
               /\ hit(cell) # 0 => hit(cell) \in events
               /\ f(cell) # 0 => f(cell) \in events
    <2>1. cell \in Cells /\ CellWaits(g, cell, n, m)
      BY <1>0, <1>2
    <2>2. \A sc \in Scenarios : Scenario[sc].stopLatency \in Nat
      BY RulesAre
    <2>3. CellTold(g, cell, events, q, m, t(cell), r(cell), f(cell), hit(cell))
      BY <1>0, <2>1, <2>2, CellIs
    <2>. QED
      BY <2>3, Zenon DEF CellTold
  <1>6. terminal # 0 => terminal \in events /\ stream[terminal].terminal
    <2>1. Terminals(events) \subseteq Nat \ {0}
      BY <1>4 DEF Terminals
    <2>2. terminal # 0 => terminal \in Terminals(events)
      BY <2>1, FirstOfIs
    <2>. QED
      BY <2>2, Zenon DEF Terminals
  <1>7. ASSUME NEW x, x.cell \in g.active, OfExit(x) = q
        PROVE  /\ Stopped(OfExit(x), x.cell, m) <=> r(x.cell) # 0
               /\ r(x.cell) # 0 => Decider(x, OfExit(x), m) = r(x.cell)
               /\ r(x.cell) = 0 => Decider(x, OfExit(x), m) = x.fill
    <2>1. /\ r(x.cell) = FirstOf(sof(x.cell))
          /\ r(x.cell) # 0 => \A k \in tof(x.cell) : Time(r(x.cell)) <= Time(k)
      BY <1>5, <1>7
    <2>2. Stopped(OfExit(x), x.cell, m) <=> r(x.cell) # 0
      BY <1>7, <2>1, Zenon DEF Stopped
    <2>. QED
      BY <1>7, <2>1, <2>2, Zenon DEF Decider
  <1> HIDE DEF m, q, sof, tof, t, r, f, hit, terminal
  <1>8. Waits(a.group, m, m)
    <2>. SUFFICES ASSUME NEW cell \in a.group.active PROVE CellWaits(a.group, cell, m, m)
      BY <1>1, <1>3, Zenon DEF Waits, q
    <2>1. cell \in g.active /\ f(cell) = 0 /\ a.group.triggers[cell[2]] = r(cell)
          /\ (r(cell) = 0 => hit(cell) = 0)
      BY <1>1, Zenon DEF StaysOpen, f, r, hit
    <2>2. /\ a.group.triggers[cell[2]] = FirstOf(sof(cell))
          /\ r(cell) = 0 => tof(cell) = {}
          /\ r(cell) # 0 => \A k \in tof(cell) : Time(r(cell)) <= Time(k)
          /\ r(cell) # 0 => Fills(q, r(cell), m) = {}
          /\ cell \in g.censored <=> IF r(cell) = 0 THEN Late(q, m) ELSE Beyond(q, r(cell))
      BY <1>5, <2>1
    <2>3. OfGroup(a.group) = q /\ a.group.censored = g.censored
      BY <1>1 DEF q
    <2>. QED
      BY <2>1, <2>2, <2>3, Zenon DEF CellWaits, sof, tof
  <1>9. ASSUME NEW x \in a.exits, StopsOut(g, x, events) PROVE Closes(x, m)
    <2> DEFINE cell == x.cell
    <2>1. /\ f(cell) # 0
          /\ x = Exit(g, cell, t(cell), "STOP_FIRST", f(cell), StopLimit(g, cell[2], f(cell)))
      BY <1>9, Zenon DEF StopsOut, f, t
    <2>2. /\ OfExit(x) = q /\ x.signal = g.signal /\ x.scenario = g.scenario
          /\ x.outcome = "STOP_FIRST" /\ x.fill = f(cell) /\ x.price = StopLimit(g, cell[2], f(cell))
          /\ x.label = IF cell \in g.censored THEN "CENSORED"
                       ELSE IF t(cell) # 0 THEN "STOP_FIRST" ELSE "STOP_FIRST"
      BY <2>1, ExitTells DEF q
    <2>3. cell \in g.active
      BY <1>1
    <2>4. t(cell) # 0 /\ r(cell) = t(cell)
      BY <1>5, <2>1, <2>3
    <2>5. /\ r(cell) = FirstOf(sof(cell)) /\ f(cell) = FirstOf(Fills(q, r(cell), m))
          /\ Fills(q, r(cell), m) # {} /\ f(cell) \in events
          /\ cell \in g.censored <=> Beyond(q, r(cell))
      BY <1>5, <2>1, <2>3, <2>4
    <2>6. Stopped(q, cell, m) /\ Decider(x, q, m) = r(cell)
      BY <1>7, <2>2, <2>3, <2>4
    <2>7. q.price \in Int /\ q.price = g.price /\ f(cell) \in Path(q, m)
      BY <1>3, <1>4, <2>5 DEF q, OfGroup
    <2>8. x.price = LET side == Side(x.signal)
                        limit == Worse(side, Worse(side, q.price, cell[2]), Scenario[x.scenario].stopAdverse)
                        observed == Executable(x.fill, side)
                    IN  IF side = "LONG" THEN Min({observed, limit}) ELSE Max({observed, limit})
      BY <2>2, <2>7, Zenon DEF StopLimit
    <2>9. x.label = IF Beyond(q, Decider(x, q, m)) THEN "CENSORED"
                   ELSE IF Stopped(q, cell, m) THEN "STOP_FIRST" ELSE x.outcome
      BY <2>2, <2>4, <2>5, <2>6
    <2>. QED
      BY <2>2, <2>5, <2>6, <2>7, <2>8, <2>9, Zenon DEF Closes, sof
  <1>10. ASSUME NEW x \in a.exits, TakesProfit(g, x, events) PROVE Closes(x, m)
    <2> DEFINE cell == x.cell
    <2>1. /\ f(cell) = 0 /\ r(cell) = 0 /\ hit(cell) # 0
          /\ x = Exit(g, cell, 0, "TP_FIRST", hit(cell), Better(Side(g.signal), g.price, cell[1]))
      BY <1>10, Zenon DEF TakesProfit, f, r, hit
    <2>2. /\ OfExit(x) = q /\ x.signal = g.signal /\ x.scenario = g.scenario
          /\ x.outcome = "TP_FIRST" /\ x.fill = hit(cell)
          /\ x.price = Better(Side(g.signal), g.price, cell[1])
          /\ x.label = IF cell \in g.censored THEN "CENSORED"
                       ELSE IF 0 # 0 THEN "STOP_FIRST" ELSE "TP_FIRST"
      BY <2>1, ExitTells DEF q
    <2>3. cell \in g.active
      BY <1>1
    <2>5. /\ hit(cell) = FirstOf(tof(cell)) /\ tof(cell) # {} /\ hit(cell) \in events
          /\ cell \in g.censored <=> Late(q, m)
      BY <1>5, <2>1, <2>3
    <2>6. ~Stopped(q, cell, m) /\ Decider(x, q, m) = x.fill
      BY <1>7, <2>1, <2>2, <2>3
    <2>7. q.price \in Int /\ q.price = g.price /\ hit(cell) \in Path(q, m)
      BY <1>3, <1>4, <2>5 DEF q, OfGroup
    <2>8. Late(q, m) <=> Beyond(q, hit(cell))
      BY <2>5, LateIs DEF q, m
    <2>9. x.label = IF Beyond(q, Decider(x, q, m)) THEN "CENSORED"
                   ELSE IF Stopped(q, cell, m) THEN "STOP_FIRST" ELSE x.outcome
      BY <2>2, <2>5, <2>6, <2>8
    <2>. QED
      BY <2>2, <2>5, <2>6, <2>7, <2>9, Zenon DEF Closes, tof
  <1>11. ASSUME NEW x \in a.exits, Liquidates(g, x, events) PROVE Closes(x, m)
    <2> DEFINE cell == x.cell
    <2>1. /\ f(cell) = 0 /\ terminal # 0 /\ (r(cell) = 0 => hit(cell) = 0)
          /\ x = Exit(g, cell, r(cell), "TERMINAL_EXIT", terminal, Liquidation(g, terminal))
      BY <1>11, Zenon DEF Liquidates, f, r, hit, terminal
    <2>2. /\ OfExit(x) = q /\ x.signal = g.signal /\ x.scenario = g.scenario
          /\ x.outcome = "TERMINAL_EXIT" /\ x.fill = terminal /\ x.price = Liquidation(g, terminal)
          /\ x.label = IF cell \in g.censored THEN "CENSORED"
                       ELSE IF r(cell) # 0 THEN "STOP_FIRST" ELSE "TERMINAL_EXIT"
      BY <2>1, ExitTells DEF q
    <2>3. cell \in g.active
      BY <1>1
    <2>4. terminal \in events /\ stream[terminal].terminal
      BY <1>6, <2>1
    <2>5. /\ r(cell) = FirstOf(sof(cell)) /\ (r(cell) = 0 => tof(cell) = {})
          /\ (r(cell) # 0 => Fills(q, r(cell), m) = {})
          /\ cell \in g.censored <=> IF r(cell) = 0 THEN Late(q, m) ELSE Beyond(q, r(cell))
      BY <1>5, <2>1, <2>3
    <2>6. /\ Stopped(q, cell, m) <=> r(cell) # 0
          /\ r(cell) # 0 => Decider(x, q, m) = r(cell)
          /\ r(cell) = 0 => Decider(x, q, m) = x.fill
      BY <1>7, <2>2, <2>3
    <2>7. q.price \in Int /\ q.price = g.price /\ terminal \in Path(q, m)
      BY <1>3, <1>4, <2>4 DEF q, OfGroup
    <2>8. Late(q, m) <=> Beyond(q, terminal)
      BY <2>4, LateIs DEF q, m
    <2>9. x.label = IF Beyond(q, Decider(x, q, m)) THEN "CENSORED"
                   ELSE IF Stopped(q, cell, m) THEN "STOP_FIRST" ELSE x.outcome
      BY <2>2, <2>5, <2>6, <2>8
    <2>10. x.price = Worse(Side(x.signal), Executable(x.fill, Side(x.signal)),
                           Scenario[x.scenario].terminalAdverse)
      BY <2>2, Zenon DEF Liquidation
    <2>11. IF Stopped(q, cell, m) THEN Fills(q, FirstOf(sof(cell)), m) = {} ELSE tof(cell) = {}
      BY <2>5, <2>6
    <2>. QED
      BY <2>2, <2>4, <2>7, <2>9, <2>10, <2>11, Zenon DEF Closes, sof, tof
  <1>. QED
    BY <1>1, <1>8, <1>9, <1>10, <1>11 DEF m
LEMMA CensorClocks ==
  ASSUME stream \in Seq(Quote), NEW g, NEW n, GroupOf(g, n), NEW events, Meets(g, n, events),
         Waits(g, n, n), NEW h, h = ApplyFirstTouchCensor(g, events)
  PROVE  GroupShape(h, n) /\ OfGroup(h) = OfGroup(g) /\ Waits(h, n, Len(stream))
  <1> DEFINE q == OfGroup(g)
             m == Len(stream)
             ended == FirstOf({i \in events :
                        stream[i].session >= stream[g.entry].session + FirstTouchSessions})
             untouched == {cell \in g.active : g.triggers[cell[2]] = 0}
             t(cell) == g.triggers[cell[2]]
  <1>1. h = IF g.censor # 0 \/ ended = 0 THEN g
            ELSE [g EXCEPT !.censor = ended, !.censored = untouched]
    BY Zenon DEF ApplyFirstTouchCensor
  <1>2. n \in Nat
    BY DEF Meets
  <1>3. /\ GroupShape(h, n) /\ h.signal = g.signal /\ h.scenario = g.scenario
        /\ h.decision = g.decision /\ h.entry = g.entry /\ h.active = g.active
    BY <1>2, CensorKeeps
  <1>4. Path(q, m) = Path(q, n) \cup events /\ events \subseteq Nat \ {0}
    BY PathNext
  <1>5. ended # 0 <=> \E i \in events : Beyond(q, i)
    <2> DEFINE S == {i \in events : stream[i].session >= stream[g.entry].session + FirstTouchSessions}
    <2>1. S \subseteq Nat \ {0} /\ (S # {} <=> \E i \in events : Beyond(q, i))
      BY <1>4 DEF Beyond, OfGroup
    <2> HIDE DEF S
    <2>2. FirstOf(S) = 0 <=> S = {}
      BY <2>1, FirstOfIs
    <2>. QED
      BY <2>1, <2>2 DEF S
  <1>6. Late(q, m) <=> Late(q, n) \/ ended # 0
    BY <1>4, <1>5, Zenon DEF Late
  <1>7. /\ g.price \in Int /\ (g.censor # 0 <=> Late(q, n))
        /\ \A cell \in g.active : CellWaits(g, cell, n, n)
    BY DEF Waits
  <1>8. \A cell \in g.active :
          /\ t(cell) = FirstOf(StopTouches(q, cell[2], n))
          /\ t(cell) = 0 => TargetTouches(q, cell[1], n) = {}
          /\ t(cell) # 0 => /\ \A k \in TargetTouches(q, cell[1], n) : Time(t(cell)) <= Time(k)
                            /\ Fills(q, t(cell), n) = {}
          /\ cell \in g.censored <=> IF t(cell) = 0 THEN Late(q, n) ELSE Beyond(q, t(cell))
    BY <1>7, Zenon DEF CellWaits
  <1>9. \A cell \in g.active : t(cell) # 0 => t(cell) \in Path(q, n)
    <2>. SUFFICES ASSUME NEW cell \in g.active PROVE t(cell) # 0 => t(cell) \in Path(q, n)
      OBVIOUS
    <2>1. StopTouches(q, cell[2], n) \subseteq Path(q, n) /\ Path(q, n) \subseteq 1..n
      BY PathNext
    <2>2. StopTouches(q, cell[2], n) \subseteq Nat \ {0}
      BY <2>1
    <2>3. FirstOf(StopTouches(q, cell[2], n)) # 0 =>
            FirstOf(StopTouches(q, cell[2], n)) \in StopTouches(q, cell[2], n)
      BY <2>2, FirstOfIs
    <2>. QED
      BY <1>8, <2>1, <2>3
  <1> HIDE DEF ended, untouched, q, m
  <1>10. /\ OfGroup(h) = q /\ h.price = g.price /\ h.triggers = g.triggers
         /\ h.censor # 0 <=> Late(q, m)
         /\ \A cell \in g.active :
              cell \in h.censored <=> IF t(cell) = 0 THEN Late(q, m) ELSE Beyond(q, t(cell))
    <2>1. CASE g.censor # 0 \/ ended = 0
      <3>1. h = g
        BY <1>1, <2>1
      <3>2. Late(q, m) <=> Late(q, n)
        BY <1>6, <1>7, <2>1
      <3>. QED
        BY <1>7, <1>8, <3>1, <3>2 DEF q
    <2>2. CASE ~(g.censor # 0 \/ ended = 0)
      <3>1. h = [g EXCEPT !.censor = ended, !.censored = untouched]
        BY <1>1, <2>2
      <3>2. g = [signal |-> g.signal, scenario |-> g.scenario, active |-> g.active,
                 decision |-> g.decision, entry |-> g.entry, price |-> g.price,
                 triggers |-> g.triggers, censored |-> g.censored, censor |-> g.censor]
        BY DEF GroupOf
      <3>3. /\ h.signal = g.signal /\ h.scenario = g.scenario /\ h.entry = g.entry
            /\ h.price = g.price /\ h.triggers = g.triggers
            /\ h.censor = ended /\ h.censored = untouched
        BY <3>1, <3>2
      <3>4. Late(q, m) /\ ~Late(q, n)
        BY <1>6, <1>7, <2>2
      <3>5. \A cell \in g.active : t(cell) # 0 => ~Beyond(q, t(cell))
        BY <1>9, <3>4, Zenon DEF Late
      <3>6. \A cell \in g.active : cell \in untouched <=> t(cell) = 0
        BY Zenon DEF untouched
      <3>7. OfGroup(h) = q
        BY <3>3, Zenon DEF q, OfGroup
      <3>. QED
        BY <2>2, <3>3, <3>4, <3>5, <3>6, <3>7
    <2>. QED
      BY <2>1, <2>2
  <1>11. \A cell \in h.active : CellWaits(h, cell, n, m)
    <2>. SUFFICES ASSUME NEW cell \in g.active PROVE CellWaits(h, cell, n, m)
      BY <1>3
    <2>1. h.triggers[cell[2]] = t(cell)
      BY <1>10
    <2>. QED
      BY <1>8, <1>10, <2>1, Zenon DEF CellWaits
  <1>12. h.price \in Int /\ (h.censor # 0 <=> Late(q, m))
    BY <1>7, <1>10
  <1>. QED
    BY <1>3, <1>10, <1>11, <1>12, Zenon DEF Waits, q, m

LEMMA AdvancedPrices ==
  ASSUME Buffered, Dated, NEW g, GroupOf(g, flushed), Waits(g, flushed, flushed),
         NEW a, a = Advanced(g)
  PROVE  /\ Waits(a.group, Len(stream), Len(stream))
         /\ \A x \in a.exits : Closes(x, Len(stream))
  <1> DEFINE events == Events(seeds[g.signal].contract)
             h == ApplyFirstTouchCensor(g, events)
  <1>1. stream \in Seq(Quote) /\ flushed \in 0..Len(stream) /\ Len(stream) \in Nat
    BY DEF Buffered
  <1>2. Meets(g, flushed, events)
    <2>1. g.entry \in 1..flushed /\ flushed \in 1..Len(stream)
      BY <1>1 DEF GroupOf
    <2>2. events = {k \in flushed + 1..Len(stream) : stream[k].contract = seeds[g.signal].contract}
      BY DEF Events
    <2>3. \A i, k \in events : Time(i) = Time(k)
      BY <2>2, Zenon DEF Buffered
    <2>4. Path(OfGroup(g), flushed) \subseteq 1..flushed
      BY <2>1 DEF Path, OfGroup
    <2>5. \A i \in Path(OfGroup(g), flushed), k \in events : Time(i) < Time(k)
      BY <2>2, <2>4, Zenon DEF Buffered
    <2>. QED
      BY <2>1, <2>2, <2>3, <2>5, Zenon DEF Meets
  <1>3. a = AdvancePositionGroup(h, events)
    BY DEF Advanced
  <1> HIDE DEF events
  <1>4. GroupShape(h, flushed) /\ OfGroup(h) = OfGroup(g) /\ Waits(h, flushed, Len(stream))
    BY <1>1, <1>2, CensorClocks
  <1> HIDE DEF h
  <1>5. h.signal = g.signal /\ h.entry = g.entry
    <2>1. OfGroup(h).signal = OfGroup(g).signal /\ OfGroup(h).entry = OfGroup(g).entry
      BY <1>4
    <2>. QED
      BY <2>1 DEF OfGroup
  <1>6. Meets(h, flushed, events)
    BY <1>2, <1>4, <1>5 DEF Meets
  <1>. QED
    BY <1>1, <1>3, <1>4, <1>6, AdvancePrices

LEMMA EntryPriceIs ==
  ASSUME seeds \in SeedLists, stream \in Seq(Quote), NEW p, p.signal \in Signals,
         p.scenario \in Scenarios, NEW i \in 1..Len(stream)
  PROVE  EntryPrice(p, i) \in Int
  <1>1. stream[i].bid \in Int /\ stream[i].ask \in Int
    <2>1. stream[i] \in Quote
      OBVIOUS
    <2>. QED
      BY <2>1 DEF Quote
  <1>2. Scenario[p.scenario].entryAdverse \in Nat
    BY ScenariosHaveRules DEF Scenarios
  <1>. QED
    BY <1>1, <1>2 DEF EntryPrice, Better, Worse, Opposite

LEMMA EnteredPrices ==
  ASSUME seeds \in SeedLists, Buffered, Dated, NEW p, PendingOf(p, Len(stream)),
         NEW at \in Events(seeds[p.signal].contract), NEW a, a = Entered(p, at), p.decision <= at
  PROVE  /\ Waits(a.group, Len(stream), Len(stream))
         /\ \A x \in a.exits : Closes(x, Len(stream))
  <1> DEFINE events == {k \in Events(stream[at].contract) : k > at}
             g == FillPendingEntry(p, at)
             q == OfGroup(g)
             m == Len(stream)
  <1>1. /\ stream \in Seq(Quote) /\ flushed \in 0..m /\ m \in Nat /\ flushed \in Nat
        /\ at \in flushed + 1..m /\ stream[at].contract = seeds[p.signal].contract
        /\ at \in 1..m /\ at \in Nat
    BY DEF Buffered, Events
  <1>2. g = [signal |-> p.signal, scenario |-> p.scenario, active |-> p.cells,
             decision |-> p.decision, entry |-> at, price |-> EntryPrice(p, at),
             triggers |-> [sl \in Grid |-> 0], censored |-> {}, censor |-> 0]
    BY DEF FillPendingEntry
  <1>3. a = AdvancePositionGroup(g, events)
    BY DEF Entered
  <1>4. /\ g.signal = p.signal /\ g.scenario = p.scenario /\ g.active = p.cells
        /\ g.entry = at /\ g.price = EntryPrice(p, at) /\ g.triggers = [sl \in Grid |-> 0]
        /\ g.censored = {} /\ g.censor = 0 /\ g.decision = p.decision
        /\ q.entry = at /\ q.signal = p.signal
    BY <1>2 DEF OfGroup
  <1>5. events = {k \in at + 1..m : stream[k].contract = seeds[g.signal].contract}
    <2>1. \A k : k \in at + 1..m <=> k \in flushed + 1..m /\ k > at
      BY <1>1
    <2>. QED
      BY <1>1, <1>4, <2>1, Zenon DEF Events
  <1>6. Path(q, at) = {}
    BY <1>1, <1>4 DEF Path
  <1>7. Path(q, m) \subseteq events
    BY <1>4, <1>5 DEF Path
  <1>8. GroupShape(g, at)
    <2>1. p.decision \in 1..at /\ at \in 1..at
      BY <1>1 DEF PendingOf
    <2>2. [sl \in Grid |-> 0] \in [Grid -> 0..at]
      BY <1>1
    <2>. QED
      BY <1>2, <1>4, <2>1, <2>2 DEF GroupShape, PendingOf
  <1>9. \A k \in events : Time(k) = Time(at) /\ stream[k].session = stream[at].session
    <2>. SUFFICES ASSUME NEW k \in events
                  PROVE  Time(k) = Time(at) /\ stream[k].session = stream[at].session
      OBVIOUS
    <2>1. k \in flushed + 1..m /\ at < k /\ k \in DOMAIN stream /\ at \in DOMAIN stream
      BY <1>1, <1>5
    <2>2. Time(k) = Time(at)
      BY <1>1, <2>1, Zenon DEF Buffered
    <2>3. stream[k].session = stream[at].session
      BY <2>1, <2>2 DEF Dated
    <2>. QED
      BY <2>2, <2>3
  <1>10. g.price \in Int
    BY <1>1, <1>4, EntryPriceIs DEF PendingOf
  <1> HIDE DEF events, g, q
  <1>11. Meets(g, at, events)
    <2>1. \A i, k \in events : Time(i) = Time(k)
      BY <1>9
    <2>2. at \in 1..m /\ g.entry \in 1..at
      BY <1>1, <1>4
    <2>. QED
      BY <1>5, <1>6, <2>1, <2>2 DEF Meets, q
  <1>12. ~Late(q, m)
    <2>1. \A k \in events : ~Beyond(q, k)
      <3>1. stream[at].session \in Nat
        <4>1. stream[at] \in Quote
          BY <1>1
        <4>. QED
          BY <4>1 DEF Quote
      <3>. QED
        BY <1>4, <1>9, <3>1, ClockOutlastsTheEntry DEF Beyond
    <2>. QED
      BY <1>7, <2>1, Zenon DEF Late
  <1>13. Waits(g, at, m)
    <2>1. ASSUME NEW cell \in g.active PROVE CellWaits(g, cell, at, m)
      <3>1. g.triggers[cell[2]] = 0
        BY <1>4 DEF PendingOf, Cells
      <3>2. StopTouches(q, cell[2], at) = {} /\ TargetTouches(q, cell[1], at) = {}
        BY <1>6, Zenon DEF StopTouches, TargetTouches, Quotes
      <3>3. FirstOf({}) = 0
        BY DEF FirstOf
      <3>. QED
        BY <1>4, <1>12, <3>1, <3>2, <3>3 DEF CellWaits, q
    <2>. QED
      BY <1>4, <1>10, <1>12, <2>1 DEF Waits, q
  <1>. QED
    BY <1>1, <1>3, <1>8, <1>11, <1>13, AdvancePrices

\* A position whose contract has no event in the buffer waits on.
LEMMA SamePath ==
  ASSUME NEW g, NEW n, NEW m, Path(OfGroup(g), n) = Path(OfGroup(g), m), Waits(g, n, n)
  PROVE  Waits(g, m, m)
  <1> DEFINE q == OfGroup(g)
  <1>1. Quotes(q, n) = Quotes(q, m) /\ (Late(q, n) <=> Late(q, m))
    BY Zenon DEF Quotes, Late
  <1>2. \A sl : StopTouches(q, sl, n) = StopTouches(q, sl, m)
    BY <1>1, Zenon DEF StopTouches
  <1>3. \A sl : TargetTouches(q, sl, n) = TargetTouches(q, sl, m)
    BY <1>1, Zenon DEF TargetTouches
  <1>4. \A t : Fills(q, t, n) = Fills(q, t, m)
    BY Zenon DEF Fills
  <1> HIDE DEF q
  <1>5. \A cell \in g.active : CellWaits(g, cell, m, m)
    <2>. SUFFICES ASSUME NEW cell \in g.active PROVE CellWaits(g, cell, m, m)
      OBVIOUS
    <2>1. CellWaits(g, cell, n, n)
      BY DEF Waits
    <2>. QED
      BY <1>1, <1>2, <1>3, <1>4, <2>1 DEF CellWaits, q
  <1>. QED
    BY <1>1, <1>5 DEF Waits, q

-----------------------------------------------------------------------------
(* The steps that enter and close no position. *)

\* q has the open positions of r, and no new outcome.
Adds(r, q) ==
  /\ IsReplay(q) /\ q.groups = r.groups
  /\ \A x \in q.records : x \in r.records \/ x.status # "ENTRY_FILLED"

LEMMA AddsPrices ==
  ASSUME NEW r, NEW q, Adds(r, q), NEW n, Priced(r, n)
  PROVE  Priced(q, n)
BY DEF Adds, Priced

LEMMA AddsAdds ==
  ASSUME NEW r, NEW p, NEW q, Adds(r, p), Adds(p, q)
  PROVE  Adds(r, q)
BY DEF Adds

LEMMA ActivateAdds ==
  ASSUME NEW r, IsReplay(r), NEW s, NEW q, q = ActivateSignal(r, s)
  PROVE  Adds(r, q) /\ q.cursor = s
  <1> DEFINE quote == r.latest[seeds[s].contract]
             failure == GateFailure(r, s)
             pairs == {w \in Scenarios \X Cells : w[2] \in FreeCells(r, s, w[1])}
             skips == {Skipped(s, w[1], w[2], quote, r.occupied[Slot(s, w[1], w[2])]) :
                         w \in (Scenarios \X Cells) \ pairs}
             refusals == {NotFilled(s, w[1], w[2], quote, failure, quote) : w \in pairs}
             entries == {[signal |-> s, scenario |-> sc, cells |-> FreeCells(r, s, sc),
                          decision |-> quote, gate |-> quote] :
                           sc \in {sc \in Scenarios : FreeCells(r, s, sc) # {}}}
             taken == Occupy(r.occupied, UNION {SlotsOf(s, p.scenario, p.cells) : p \in entries}, s)
             passed == failure = ""
  <1>1. q = IF ~passed
            THEN [r EXCEPT !.records = @ \cup skips \cup refusals, !.cursor = s]
            ELSE [r EXCEPT !.records = @ \cup skips, !.cursor = s,
                           !.pending = @ \cup entries, !.occupied = taken]
    BY Zenon DEF ActivateSignal
  <1>2. \A x \in skips : x.status = "SKIPPED_OCCUPIED"
    BY SkippedIs
  <1>3. \A x \in refusals : x.status = "ENTRY_NOT_FILLED"
    BY NotFilledIs
  <1> HIDE DEF quote, failure, pairs, skips, refusals, entries, taken, passed
  <1>4. CASE ~passed
    <2>1. q = [r EXCEPT !.records = @ \cup skips \cup refusals, !.cursor = s]
      BY <1>1, <1>4
    <2>2. IsReplay(q) /\ q.groups = r.groups /\ q.records = r.records \cup skips \cup refusals /\ q.cursor = s
      BY <2>1 DEF IsReplay
    <2>. QED
      BY <1>2, <1>3, <2>2 DEF Adds
  <1>5. CASE passed
    <2>1. q = [r EXCEPT !.records = @ \cup skips, !.cursor = s,
                        !.pending = @ \cup entries, !.occupied = taken]
      BY <1>1, <1>5
    <2>2. IsReplay(q) /\ q.groups = r.groups /\ q.records = r.records \cup skips /\ q.cursor = s
      BY <2>1 DEF IsReplay
    <2>. QED
      BY <1>2, <2>2 DEF Adds
  <1>. QED
    BY <1>4, <1>5

\* A run of steps that add nothing to r adds nothing to r.
LEMMA RunAdds ==
  ASSUME NEW r, NEW f, NEW lo \in Nat, NEW hi \in Nat, lo <= hi, Adds(r, f[lo]),
         \A s \in lo + 1..hi : Adds(r, f[s - 1]) => Adds(r, f[s])
  PROVE  Adds(r, f[hi])
  <1> DEFINE P(s) == Adds(r, f[s])
             Bad == {s \in lo..hi : ~P(s)}
  <1>. SUFFICES ASSUME Bad # {} PROVE FALSE
    OBVIOUS
  <1>1. PICK k \in Bad : \A j \in Bad : k <= j
    <2>1. Bad \subseteq Nat
      OBVIOUS
    <2> HIDE DEF Bad
    <2>. QED
      BY <2>1, Least
  <1>2. k \in lo..hi /\ ~P(k)
    OBVIOUS
  <1>3. k # lo
    BY <1>2
  <1>4. k \in lo + 1..hi /\ k - 1 \in lo..hi /\ ~(k <= k - 1)
    <2> HIDE DEF P, Bad
    <2>. QED
      BY <1>2, <1>3
  <1>5. P(k - 1)
    <2> HIDE DEF P
    <2>1. k - 1 \notin Bad
      BY <1>1, <1>4, Zenon
    <2>. QED
      BY <1>4, <2>1
  <1>. QED
    BY <1>2, <1>4, <1>5

LEMMA ActivateWhileAdds ==
  ASSUME seeds \in SeedLists, NEW r, IsReplay(r), r.cursor \in 0..Len(seeds), NEW due,
         NEW q, q = ActivateWhile(r, due)
  PROVE  Adds(r, q)
  <1>1. Len(seeds) \in Nat
    BY SeedTypes
  <1>2. PICK f, last :
          /\ last \in r.cursor..Len(seeds)
          /\ \A s \in r.cursor..last : f[s] = IF s = r.cursor THEN r ELSE ActivateSignal(f[s - 1], s)
          /\ q = f[last]
    BY <1>1, ActivateWhileIs
  <1>3. PICK lo : lo = r.cursor
    OBVIOUS
  <1>4. lo \in Nat /\ last \in Nat /\ lo <= last
    BY <1>1, <1>2, <1>3
  <1>5. Adds(r, f[lo])
    BY <1>2, <1>3, <1>4 DEF Adds
  <1>6. ASSUME NEW s \in lo + 1..last, Adds(r, f[s - 1]) PROVE Adds(r, f[s])
    <2>1. s \in lo..last /\ s # lo
      BY <1>4
    <2>2. PICK before, after : before = f[s - 1] /\ after = f[s]
      OBVIOUS
    <2>3. after = ActivateSignal(before, s)
      BY <1>2, <1>3, <2>1, <2>2
    <2>4. Adds(r, before) /\ IsReplay(before)
      BY <1>6, <2>2 DEF Adds
    <2>5. Adds(before, after)
      BY <2>3, <2>4, ActivateAdds
    <2>. QED
      BY <2>2, <2>4, <2>5, AddsAdds
  <1>. QED
    BY <1>2, <1>4, <1>5, <1>6, RunAdds

LEMMA RefuseAdds ==
  ASSUME NEW r, IsReplay(r), NEW q, q = RefusePending(r)
  PROVE  Adds(r, q) /\ q.cursor = r.cursor
  <1> DEFINE refused == UNION {Refusals(p, FinalReason(p), FinalFailure(p)) : p \in r.pending}
             stored == StoreResults(r, refused)
  <1>1. q = [stored EXCEPT !.pending = {}]
    BY Zenon DEF RefusePending
  <1>2. \A x \in refused : x.status = "ENTRY_NOT_FILLED"
    BY RefusalsAre
  <1> HIDE DEF refused
  <1>3. Stored(r, stored, refused) /\ stored.groups = r.groups
    BY StoreIs
  <1> HIDE DEF stored
  <1>4. IsReplay(q) /\ q.groups = r.groups /\ q.records = r.records \cup refused /\ q.cursor = r.cursor
    BY <1>1, <1>3 DEF IsReplay, Stored
  <1>. QED
    BY <1>2, <1>4 DEF Adds

LEMMA FinishAdds ==
  ASSUME seeds \in SeedLists, NEW r, IsReplay(r), r.cursor \in 0..Len(seeds),
         NEW q, q = FinishReplay(r)
  PROVE  Adds(r, q)
  <1>1. Len(seeds) \in Nat
    BY SeedTypes
  <1>2. PICK f : /\ f[r.cursor] = RefusePending(r)
                 /\ \A s \in r.cursor + 1..Len(seeds) :
                      f[s] = RefusePending(ActivateSignal(f[s - 1], s))
                 /\ q = f[Len(seeds)]
    BY <1>1, FinishReplayIs
  <1>3. PICK lo, hi : lo = r.cursor /\ hi = Len(seeds)
    OBVIOUS
  <1>4. lo \in Nat /\ hi \in Nat /\ lo <= hi
    BY <1>1, <1>3
  <1>5. Adds(r, f[lo])
    BY <1>2, <1>3, RefuseAdds
  <1>6. ASSUME NEW s \in lo + 1..hi, Adds(r, f[s - 1]) PROVE Adds(r, f[s])
    <2>1. PICK before, after, active :
            before = f[s - 1] /\ after = f[s] /\ active = ActivateSignal(before, s)
      OBVIOUS
    <2>2. after = RefusePending(active)
      BY <1>2, <1>3, <2>1
    <2>3. Adds(r, before) /\ IsReplay(before)
      BY <1>6, <2>1 DEF Adds
    <2>4. Adds(before, active) /\ IsReplay(active)
      BY <2>1, <2>3, ActivateAdds DEF Adds
    <2>5. Adds(active, after)
      BY <2>2, <2>4, RefuseAdds
    <2>. QED
      BY <2>1, <2>3, <2>4, <2>5, AddsAdds
  <1>. QED
    <2>1. \A s \in lo + 1..hi : Adds(r, f[s - 1]) => Adds(r, f[s])
      BY <1>6
    <2>2. Adds(r, f[hi])
      BY <1>4, <1>5, <2>1, RunAdds
    <2>. QED
      BY <1>2, <1>3, <2>2

LEMMA ObserveAdds ==
  ASSUME NEW r, IsReplay(r), NEW q, q = ObserveGroup(r)
  PROVE  Adds(r, q) /\ q.cursor = r.cursor
  <1>1. IsReplay(q) /\ q.groups = r.groups /\ q.records = r.records /\ q.cursor = r.cursor
    BY DEF IsReplay, ObserveGroup
  <1>. QED
    BY <1>1 DEF Adds

-----------------------------------------------------------------------------
(* The flush of the buffer. *)

LEMMA AdvanceGroupsPrices ==
  ASSUME Buffered, Dated, NEW r, IsReplay(r), \A g \in r.groups : GroupOf(g, flushed),
         Priced(r, flushed), NEW q, q = AdvanceGroups(r)
  PROVE  Priced(q, Len(stream)) /\ q.pending = r.pending /\ IsReplay(q) /\ q.cursor = r.cursor
  <1> DEFINE n == Len(stream)
             ev(d) == Events(seeds[d.signal].contract)
             moved == {g \in r.groups : ev(g) # {}}
             kept == {g \in r.groups : ev(g) = {}}
             advanced == {Advanced(g) : g \in moved}
             results == UNION {a.exits : a \in advanced}
             next == DropEmptyPositionGroups({a.group : a \in advanced})
             stored == StoreResults(r, results)
  <1>1. q = [stored EXCEPT !.groups = kept \cup next]
    <2>1. q = [stored EXCEPT !.groups = {g \in @ : ev(g) = {}} \cup next]
      BY Zenon DEF AdvanceGroups, Advanced
    <2> HIDE DEF next, results
    <2>2. stored.groups = r.groups
      BY StoreIs
    <2>. QED
      BY <2>1, <2>2
  <1>2. \A a \in next : \E g \in moved : a = Advanced(g).group
    BY Zenon DEF DropEmptyPositionGroups
  <1>3. \A x \in results : \E g \in moved : x \in Advanced(g).exits
    BY Zenon
  <1> HIDE DEF results, next, advanced
  <1>4. Stored(r, stored, results) /\ stored.pending = r.pending
    BY StoreIs
  <1> HIDE DEF stored
  <1>5. /\ q.groups = kept \cup next /\ q.records = r.records \cup results
        /\ q.pending = r.pending /\ IsReplay(q) /\ q.cursor = r.cursor
    BY <1>1, <1>4 DEF IsReplay, Stored
  <1>6. \A g \in r.groups : GroupOf(g, flushed) /\ Waits(g, flushed, flushed)
    BY DEF Priced
  <1>7. \A g \in moved : Waits(Advanced(g).group, n, n) /\ \A x \in Advanced(g).exits : Closes(x, n)
    BY <1>6, AdvancedPrices
  <1>8. ASSUME NEW g \in kept PROVE Waits(g, n, n)
    <2>1. flushed \in 0..n /\ n \in Nat /\ flushed \in Nat
      BY StreamTypes DEF Buffered
    <2>2. \A k \in flushed + 1..n : stream[k].contract # seeds[g.signal].contract
      BY DEF Events
    <2>3. g.entry + 1..n = (g.entry + 1..flushed) \cup (flushed + 1..n)
      BY <1>6, <2>1 DEF GroupOf
    <2> HIDE DEF n
    <2>4. Path(OfGroup(g), flushed) = Path(OfGroup(g), n)
      BY <2>2, <2>3 DEF Path, OfGroup
    <2>. QED
      BY <1>6, <2>4, SamePath
  <1>9. \A x \in r.records : x.status = "ENTRY_FILLED" => Closes(x, n)
    BY DEF Priced
  <1> HIDE DEF kept, moved, n
  <1>10. \A g \in q.groups : Waits(g, n, n)
    BY <1>2, <1>5, <1>7, <1>8
  <1>11. \A x \in q.records : x.status = "ENTRY_FILLED" => Closes(x, n)
    BY <1>3, <1>5, <1>7, <1>9
  <1>. QED
    BY <1>5, <1>10, <1>11 DEF Priced, n

LEMMA AdvancePendingPrices ==
  ASSUME seeds \in SeedLists, Buffered, Dated, NEW r, IsReplay(r),
         \A p \in r.pending : PendingOf(p, flushed), Priced(r, Len(stream)),
         NEW q, q = AdvancePendingEntries(r)
  PROVE  Priced(q, Len(stream)) /\ IsReplay(q) /\ q.cursor = r.cursor
  <1> DEFINE n == Len(stream)
             ev(p) == Events(seeds[p.signal].contract)
             rt(p) == Route(p, ev(p))
             ent(p) == Entered(p, rt(p).at)
             filled == {p \in r.pending : rt(p).verdict = "FILLED"}
             refused == {p \in r.pending : rt(p).verdict \notin {"ROUTED", "FILLED"}}
             refusals(p) == Refusals(p, rt(p).verdict, rt(p).at)
             entered == {ent(p) : p \in filled}
             results == (UNION {refusals(p) : p \in refused}) \cup (UNION {e.exits : e \in entered})
             next == DropEmptyPositionGroups({e.group : e \in entered})
             kept(p) == [p EXCEPT !.gate = rt(p).gate]
             stored == StoreResults(r, results)
             waiting == {kept(p) : p \in {p \in stored.pending : rt(p).verdict = "ROUTED"}}
  <1>1. q = [stored EXCEPT !.groups = @ \cup next, !.pending = waiting]
    BY Zenon DEF AdvancePendingEntries, Entered
  <1>2. \A g \in next : \E p \in filled : g = ent(p).group
    BY Zenon DEF DropEmptyPositionGroups
  <1>3. \A x \in results : (\E p \in refused : x \in refusals(p)) \/ \E p \in filled : x \in ent(p).exits
    BY Zenon
  <1>4. \A p : \A x \in refusals(p) : x.status = "ENTRY_NOT_FILLED"
    <2> HIDE DEF rt
    <2>. QED
      BY RefusalsAre
  <1>5. \A p \in filled : Waits(ent(p).group, n, n) /\ \A x \in ent(p).exits : Closes(x, n)
    <2>. SUFFICES ASSUME NEW p \in filled
                  PROVE  Waits(ent(p).group, n, n) /\ \A x \in ent(p).exits : Closes(x, n)
      OBVIOUS
    <2>1. /\ flushed \in 0..n /\ n \in Nat /\ flushed \in Nat
          /\ ev(p) \subseteq 1..n /\ ev(p) \subseteq flushed + 1..n
      BY StreamTypes, EventsAre DEF Buffered
    <2>2. PendingOf(p, flushed) /\ rt(p).verdict = "FILLED"
      BY DEF filled
    <2> HIDE DEF ev, filled
    <2>3. PendingOf(p, n) /\ p.decision \in 1..flushed
      BY <2>1, <2>2 DEF PendingOf
    <2>4. PICK at : at = rt(p).at
      OBVIOUS
    <2>5. at \in ev(p)
      BY <2>1, <2>2, <2>3, <2>4, RouteIs
    <2>6. p.decision <= at
      BY <2>1, <2>3, <2>5
    <2>7. PICK a : a = Entered(p, at)
      OBVIOUS
    <2>8. Waits(a.group, n, n) /\ \A x \in a.exits : Closes(x, n)
      BY <2>3, <2>5, <2>6, <2>7, EnteredPrices DEF ev
    <2>. QED
      BY <2>4, <2>7, <2>8
  <1> HIDE DEF results, next, entered, refusals, ent, filled, refused
  <1>6. Stored(r, stored, results) /\ stored.groups = r.groups
    BY StoreIs
  <1> HIDE DEF stored, waiting
  <1>7. /\ q.groups = r.groups \cup next /\ q.records = r.records \cup results
        /\ IsReplay(q) /\ q.cursor = r.cursor
    BY <1>1, <1>6 DEF IsReplay, Stored
  <1>8. /\ \A g \in r.groups : Waits(g, n, n)
        /\ \A x \in r.records : x.status = "ENTRY_FILLED" => Closes(x, n)
    BY DEF Priced
  <1> HIDE DEF n
  <1>9. \A g \in q.groups : Waits(g, n, n)
    BY <1>2, <1>5, <1>7, <1>8
  <1>10. \A x \in q.records : x.status = "ENTRY_FILLED" => Closes(x, n)
    BY <1>3, <1>4, <1>5, <1>7, <1>8
  <1>. QED
    BY <1>7, <1>9, <1>10 DEF Priced, n

LEMMA FlushPrices ==
  ASSUME seeds \in SeedLists, Buffered, Dated, NEW r, Core(r, flushed), Observed(r, flushed),
         PacedAt(r, flushed), Traced(r, flushed, FALSE), Priced(r, flushed),
         NEW q, q = FlushBuffer(r)
  PROVE  Priced(q, Len(stream))
  <1> DEFINE n == Len(stream)
             ts == Time(n)
             before == {s \in Signals : seeds[s].ts < ts}
  <1>1. IsReplay(r) /\ r.cursor \in 0..Len(seeds) /\ Len(seeds) \in Nat
    BY SeedTypes DEF Core, Shaped
  <1>4. flushed < n \/ n = flushed
    <2>1. n \in Nat /\ flushed \in 0..n
      BY StreamTypes DEF Buffered
    <2> HIDE DEF n
    <2>. QED
      BY <2>1
  <1>2. CASE n = flushed
    BY <1>2 DEF FlushBuffer
  <1>3. CASE n # flushed /\ flushed < n
    <2>1. PICK r1, r2, r3, r4 :
            /\ r1 = ActivateWhile(r, before) /\ r2 = AdvanceGroups(r1)
            /\ r3 = AdvancePendingEntries(r2) /\ r4 = ObserveGroup(r3)
            /\ q = ActivateSignalsAt(r4, ts)
      BY <1>3, Zenon DEF FlushBuffer, ActivateSignalsBefore
    <2> HIDE DEF n, ts, before
    <2>2. Core(r1, flushed) /\ IsReplay(r1) /\ r1.cursor \in 0..Len(seeds)
          /\ (\A g \in r1.groups : GroupOf(g, flushed))
          /\ (\A p \in r1.pending : PendingOf(p, flushed))
      <3>1. Core(r1, flushed)
        <4>2. before \subseteq Signals /\ \A s \in Signals : s \in before <=> seeds[s].ts < ts
          BY DEF before
        <4>. QED
          BY <1>3, <2>1, <4>2, FlushStarts DEF n, ts
      <3>. QED
        BY <3>1 DEF Core, Shaped
    <2>3. Priced(r1, flushed)
      <3>1. Adds(r, r1)
        BY <1>1, <2>1, ActivateWhileAdds
      <3>. QED
        BY <3>1, AddsPrices
    <2>4. Priced(r2, n) /\ r2.pending = r1.pending /\ IsReplay(r2)
          /\ r2.cursor = r1.cursor
      BY <2>1, <2>2, <2>3, AdvanceGroupsPrices DEF n
    <2>5. Priced(r3, n) /\ IsReplay(r3) /\ r3.cursor = r2.cursor
      BY <2>1, <2>2, <2>4, AdvancePendingPrices DEF n
    <2>6. Adds(r3, r4) /\ r4.cursor = r3.cursor
      BY <2>1, <2>5, ObserveAdds
    <2>7. Adds(r4, q)
      <3>1. IsReplay(r4) /\ r4.cursor \in 0..Len(seeds)
        BY <2>2, <2>4, <2>5, <2>6 DEF Adds
      <3>. QED
        BY <2>1, <3>1, ActivateWhileAdds DEF ActivateSignalsAt
    <2>. QED
      BY <2>5, <2>6, <2>7, AddsPrices DEF n
  <1>. QED
    BY <1>2, <1>3, <1>4

-----------------------------------------------------------------------------
(* The path of a position is a matter of the events it has met. *)

LEMMA PathStays ==
  ASSUME seeds' = seeds, NEW n \in Nat, \A k \in 1..n : stream'[k] = stream[k],
         NEW q, q.entry \in 1..n
  PROVE  /\ Path(q, n)' = Path(q, n) /\ Path(q, n) \subseteq 1..n
         /\ \A sl : StopTouches(q, sl, n)' = StopTouches(q, sl, n)
                    /\ StopTouches(q, sl, n) \subseteq 1..n
         /\ \A tp : TargetTouches(q, tp, n)' = TargetTouches(q, tp, n)
                    /\ TargetTouches(q, tp, n) \subseteq 1..n
         /\ \A t \in 1..n : Fills(q, t, n)' = Fills(q, t, n) /\ Fills(q, t, n) \subseteq 1..n
         /\ \A k \in 1..n : Beyond(q, k)' <=> Beyond(q, k)
         /\ Late(q, n)' <=> Late(q, n)
  <1>1. \A k \in q.entry + 1..n : k \in 1..n
    OBVIOUS
  <1>2. Path(q, n)' = Path(q, n) /\ Path(q, n) \subseteq 1..n
    BY <1>1 DEF Path
  <1>3. \A k \in 1..n : /\ Valid(k)' = Valid(k) /\ Time(k)' = Time(k)
                        /\ stream'[k].terminal = stream[k].terminal
                        /\ Against(q, k)' = Against(q, k)
    BY DEF Valid, Time, Against, Loss, Executable, Side
  <1>4. Quotes(q, n)' = Quotes(q, n) /\ Quotes(q, n) \subseteq 1..n
    BY <1>2, <1>3 DEF Quotes
  <1>5. \A k \in 1..n : Beyond(q, k)' <=> Beyond(q, k)
    BY DEF Beyond
  <1>6. \A sl : StopTouches(q, sl, n)' = StopTouches(q, sl, n)
                /\ StopTouches(q, sl, n) \subseteq 1..n
    BY <1>3, <1>4 DEF StopTouches
  <1>7. \A tp : TargetTouches(q, tp, n)' = TargetTouches(q, tp, n)
                /\ TargetTouches(q, tp, n) \subseteq 1..n
    BY <1>3, <1>4 DEF TargetTouches
  <1>8. \A t \in 1..n : Fills(q, t, n)' = Fills(q, t, n) /\ Fills(q, t, n) \subseteq 1..n
    BY <1>2, <1>3 DEF Fills
  <1>9. Late(q, n)' <=> Late(q, n)
    BY <1>2, <1>5 DEF Late
  <1>. QED
    BY <1>2, <1>5, <1>6, <1>7, <1>8, <1>9

LEMMA WaitsStay ==
  ASSUME seeds' = seeds, NEW n \in Nat, \A k \in 1..n : stream'[k] = stream[k],
         NEW g, g.entry \in 1..n, Waits(g, n, n)
  PROVE  Waits(g, n, n)'
  <1>1. PICK q : q = OfGroup(g)
    OBVIOUS
  <1>2. q.entry \in 1..n
    BY <1>1 DEF OfGroup
  <1>3. /\ \A sl : StopTouches(q, sl, n)' = StopTouches(q, sl, n)
                    /\ StopTouches(q, sl, n) \subseteq 1..n
        /\ \A tp : TargetTouches(q, tp, n)' = TargetTouches(q, tp, n)
                    /\ TargetTouches(q, tp, n) \subseteq 1..n
        /\ \A t \in 1..n : Fills(q, t, n)' = Fills(q, t, n)
        /\ \A k \in 1..n : Beyond(q, k)' <=> Beyond(q, k)
        /\ Late(q, n)' <=> Late(q, n)
    BY <1>2, PathStays
  <1>4. \A k \in 1..n : Time(k)' = Time(k)
    BY DEF Time
  <1>5. \A S : FirstOf(S)' = FirstOf(S)
    BY DEF FirstOf
  <1>6. ASSUME NEW cell \in g.active PROVE CellWaits(g, cell, n, n)'
    <2>1. PICK t : t = g.triggers[cell[2]]
      OBVIOUS
    <2>2. /\ t = FirstOf(StopTouches(q, cell[2], n))
          /\ t = 0 => TargetTouches(q, cell[1], n) = {}
          /\ t # 0 => /\ \A k \in TargetTouches(q, cell[1], n) : Time(t) <= Time(k)
                      /\ Fills(q, t, n) = {}
          /\ cell \in g.censored <=> IF t = 0 THEN Late(q, n) ELSE Beyond(q, t)
      BY <1>1, <2>1 DEF Waits, CellWaits
    <2>3. t # 0 => t \in 1..n
      <3>1. StopTouches(q, cell[2], n) \subseteq Nat \ {0} /\ StopTouches(q, cell[2], n) \subseteq 1..n
        BY <1>3
      <3>. QED
        BY <2>2, <3>1, FirstOfIs
    <2>4. t = FirstOf(StopTouches(q, cell[2], n))'
      BY <1>3, <1>5, <2>2
    <2>5. t = 0 => TargetTouches(q, cell[1], n)' = {}
      BY <1>3, <2>2
    <2>6. t # 0 => (\A k \in TargetTouches(q, cell[1], n)' : Time(t)' <= Time(k)') /\ Fills(q, t, n)' = {}
      BY <1>3, <1>4, <2>2, <2>3
    <2>7. cell \in g.censored <=> IF t = 0 THEN Late(q, n)' ELSE Beyond(q, t)'
      BY <1>3, <2>2, <2>3
    <2>. QED
      BY <1>1, <2>1, <2>4, <2>5, <2>6, <2>7 DEF CellWaits
  <1>7. g.price \in Int /\ (g.censor # 0 <=> Late(q, n)')
    BY <1>1, <1>3 DEF Waits
  <1>. QED
    BY <1>1, <1>6, <1>7 DEF Waits

\* What a set of positions of a path was, and became when the path grew.
Grown(was, became, path, n, m) == \E new : became = was \cup new /\ new \subseteq path \cap (n + 1..m)

LEMMA PathGrows ==
  ASSUME seeds' = seeds, NEW n \in Nat, NEW m \in Nat, n <= m,
         \A k \in 1..n : stream'[k] = stream[k], NEW q, q.entry \in 1..n
  PROVE  /\ \A k : k \in Path(q, n) => k \in Path(q, m)'
         /\ \A k : k \in Path(q, m)' => k \in Path(q, n) \/
                     (k \in n + 1..m /\ stream'[k].contract = seeds[q.signal].contract)
         /\ \A sl : Grown(StopTouches(q, sl, n), StopTouches(q, sl, m)', Path(q, m)', n, m)
         /\ \A tp : Grown(TargetTouches(q, tp, n), TargetTouches(q, tp, m)', Path(q, m)', n, m)
         /\ \A t \in 1..n : Grown(Fills(q, t, n), Fills(q, t, m)', Path(q, m)', n, m)
  <1>1. \A k : k \in q.entry + 1..m <=> k \in q.entry + 1..n \/ k \in n + 1..m
    OBVIOUS
  <1>2. \A k \in q.entry + 1..n : k \in 1..n
    OBVIOUS
  <1>3. \A k : k \in Path(q, m)' <=>
          k \in Path(q, n) \/ (k \in n + 1..m /\ stream'[k].contract = seeds[q.signal].contract)
    BY <1>1, <1>2 DEF Path
  <1>4. \A k : k \in Path(q, n) => k \in 1..n
    BY <1>2 DEF Path
  <1>5. \A k \in 1..n : /\ Valid(k)' = Valid(k) /\ Time(k)' = Time(k)
                        /\ stream'[k].terminal = stream[k].terminal
                        /\ Against(q, k)' = Against(q, k)
    BY DEF Valid, Time, Against, Loss, Executable, Side
  <1> DEFINE late == Path(q, m)' \cap (n + 1..m)
  <1>6. \A k : k \in Path(q, m)' <=> k \in Path(q, n) \/ k \in late
    BY <1>3
  <1> HIDE DEF late
  <1>7. \A k : k \in Quotes(q, n) => k \in Path(q, n)
    BY DEF Quotes
  <1>8. \A k : k \in Quotes(q, m)' <=> k \in Quotes(q, n) \/ (k \in late /\ k \in Quotes(q, m)')
    BY <1>4, <1>5, <1>6 DEF Quotes
  <1>9. ASSUME NEW sl
        PROVE  Grown(StopTouches(q, sl, n), StopTouches(q, sl, m)', Path(q, m)', n, m)
    <2>1. \A k : k \in StopTouches(q, sl, m)' <=>
            k \in StopTouches(q, sl, n) \/ (k \in late /\ k \in StopTouches(q, sl, m)')
      BY <1>4, <1>5, <1>7, <1>8 DEF StopTouches
    <2>2. StopTouches(q, sl, m)' = StopTouches(q, sl, n) \cup {k \in late : k \in StopTouches(q, sl, m)'}
      BY <2>1
    <2>. QED
      BY <2>2 DEF Grown, late
  <1>10. ASSUME NEW tp
         PROVE  Grown(TargetTouches(q, tp, n), TargetTouches(q, tp, m)', Path(q, m)', n, m)
    <2>1. \A k : k \in TargetTouches(q, tp, m)' <=>
            k \in TargetTouches(q, tp, n) \/ (k \in late /\ k \in TargetTouches(q, tp, m)')
      BY <1>4, <1>5, <1>7, <1>8 DEF TargetTouches
    <2>2. TargetTouches(q, tp, m)' = TargetTouches(q, tp, n) \cup {k \in late : k \in TargetTouches(q, tp, m)'}
      BY <2>1
    <2>. QED
      BY <2>2 DEF Grown, late
  <1>11. ASSUME NEW t \in 1..n
         PROVE  Grown(Fills(q, t, n), Fills(q, t, m)', Path(q, m)', n, m)
    <2>1. \A k : k \in Fills(q, t, m)' <=>
            k \in Fills(q, t, n) \/ (k \in late /\ k \in Fills(q, t, m)')
      BY <1>4, <1>5, <1>6 DEF Fills
    <2>2. Fills(q, t, m)' = Fills(q, t, n) \cup {k \in late : k \in Fills(q, t, m)'}
      BY <2>1
    <2>. QED
      BY <2>2 DEF Grown, late
  <1>. QED
    BY <1>3, <1>9, <1>10, <1>11

\* A later event changes no outcome.
LEMMA ClosesStays ==
  ASSUME seeds' = seeds, stream \in Seq(Quote), stream' \in Seq(Quote),
         NEW n \in Nat, NEW m \in Nat, n <= m, n = Len(stream), m = Len(stream'),
         \A k \in 1..n : stream'[k] = stream[k],
         NEW x, x.entry \in 1..n, x.fill \in 1..n, Closes(x, n),
         \A i \in 1..n, k \in n + 1..m : Time(i) <= Time(k)',
         \A k \in n + 1..m : Time(x.fill) < Time(k)',
         stream[x.fill].terminal =>
           \A k \in n + 1..m : stream'[k].contract # seeds[x.signal].contract
  PROVE  Closes(x, m)'
  <1> DEFINE cell == x.cell
  <1>1. PICK q : q = OfExit(x)
    OBVIOUS
  <1>2. q.entry \in 1..n /\ q.signal = x.signal /\ q.scenario = x.scenario
    BY <1>1 DEF OfExit
  <1>3. PICK S, T, S2, T2 : /\ S = StopTouches(q, cell[2], n) /\ S2 = StopTouches(q, cell[2], m)'
                            /\ T = TargetTouches(q, cell[1], n) /\ T2 = TargetTouches(q, cell[1], m)'
    OBVIOUS
  <1>4. PICK A, B : /\ S2 = S \cup A /\ A \subseteq Path(q, m)' /\ A \subseteq n + 1..m
                    /\ T2 = T \cup B /\ B \subseteq Path(q, m)' /\ B \subseteq n + 1..m
    <2>1. Grown(S, S2, Path(q, m)', n, m)
      BY <1>2, <1>3, PathGrows
    <2>2. Grown(T, T2, Path(q, m)', n, m)
      BY <1>2, <1>3, PathGrows
    <2>. QED
      BY <2>1, <2>2 DEF Grown
  <1>5. S \subseteq 1..n /\ T \subseteq 1..n /\ \A k \in 1..n : Beyond(q, k)' <=> Beyond(q, k)
    BY <1>2, <1>3, PathStays
  <1>6. \A k \in 1..n : Time(k)' = Time(k) /\ Time(k) \in Nat
    BY StreamTypes DEF Time
  <1>7. \A k \in n + 1..m : Time(k)' \in Nat /\ k \in 1..m
    <2>1. \A k \in n + 1..m : k \in 1..m
      OBVIOUS
    <2>2. \A k \in 1..m : stream'[k] \in Quote
      OBVIOUS
    <2>. QED
      BY <2>1, <2>2 DEF Time, Quote
  <1>8. \A Z : FirstOf(Z)' = FirstOf(Z)
    BY DEF FirstOf
  <1>9. PICK stop, stop2 : stop = FirstOf(S) /\ stop2 = FirstOf(S2)
    OBVIOUS
  <1>10. /\ stop2 = IF S = {} THEN FirstOf(A) ELSE stop
         /\ FirstOf(T2) = IF T = {} THEN FirstOf(B) ELSE FirstOf(T)
    <2>1. FirstOf(S2) = IF S = {} THEN FirstOf(A) ELSE FirstOf(S)
      <3>1. Joined(S, A, S2, n, m)
        BY <1>4, <1>5 DEF Joined
      <3>. QED
        BY <3>1, FirstOfGrown
    <2>2. FirstOf(T2) = IF T = {} THEN FirstOf(B) ELSE FirstOf(T)
      <3>1. Joined(T, B, T2, n, m)
        BY <1>4, <1>5 DEF Joined
      <3>. QED
        BY <3>1, FirstOfGrown
    <2>. QED
      BY <1>9, <2>1, <2>2
  <1>11. /\ stop = 0 <=> S = {}
         /\ stop # 0 => stop \in S /\ stop \in 1..n /\ stop2 = stop
         /\ stop = 0 => stop2 = FirstOf(A)
         /\ FirstOf(A) # 0 => FirstOf(A) \in n + 1..m
         /\ FirstOf(T) # 0 => FirstOf(T) \in T
         /\ FirstOf(T) = 0 <=> T = {}
    <2>1. S \subseteq Nat \ {0} /\ A \subseteq Nat \ {0} /\ T \subseteq Nat \ {0}
      BY <1>4, <1>5
    <2>2. (stop = 0 <=> S = {}) /\ (stop # 0 => stop \in S)
      BY <1>9, <2>1, FirstOfIs
    <2>3. FirstOf(A) # 0 => FirstOf(A) \in A
      BY <2>1, FirstOfIs
    <2>4. (FirstOf(T) # 0 => FirstOf(T) \in T) /\ (FirstOf(T) = 0 <=> T = {})
      BY <2>1, FirstOfIs
    <2>. QED
      BY <1>4, <1>5, <1>10, <2>2, <2>3, <2>4
  <1>12. /\ Stopped(q, cell, n) <=> stop # 0 /\ \A k \in T : Time(stop) <= Time(k)
         /\ Stopped(q, cell, m)' <=> stop2 # 0 /\ \A k \in T2 : Time(stop2)' <= Time(k)'
    <2>1. Stopped(q, cell, n) <=> stop # 0 /\ \A k \in T : Time(stop) <= Time(k)
      BY <1>3, <1>9 DEF Stopped
    <2>2. stop2 = FirstOf(StopTouches(q, cell[2], m))'
      BY <1>3, <1>8, <1>9
    <2>3. Stopped(q, cell, m)' <=> stop2 # 0 /\ \A k \in T2 : Time(stop2)' <= Time(k)'
      BY <1>3, <2>2 DEF Stopped
    <2>. QED
      BY <2>1, <2>3
  <1>13. Stopped(q, cell, n) => Stopped(q, cell, m)' /\ stop2 = stop /\ stop # 0
    <2>. SUFFICES ASSUME Stopped(q, cell, n), NEW k \in T2
                  PROVE  Time(stop2)' <= Time(k)' /\ stop2 = stop /\ stop # 0
      BY <1>11, <1>12
    <2>1. stop \in 1..n /\ stop2 = stop
      BY <1>11, <1>12
    <2>2. CASE k \in T
      BY <1>5, <1>6, <1>12, <2>1, <2>2
    <2>3. CASE k \in n + 1..m
      BY <1>6, <1>12, <2>1, <2>3
    <2>. QED
      BY <1>4, <1>12, <2>1, <2>2, <2>3
  <1>14. ASSUME ~Stopped(q, cell, n), \/ T # {} /\ x.fill = FirstOf(T)
                                      \/ A = {} /\ B = {}
         PROVE  ~Stopped(q, cell, m)'
    <2>1. CASE stop # 0
      <3>1. PICK k \in T : ~(Time(stop) <= Time(k))
        BY <1>12, <1>14, <2>1
      <3>2. stop2 = stop /\ stop \in 1..n /\ k \in 1..n /\ k \in T2
        BY <1>4, <1>5, <1>11, <2>1
      <3>. QED
        BY <1>6, <1>12, <3>1, <3>2
    <2>2. CASE stop = 0 /\ A = {} /\ B = {}
      <3>1. FirstOf({}) = 0
        BY DEF FirstOf
      <3>. QED
        BY <1>11, <1>12, <2>2, <3>1
    <2>3. CASE stop = 0 /\ x.fill = FirstOf(T) /\ T # {}
      <3>1. x.fill \in T /\ x.fill \in T2 /\ x.fill \in 1..n
        BY <1>4, <1>5, <1>11, <2>3
      <3>2. stop2 # 0 => stop2 \in n + 1..m
        BY <1>11, <2>3
      <3>3. stop2 # 0 => ~(Time(stop2)' <= Time(x.fill)')
        BY <1>6, <1>7, <3>1, <3>2
      <3>. QED
        BY <1>12, <3>1, <3>3
    <2>. QED
      BY <1>14, <2>1, <2>2, <2>3
  <1>15. q.price \in Int /\ x.fill \in Path(q, m)' /\ x.fill \in Path(q, n)
    <2>1. q.price \in Int /\ x.fill \in Path(q, n)
      BY <1>1 DEF Closes
    <2>. QED
      BY <1>2, <2>1, PathGrows
  <1>16. /\ Executable(x.fill, Side(x.signal))' = Executable(x.fill, Side(x.signal))
         /\ Side(x.signal)' = Side(x.signal) /\ stream'[x.fill].terminal = stream[x.fill].terminal
    BY DEF Executable, Side
  <1> DEFINE limit == Worse(Side(x.signal), Worse(Side(x.signal), q.price, cell[2]),
                            Scenario[x.scenario].stopAdverse)
             observed == Executable(x.fill, Side(x.signal))
  <1>17. /\ x.label = IF Beyond(q, Decider(x, q, n)) THEN "CENSORED"
                      ELSE IF Stopped(q, cell, n) THEN "STOP_FIRST" ELSE x.outcome
         /\ \/ /\ x.outcome = "STOP_FIRST" /\ Stopped(q, cell, n)
               /\ Fills(q, stop, n) # {} /\ x.fill = FirstOf(Fills(q, stop, n))
               /\ x.price = IF Side(x.signal) = "LONG" THEN Min({observed, limit})
                                                       ELSE Max({observed, limit})
            \/ /\ x.outcome = "TP_FIRST" /\ ~Stopped(q, cell, n)
               /\ T # {} /\ x.fill = FirstOf(T)
               /\ x.price = Better(Side(x.signal), q.price, cell[1])
            \/ /\ x.outcome = "TERMINAL_EXIT" /\ stream[x.fill].terminal
               /\ IF Stopped(q, cell, n) THEN Fills(q, stop, n) = {} ELSE T = {}
               /\ x.price = Worse(Side(x.signal), observed, Scenario[x.scenario].terminalAdverse)
    BY <1>1, <1>3, <1>9, Zenon DEF Closes
  <1> HIDE DEF limit, observed
  <1>18. limit' = limit /\ observed' = observed
    BY <1>16 DEF limit, observed, Worse
  <1>19. /\ stop = FirstOf(StopTouches(q, cell[2], n))
         /\ stop2 = FirstOf(StopTouches(q, cell[2], m))'
    BY <1>3, <1>8, <1>9
  <1>20. ASSUME Stopped(q, cell, m)' <=> Stopped(q, cell, n)
         PROVE  /\ Decider(x, q, m)' = Decider(x, q, n)
                /\ x.label = IF Beyond(q, Decider(x, q, m))' THEN "CENSORED"
                             ELSE IF Stopped(q, cell, m)' THEN "STOP_FIRST" ELSE x.outcome
    <2>1. Decider(x, q, n) = (IF Stopped(q, cell, n) THEN stop ELSE x.fill) 
      BY <1>19 DEF Decider
    <2>2. Decider(x, q, m)' = (IF Stopped(q, cell, m)' THEN stop2 ELSE x.fill) 
      BY <1>19 DEF Decider
    <2>3. PICK d : d = Decider(x, q, n)
      OBVIOUS
    <2>4. d \in 1..n /\ Decider(x, q, m)' = d
      BY <1>11, <1>13, <1>20, <2>1, <2>2, <2>3
    <2>5. Beyond(q, Decider(x, q, m))' <=> Beyond(q, d)
      BY <1>5, <2>4
    <2>. QED
      BY <1>17, <1>20, <2>3, <2>4, <2>5
  <1>21. PICK F, F2 : F = Fills(q, stop, n) /\ F2 = Fills(q, stop, m)'
    OBVIOUS
  <1>22. stop # 0 => Grown(F, F2, Path(q, m)', n, m) /\ F \subseteq 1..n
    <2>1. stop # 0 => Grown(F, F2, Path(q, m)', n, m)
      BY <1>2, <1>11, <1>21, PathGrows
    <2>2. stop # 0 => F \subseteq 1..n
      BY <1>2, <1>11, <1>21, PathStays
    <2>. QED
      BY <2>1, <2>2
  <1>23. CASE x.outcome = "STOP_FIRST"
    <2>1. /\ Stopped(q, cell, n) /\ F # {} /\ x.fill = FirstOf(F)
          /\ x.price = IF Side(x.signal) = "LONG" THEN Min({observed, limit})
                                                  ELSE Max({observed, limit})
      BY <1>17, <1>21, <1>23
    <2>2. Stopped(q, cell, m)' /\ stop2 = stop /\ stop # 0
      BY <1>13, <2>1
    <2>3. PICK C : F2 = F \cup C /\ C \subseteq n + 1..m
      BY <1>22, <2>2 DEF Grown
    <2>4. FirstOf(F2) = FirstOf(F) /\ F2 # {}
      <3>1. Joined(F, C, F2, n, m)
        BY <1>22, <2>2, <2>3 DEF Joined
      <3>2. FirstOf(F2) = IF F = {} THEN FirstOf(C) ELSE FirstOf(F)
        BY <3>1, FirstOfGrown
      <3>. QED
        BY <2>1, <2>3, <3>2
    <2>5. /\ Fills(q, stop2, m)' # {} /\ x.fill = FirstOf(Fills(q, stop2, m))'
      BY <1>8, <1>21, <2>1, <2>2, <2>4
    <2>. QED
      BY <1>1, <1>15, <1>16, <1>18, <1>19, <1>20, <1>23, <2>1, <2>2, <2>5, Zenon
         DEF Closes, limit, observed
  <1>24. CASE x.outcome = "TP_FIRST"
    <2>1. /\ ~Stopped(q, cell, n) /\ T # {} /\ x.fill = FirstOf(T)
          /\ x.price = Better(Side(x.signal), q.price, cell[1])
      BY <1>17, <1>24
    <2>2. ~Stopped(q, cell, m)'
      BY <1>14, <2>1
    <2>3. T2 # {} /\ x.fill = FirstOf(T2)
      BY <1>4, <1>10, <2>1
    <2>4. TargetTouches(q, cell[1], m)' # {} /\ x.fill = FirstOf(TargetTouches(q, cell[1], m))'
      BY <1>3, <1>8, <2>3
    <2>5. x.price = Better(Side(x.signal), q.price, cell[1])'
      BY <1>16, <2>1 DEF Better, Worse
    <2>. QED
      BY <1>1, <1>15, <1>20, <1>24, <2>1, <2>2, <2>4, <2>5, Zenon DEF Closes
  <1>25. CASE x.outcome = "TERMINAL_EXIT"
    <2>1. /\ stream[x.fill].terminal
          /\ IF Stopped(q, cell, n) THEN F = {} ELSE T = {}
          /\ x.price = Worse(Side(x.signal), observed, Scenario[x.scenario].terminalAdverse)
      BY <1>17, <1>21, <1>25
    <2>2. Path(q, m)' \cap (n + 1..m) = {}
      <3>. SUFFICES ASSUME NEW k \in n + 1..m, k \in Path(q, m)' PROVE FALSE
        OBVIOUS
      <3>1. k \notin Path(q, n)
        BY <1>2, PathStays
      <3>2. stream'[k].contract = seeds[q.signal].contract
        BY <1>2, <3>1, PathGrows
      <3>. QED
        BY <1>2, <2>1, <3>2
    <2>3. A = {} /\ B = {} /\ (stop # 0 => F2 = F)
      BY <1>4, <1>22, <2>2 DEF Grown
    <2>4. Stopped(q, cell, m)' <=> Stopped(q, cell, n)
      BY <1>13, <1>14, <2>3
    <2>5. Stopped(q, cell, m)' => Fills(q, stop2, m)' = {}
      BY <1>13, <1>21, <2>1, <2>3, <2>4
    <2>6. ~Stopped(q, cell, m)' => TargetTouches(q, cell[1], m)' = {}
      BY <1>3, <1>4, <2>1, <2>3, <2>4
    <2>7. x.price = Worse(Side(x.signal), observed, Scenario[x.scenario].terminalAdverse)'
      BY <1>16, <1>18, <2>1 DEF Worse
    <2>8. stream'[x.fill].terminal
      BY <1>16, <2>1
    <2>. QED
      BY <1>1, <1>15, <1>19, <1>20, <1>25, <2>4, <2>5, <2>6, <2>7, <2>8, Zenon DEF Closes, observed
  <1>. QED
    BY <1>17, <1>23, <1>24, <1>25

\* A new event follows the sessions of the earlier ones.
LEMMA DatedAppends ==
  ASSUME stream \in Seq(Quote), Dated, NEW e \in Quote, stream' = Append(stream, e),
         \A i \in 1..Len(stream) : Time(i) <= e.ts, e.ts > boundary, boundary \in Int, dates \in Nat,
         e.contract \notin InputTerminated, e.session = dates, e.terminal => e.valid,
         dates' = dates, boundary' = boundary
  PROVE  Dated'
  <1>1. PICK n : n = Len(stream)
    OBVIOUS
  <1>2. /\ n \in Nat /\ DOMAIN stream = 1..n /\ DOMAIN stream' = 1..n + 1
        /\ \A i \in 1..n : stream'[i] = stream[i] /\ Time(i) \in Nat
        /\ stream'[n + 1] = e
    BY <1>1, StreamTypes, AppendIs
  <1>3. \A i \in 1..n : stream[i].session \in Nat /\ stream[i] \in Quote
    <2>1. \A i \in 1..n : stream[i] \in Quote
      BY <1>1
    <2>. QED
      BY <2>1 DEF Quote
  <1>4. e.ts \in Nat /\ e.session \in Nat
    BY DEF Quote
  <1>5. \A i \in 1..n : /\ stream[i].session <= dates /\ (stream[i].session < dates => Time(i) <= boundary)
                        /\ stream[i].terminal => stream[i].valid
    <2>. SUFFICES ASSUME NEW i \in DOMAIN stream
                  PROVE  /\ stream[i].session <= dates /\ (stream[i].session < dates => Time(i) <= boundary)
                         /\ stream[i].terminal => stream[i].valid
      BY <1>2
    <2>. QED
      BY Zenon DEF Dated, Valid
  <1>6. \A i \in 1..n : /\ stream[i].session <= e.session
                        /\ Time(i) = e.ts => stream[i].session = e.session
    BY <1>1, <1>2, <1>3, <1>4, <1>5
  <1>7. \A i \in 1..n : stream[i].terminal => e.contract # stream[i].contract
    BY <1>2 DEF InputTerminated
  <1>8. ASSUME NEW i \in 1..n + 1
        PROVE  /\ stream'[i].session <= dates /\ (stream'[i].session < dates => stream'[i].ts <= boundary)
               /\ stream'[i].terminal => stream'[i].valid
    <2>1. CASE i = n + 1
      BY <1>2, <1>4, <2>1
    <2>2. CASE i \in 1..n
      BY <1>2, <1>5, <2>2 DEF Time
    <2>. QED
      BY <1>2, <2>1, <2>2
  <1>9. ASSUME NEW i \in 1..n + 1, NEW j \in 1..n + 1, i < j
        PROVE  /\ stream'[i].session <= stream'[j].session
               /\ stream'[i].ts = stream'[j].ts => stream'[i].session = stream'[j].session
               /\ stream'[i].terminal => stream'[j].contract # stream'[i].contract
    <2>0. i \in 1..n
      BY <1>2, <1>9
    <2>1. CASE j = n + 1
      BY <1>2, <1>6, <1>7, <2>0, <2>1 DEF Time
    <2>2. CASE j \in 1..n
      <3>1. i \in DOMAIN stream /\ j \in DOMAIN stream /\ i < j
        BY <1>2, <1>9, <2>0, <2>2
      <3>2. /\ stream[i].session <= stream[j].session
            /\ Time(i) = Time(j) => stream[i].session = stream[j].session
            /\ stream[i].terminal => stream[j].contract # stream[i].contract
        BY <3>1, Zenon DEF Dated
      <3>. QED
        BY <1>2, <2>0, <2>2, <3>2 DEF Time
    <2>. QED
      BY <1>2, <2>1, <2>2
  <1>. QED
    BY <1>2, <1>8, <1>9 DEF Dated, Time, Valid

\* The outcomes of a replay after the f-th event are those of a longer stream.
LEMMA PricedStays ==
  ASSUME seeds' = seeds, stream \in Seq(Quote), stream' \in Seq(Quote),
         NEW n \in Nat, NEW m \in Nat, n <= m, n = Len(stream), m = Len(stream'),
         \A k \in 1..n : stream'[k] = stream[k], NEW f \in 0..n,
         \A i \in 1..n, k \in n + 1..m : Time(i) <= Time(k)',
         \A i \in 1..f, k \in n + 1..m : Time(i) < Time(k)',
         \A i \in 1..n, k \in n + 1..m : stream[i].terminal => stream'[k].contract # stream[i].contract,
         NEW r, Core(r, f), Priced(r, f)
  PROVE  Priced(r, f)'
  <1>1. f \in Nat /\ 1..f \subseteq 1..n
    OBVIOUS
  <1>2. \A k \in 1..f : stream'[k] = stream[k]
    BY <1>1
  <1>3. ASSUME NEW g \in r.groups PROVE Waits(g, f, f)'
    <2>1. g.entry \in 1..f /\ Waits(g, f, f)
      BY DEF Core, Shaped, GroupOf, Priced
    <2>. QED
      BY <1>1, <1>2, <2>1, WaitsStay
  <1>4. ASSUME NEW x \in r.records, x.status = "ENTRY_FILLED" PROVE Closes(x, m)'
    <2>1. x.entry \in 1..f /\ x.fill \in 1..f
      BY <1>4 DEF Core, Shaped, ResultOf
    <2>2. Closes(x, n)
      BY <1>4 DEF Priced
    <2>3. stream[x.fill].contract = seeds[x.signal].contract
      BY <2>2 DEF Closes, Path, OfExit
    <2>4. /\ x.entry \in 1..n /\ x.fill \in 1..n
          /\ \A k \in n + 1..m : Time(x.fill) < Time(k)'
          /\ stream[x.fill].terminal => \A k \in n + 1..m : stream'[k].contract # seeds[x.signal].contract
      BY <1>1, <2>1, <2>3
    <2>. QED
      BY <2>2, <2>4, ClosesStays
  <1>5. \A x \in r.records : x.status = "ENTRY_FILLED" => Closes(x, Len(stream))'
    BY <1>4
  <1>. QED
    BY <1>3, <1>5 DEF Priced

-----------------------------------------------------------------------------
(* The steps. *)

LEMMA OutcomeInit ==
  ASSUME Init
  PROVE  OutcomeInv
  <1>1. ReplayInv
    BY ReplayInit
  <1>2. stream = <<>> /\ replay.groups = {} /\ replay.records = {}
    BY DEF Init
  <1>3. DOMAIN stream = {}
    BY <1>2
  <1>4. Dated
    BY <1>3 DEF Dated
  <1>5. Priced(replay, flushed)
    BY <1>2 DEF Priced
  <1>. QED
    BY <1>1, <1>4, <1>5 DEF OutcomeInv

LEMMA AcceptPrices ==
  ASSUME OutcomeInv, NEW e \in Quote, Accept(e), e.session = dates, e.terminal => e.valid
  PROVE  OutcomeInv'
  <1>1. ReplayInv' /\ ReplayInv /\ Dated /\ Priced(replay, flushed)
    BY AcceptKeeps DEF OutcomeInv
  <1>2. PICK n : n = Len(stream)
    OBVIOUS
  <1>3. /\ seeds \in SeedLists /\ Buffered /\ stream \in Seq(Quote)
        /\ Core(replay, flushed) /\ Observed(replay, flushed) /\ PacedAt(replay, flushed)
        /\ Traced(replay, flushed, FALSE)
        /\ stream' = Append(stream, e) /\ e.ts > boundary /\ boundary \in Int /\ dates \in Nat
        /\ seeds' = seeds /\ dates' = dates /\ boundary' = boundary
        /\ e.contract \notin InputTerminated
    BY <1>1 DEF ReplayInv, Accept, Buffered, Paced
  <1>4. /\ n \in Nat /\ flushed \in 0..n /\ Len(stream') = n + 1 /\ stream' \in Seq(Quote)
        /\ \A i \in 1..n : stream'[i] = stream[i] /\ Time(i)' = Time(i) /\ Time(i) \in Nat
        /\ stream'[n + 1] = e
    BY <1>2, <1>3, AppendIs, StreamTypes DEF Buffered
  <1>5. DOMAIN stream' = 1..n + 1 /\ DOMAIN stream = 1..n
    BY <1>2, <1>3, <1>4
  <1>6. \A i \in 1..n : Time(i) <= e.ts
    <2>. SUFFICES ASSUME NEW i \in 1..n PROVE Time(i) <= e.ts
      OBVIOUS
    <2>1. n + 1 \in DOMAIN stream' /\ i \in DOMAIN stream' /\ i <= n + 1
      BY <1>4, <1>5
    <2>2. Time(i)' <= Time(n + 1)'
      BY <1>1, <2>1 DEF ReplayInv, Buffered
    <2>. QED
      BY <1>4, <2>2 DEF Time
  <1>7. Dated'
    BY <1>1, <1>2, <1>3, <1>6, DatedAppends
  <1>8. \A i \in 1..n, k \in n + 1..n + 1 : stream[i].terminal => stream'[k].contract # stream[i].contract
    <2>. SUFFICES ASSUME NEW i \in 1..n, stream[i].terminal PROVE stream'[n + 1].contract # stream[i].contract
      BY <1>4
    <2>. QED
      BY <1>3, <1>4, <1>5 DEF InputTerminated
  <1>9. \A i \in 1..n, k \in n + 1..n + 1 : Time(i) <= Time(k)'
    BY <1>4, <1>6 DEF Time
  <1>10. PICK q, f : q = replay' /\ f = flushed'
    OBVIOUS
  <1>11. Core(q, f) /\ Priced(q, f) /\ f \in 0..n
    <2>1. CASE n > flushed /\ e.ts # Last(stream).ts
      <3>1. q = FlushBuffer(replay) /\ f = n
        BY <1>2, <1>10, <2>1 DEF Accept
      <3>2. Core(q, n) /\ Priced(q, n)
        BY <1>1, <1>2, <1>3, <3>1, FlushKeeps, FlushPrices
      <3>. QED
        BY <1>4, <3>1, <3>2
    <2>2. CASE ~(n > flushed /\ e.ts # Last(stream).ts)
      <3>1. q = replay /\ f = flushed
        BY <1>2, <1>10, <2>2 DEF Accept
      <3>. QED
        BY <1>1, <1>3, <1>4, <3>1
    <2>. QED
      BY <2>1, <2>2
  <1>12. \A i \in 1..f, k \in n + 1..n + 1 : Time(i) < Time(k)'
    <2>. SUFFICES ASSUME NEW i \in 1..f PROVE Time(i) < Time(n + 1)'
      BY <1>4
    <2>1. i \in 1..n /\ n + 1 \in f + 1..n + 1
      BY <1>4, <1>11
    <2>2. Time(i)' < Time(n + 1)'
      <3>1. \A j \in 1..flushed', k \in flushed' + 1..Len(stream') : Time(j)' < Time(k)'
        BY <1>1 DEF ReplayInv, Buffered
      <3>. QED
        BY <1>4, <1>10, <2>1, <3>1, Zenon
    <2>. QED
      BY <1>4, <2>1, <2>2
  <1>13. Priced(q, f)'
    <2>1. PICK m : m = n + 1
      OBVIOUS
    <2>2. m \in Nat /\ n <= m /\ m = Len(stream')
      BY <1>4, <2>1
    <2>3. /\ \A i \in 1..n, k \in n + 1..m : Time(i) <= Time(k)'
          /\ \A i \in 1..f, k \in n + 1..m : Time(i) < Time(k)'
          /\ \A i \in 1..n, k \in n + 1..m : stream[i].terminal => stream'[k].contract # stream[i].contract
          /\ \A k \in 1..n : stream'[k] = stream[k]
      BY <1>4, <1>8, <1>9, <1>12, <2>1
    <2>4. /\ seeds' = seeds /\ stream \in Seq(Quote) /\ stream' \in Seq(Quote)
          /\ n \in Nat /\ n = Len(stream) /\ f \in 0..n /\ Core(q, f) /\ Priced(q, f)
      BY <1>2, <1>3, <1>4, <1>11
    <2>. QED
      BY <2>2, <2>3, <2>4, PricedStays
  <1>14. Priced(replay, flushed)'
    BY <1>10, <1>13
  <1>. QED
    BY <1>1, <1>7, <1>14 DEF OutcomeInv

LEMMA ProcessPrices ==
  ASSUME OutcomeInv, Process
  PROVE  OutcomeInv'
  <1>1. PICK e \in Quote : Accept(e) /\ e.session = dates /\ (e.terminal => e.valid)
    BY ProcessAccepts DEF OutcomeInv
  <1>. QED
    BY <1>1, AcceptPrices

\* The outcomes of a replay hold in a step that accepts no event.
LEMMA SamePrices ==
  ASSUME seeds' = seeds, stream' = stream, stream \in Seq(Quote),
         NEW f \in 0..Len(stream), NEW r, Core(r, f), Priced(r, f)
  PROVE  Priced(r, f)'
  <1>1. PICK n : n = Len(stream)
    OBVIOUS
  <1>2. n \in Nat /\ n = Len(stream') /\ n + 1..n = {} /\ stream' \in Seq(Quote) /\ n <= n
        /\ f \in 0..n
    BY <1>1, StreamTypes
  <1>3. /\ \A i \in 1..n, k \in n + 1..n : Time(i) <= Time(k)'
        /\ \A i \in 1..f, k \in n + 1..n : Time(i) < Time(k)'
        /\ \A i \in 1..n, k \in n + 1..n : stream[i].terminal => stream'[k].contract # stream[i].contract
    BY <1>2
  <1>. QED
    BY <1>1, <1>2, <1>3, PricedStays

LEMMA SameDates ==
  ASSUME Dated, stream' = stream, dates' = dates, boundary' = boundary
  PROVE  Dated'
BY DEF Dated, Time, Valid

LEMMA CompletePrices ==
  ASSUME OutcomeInv, CompleteSourceDate
  PROVE  OutcomeInv'
  <1>1. ReplayInv' /\ ReplayInv /\ Dated /\ Priced(replay, flushed)
    BY CompleteKeeps DEF OutcomeInv
  <1>2. /\ seeds \in SeedLists /\ Buffered /\ stream \in Seq(Quote)
        /\ Core(replay, flushed) /\ Observed(replay, flushed) /\ PacedAt(replay, flushed)
        /\ Traced(replay, flushed, FALSE)
        /\ dates \in Nat /\ stream' = stream /\ flushed' = Len(stream) /\ dates' = dates + 1
        /\ seeds' = seeds /\ boundary' = IF stream = <<>> THEN -1 ELSE Last(stream).ts
    BY <1>1 DEF ReplayInv, CompleteSourceDate, Buffered, Paced
  <1>3. PICK q, n : q = FlushBuffer(replay) /\ n = Len(stream)
    OBVIOUS
  <1>4. Core(q, n) /\ Priced(q, n)
    BY <1>1, <1>2, <1>3, FlushKeeps, FlushPrices
  <1>5. Priced(q, n)'
    BY <1>2, <1>3, <1>4, StreamTypes, SamePrices
  <1>6. replay' = q /\ flushed' = n
    BY <1>2, <1>3 DEF CompleteSourceDate
  <1>7. Dated'
    <2>1. n \in Nat /\ DOMAIN stream = 1..n /\ \A i \in 1..n : Time(i) \in Nat
      BY <1>2, <1>3, StreamTypes
    <2>2. \A i \in 1..n : stream[i].session \in Nat
      <3>1. \A i \in 1..n : stream[i] \in Quote
        BY <1>2, <1>3
      <3>. QED
        BY <3>1 DEF Quote
    <2>3. ASSUME NEW i \in 1..n PROVE Time(i) <= boundary'
      <3>1. n \in 1..n /\ i <= n /\ stream # <<>>
        BY <1>3, <2>1
      <3>2. Time(i) <= Time(n) /\ boundary' = Time(n)
        BY <1>2, <1>3, <2>1, <3>1 DEF Buffered, Last, Time
      <3>. QED
        BY <3>2
    <2>4. \A i \in DOMAIN stream : stream[i].session <= dates /\ (stream[i].terminal => stream[i].valid)
      BY <1>1, Zenon DEF Dated, Valid
    <2>5. \A i \in DOMAIN stream : stream[i].session <= dates + 1
      BY <1>2, <2>1, <2>2, <2>4
    <2>. QED
      BY <1>1, <1>2, <2>1, <2>3, <2>4, <2>5 DEF Dated, Time, Valid
  <1>8. Priced(replay, flushed)'
    BY <1>5, <1>6
  <1>. QED
    BY <1>1, <1>7, <1>8 DEF OutcomeInv

LEMMA FinishPrices ==
  ASSUME OutcomeInv, Finish
  PROVE  OutcomeInv'
  <1>1. ReplayInv' /\ ReplayInv /\ Dated /\ Priced(replay, flushed)
    BY FinishStepKeeps DEF OutcomeInv
  <1>2. /\ seeds \in SeedLists /\ Buffered /\ stream \in Seq(Quote)
        /\ Core(replay, flushed) /\ Observed(replay, flushed) /\ PacedAt(replay, flushed)
        /\ Traced(replay, flushed, FALSE)
        /\ stream' = stream /\ flushed' = Len(stream) /\ dates' = dates
        /\ seeds' = seeds /\ boundary' = boundary
    BY <1>1 DEF ReplayInv, Finish, Buffered, Paced
  <1>3. PICK p, q, n : p = FlushBuffer(replay) /\ q = FinishReplay(p) /\ n = Len(stream)
    OBVIOUS
  <1>4. /\ Core(p, n) /\ Observed(p, n) /\ PacedAt(p, n) /\ Traced(p, n, FALSE) /\ Priced(p, n)
    BY <1>1, <1>2, <1>3, FlushKeeps, FlushPrices
  <1>5. Core(q, n)
    BY <1>2, <1>3, <1>4, FinishKeeps
  <1>6. Priced(q, n)
    <2>1. IsReplay(p) /\ p.cursor \in 0..Len(seeds)
      BY <1>4 DEF Core, Shaped
    <2>2. Adds(p, q)
      BY <1>2, <1>3, <2>1, FinishAdds
    <2>. QED
      BY <1>4, <2>2, AddsPrices
  <1>7. Priced(q, n)'
    BY <1>2, <1>3, <1>5, <1>6, StreamTypes, SamePrices
  <1>8. replay' = q /\ flushed' = n
    BY <1>2, <1>3 DEF Finish
  <1>9. Priced(replay, flushed)'
    BY <1>7, <1>8
  <1>. QED
    BY <1>1, <1>2, <1>9, SameDates DEF OutcomeInv

LEMMA DrainPrices ==
  ASSUME OutcomeInv, DrainResultRecords
  PROVE  OutcomeInv'
  <1>1. ReplayInv' /\ ReplayInv /\ Dated /\ Priced(replay, flushed)
    BY DrainKeeps DEF OutcomeInv
  <1>2. /\ stream \in Seq(Quote) /\ flushed \in 0..Len(stream) /\ Core(replay, flushed)
        /\ stream' = stream /\ flushed' = flushed /\ dates' = dates
        /\ seeds' = seeds /\ boundary' = boundary
        /\ replay' = [replay EXCEPT !.records = {}]
    BY <1>1 DEF ReplayInv, DrainResultRecords, Buffered
  <1>3. PICK r, f : r = replay /\ f = flushed
    OBVIOUS
  <1>4. Priced(r, f)'
    BY <1>1, <1>2, <1>3, SamePrices
  <1>5. replay'.groups = r.groups /\ replay'.records = {}
    <2>1. IsReplay(replay)
      BY <1>2 DEF Core, Shaped
    <2>. QED
      BY <1>2, <1>3, <2>1 DEF IsReplay
  <1>6. Priced(replay, flushed)'
    BY <1>2, <1>3, <1>4, <1>5 DEF Priced
  <1>. QED
    BY <1>1, <1>2, <1>6, SameDates DEF OutcomeInv

LEMMA StutterPrices ==
  ASSUME OutcomeInv, UNCHANGED vars
  PROVE  OutcomeInv'
  <1>1. ReplayInv' /\ ReplayInv /\ Dated /\ Priced(replay, flushed)
    BY StutterKeeps DEF OutcomeInv
  <1>2. /\ stream \in Seq(Quote) /\ flushed \in 0..Len(stream) /\ Core(replay, flushed)
        /\ stream' = stream /\ flushed' = flushed /\ dates' = dates
        /\ seeds' = seeds /\ boundary' = boundary /\ replay' = replay
    BY <1>1 DEF ReplayInv, vars, Buffered
  <1>3. PICK r, f : r = replay /\ f = flushed
    OBVIOUS
  <1>4. Priced(r, f)'
    BY <1>1, <1>2, <1>3, SamePrices
  <1>5. Priced(replay, flushed)'
    BY <1>2, <1>3, <1>4
  <1>. QED
    BY <1>1, <1>2, <1>5, SameDates DEF OutcomeInv

\* In every state, the outcome of each closed cell is the one its path gives, and an open cell's
\* path closes it in no way.
THEOREM OutcomeInvariant == Spec => []OutcomeInv
  <1>1. Init => OutcomeInv
    BY OutcomeInit
  <1>2. OutcomeInv /\ [Next]_vars => OutcomeInv'
    BY ProcessPrices, CompletePrices, DrainPrices, FinishPrices, StutterPrices DEF Next
  <1>. QED
    BY <1>1, <1>2, PTL DEF Spec

-----------------------------------------------------------------------------
(* The pass of the barrier engine over a path.                             *)

\* A path: events of some positions, in the order of their timestamps.
OrderedPath(events) ==
  /\ DOMAIN events \subseteq Nat \ {0}
  /\ \E n \in Nat : DOMAIN events \subseteq 1..n
  /\ \A i \in DOMAIN events : events[i].ts \in Nat
  /\ \A i, j \in DOMAIN events : i <= j => events[i].ts <= events[j].ts

\* The first valid event of S, or none.
Reported(events, S, side) == Barriers!FirstValid(events, S, side)

\* The events of S that touch a stop or a take profit, and those that may fill the stop that
\* was triggered as reported by t.
Stopping(events, S, side, entry, sl) ==
  {i \in S : sl <= Barriers!StopCapacity(side, entry, Barriers!Executable(events[i], side))}
Winning(events, S, side, entry, tp) ==
  {i \in S : tp <= Barriers!TakeProfitCapacity(side, entry, Barriers!Executable(events[i], side))}
Filling(events, S, t) ==
  {i \in S : events[i].ts > t.ts /\ events[i].ts >= t.ts + Scenario["BASELINE"].stopLatency}

\* The engine after it has processed the events of S.
Passed(e, events, S, side, entry) ==
  /\ e = [side |-> side, entry |-> entry, hits |-> e.hits, triggers |-> e.triggers,
          fills |-> e.fills, terminal |-> Barriers!None]
  /\ \A tp \in Grid : e.hits[tp] = Reported(events, Winning(events, S, side, entry, tp), side)
  /\ \A sl \in Grid :
       /\ e.triggers[sl] = Reported(events, Stopping(events, S, side, entry, sl), side)
       /\ e.fills[sl] = IF e.triggers[sl] = Barriers!None THEN Barriers!None
                        ELSE Reported(events, Filling(events, S, e.triggers[sl]), side)

LEMMA ReportedIs ==
  ASSUME NEW events, OrderedPath(events), NEW S, S \subseteq DOMAIN events, NEW side
  PROVE  /\ Reported(events, S, side) = Barriers!None <=> \A i \in S : ~events[i].valid
         /\ \A k \in S : events[k].valid /\ (\A i \in S : events[i].valid => k <= i) =>
              Reported(events, S, side) = Barriers!Reference(events[k], side)
  <1> DEFINE valid == {i \in S : events[i].valid}
  <1>1. S \subseteq Nat /\ \A i \in S : events[i].ts \in Nat
    BY DEF OrderedPath
  <1>2. Reported(events, S, side) =
          IF valid = {} THEN Barriers!None ELSE Barriers!Reference(events[Barriers!Min(valid)], side)
    BY Zenon DEF Reported, Barriers!FirstValid
  <1>3. ASSUME valid # {}
        PROVE  Barriers!Min(valid) \in valid /\ \A k \in valid : Barriers!Min(valid) <= k
    <2>1. valid \subseteq Nat
      BY <1>1
    <2> HIDE DEF valid
    <2>2. Min(valid) \in valid /\ \A k \in valid : Min(valid) <= k
      BY <1>3, <2>1, MinIs
    <2>3. Barriers!Min(valid) = Min(valid)
      BY Zenon DEF Barriers!Min, Min
    <2>. QED
      BY <2>2, <2>3
  <1>4. \A k \in S : Barriers!Reference(events[k], side) # Barriers!None
    BY <1>1 DEF Barriers!Reference, Barriers!None
  <1>5. Reported(events, S, side) = Barriers!None <=> \A i \in S : ~events[i].valid
    <2>1. CASE valid = {}
      BY <1>2, <2>1
    <2>2. CASE valid # {}
      <3>1. Barriers!Min(valid) \in S
        BY <1>3, <2>2
      <3>. HIDE DEF valid
      <3>2. Reported(events, S, side) # Barriers!None
        BY <1>2, <1>4, <2>2, <3>1
      <3>. USE DEF valid
      <3>. QED
        BY <2>2, <3>2
    <2>. QED
      BY <2>1, <2>2
  <1>6. ASSUME NEW k \in S, events[k].valid, \A i \in S : events[i].valid => k <= i
        PROVE  Reported(events, S, side) = Barriers!Reference(events[k], side)
    <2>1. k \in valid /\ \A i \in valid : k <= i
      BY <1>6
    <2>2. Barriers!Min(valid) \in valid /\ Barriers!Min(valid) <= k
      BY <1>3, <2>1
    <2>3. valid \subseteq Nat
      BY <1>1
    <2> HIDE DEF valid
    <2>4. Barriers!Min(valid) = k
      <3>1. PICK m : m = Barriers!Min(valid)
        OBVIOUS
      <3>2. m \in Nat /\ k \in Nat /\ m <= k /\ k <= m
        BY <2>1, <2>2, <2>3, <3>1
      <3>. QED
        BY <3>1, <3>2
    <2>. QED
      BY <1>2, <2>1, <2>4
  <1>. QED
    BY <1>5, <1>6

LEMMA ReportedLater ==
  ASSUME NEW events, OrderedPath(events), NEW S, S \subseteq DOMAIN events,
         NEW T, T \subseteq DOMAIN events, \A i \in S, j \in T : i < j, NEW side
  PROVE  Reported(events, S \cup T, side) =
           IF Reported(events, S, side) = Barriers!None THEN Reported(events, T, side)
           ELSE Reported(events, S, side)
  <1>1. DOMAIN events \subseteq Nat
    BY DEF OrderedPath
  <1>2. S \cup T \subseteq DOMAIN events
    OBVIOUS
  <1>3. ASSUME NEW U, U \subseteq DOMAIN events, NEW j \in U, events[j].valid
        PROVE  \E k \in U : events[k].valid /\ \A i \in U : events[i].valid => k <= i
    <2> DEFINE V == {i \in U : events[i].valid}
    <2>1. V \subseteq Nat /\ j \in V
      BY <1>1, <1>3
    <2>2. PICK k \in V : \A i \in V : k <= i
      <3> HIDE DEF V
      <3>. QED
        BY <2>1, Least
    <2>. QED
      BY <2>2
  <1>4. CASE \E j \in S : events[j].valid
    <2>1. PICK k \in S : events[k].valid /\ \A i \in S : events[i].valid => k <= i
      BY <1>3, <1>4
    <2>2. \A i \in S \cup T : events[i].valid => k <= i
      BY <1>1, <2>1
    <2>3. Reported(events, S, side) = Barriers!Reference(events[k], side)
      BY <2>1, ReportedIs
    <2>4. Reported(events, S \cup T, side) = Barriers!Reference(events[k], side)
      BY <1>2, <2>1, <2>2, ReportedIs
    <2>5. Reported(events, S, side) # Barriers!None
      BY <1>4, ReportedIs
    <2>. QED
      BY <2>3, <2>4, <2>5
  <1>5. CASE \A j \in S : ~events[j].valid
    <2>1. Reported(events, S, side) = Barriers!None
      BY <1>5, ReportedIs
    <2>2. CASE \A j \in T : ~events[j].valid
      <3>1. Reported(events, T, side) = Barriers!None
        BY <2>2, ReportedIs
      <3>2. Reported(events, S \cup T, side) = Barriers!None
        BY <1>2, <1>5, <2>2, ReportedIs
      <3>. QED
        BY <2>1, <3>1, <3>2
    <2>3. CASE \E j \in T : events[j].valid
      <3>1. PICK k \in T : events[k].valid /\ \A i \in T : events[i].valid => k <= i
        BY <1>3, <2>3
      <3>2. Reported(events, T, side) = Barriers!Reference(events[k], side)
        BY <3>1, ReportedIs
      <3>3. \A i \in S \cup T : events[i].valid => k <= i
        BY <1>5, <3>1
      <3>4. Reported(events, S \cup T, side) = Barriers!Reference(events[k], side)
        BY <1>2, <3>1, <3>3, ReportedIs
      <3>. QED
        BY <2>1, <3>2, <3>4
    <2>. QED
      BY <2>2, <2>3
  <1>. QED
    BY <1>4, <1>5

\* One group, field by field.
GroupTold(e, f, events, group, side, entry) ==
  /\ f = [side |-> side, entry |-> entry, hits |-> f.hits, triggers |-> f.triggers,
          fills |-> f.fills, terminal |-> Barriers!None]
  /\ \A tp \in Grid : f.hits[tp] =
       IF e.hits[tp] = Barriers!None
       THEN Reported(events, Winning(events, group, side, entry, tp), side)
       ELSE e.hits[tp]
  /\ \A sl \in Grid : f.triggers[sl] =
       IF e.triggers[sl] = Barriers!None
       THEN Reported(events, Stopping(events, group, side, entry, sl), side)
       ELSE e.triggers[sl]
  /\ \A sl \in Grid : f.fills[sl] =
       IF e.triggers[sl] # Barriers!None /\ e.fills[sl] = Barriers!None
       THEN Reported(events, {i \in group : events[i].ts >= e.triggers[sl].ts
                                            + Scenario["BASELINE"].stopLatency}, side)
       ELSE e.fills[sl]

LEMMA GroupIs ==
  ASSUME NEW e, NEW side, NEW entry, NEW events, NEW group,
         e = [side |-> side, entry |-> entry, hits |-> e.hits, triggers |-> e.triggers,
              fills |-> e.fills, terminal |-> Barriers!None],
         NEW f, f = Barriers!ProcessTimestampGroup(e, events, group)
  PROVE  GroupTold(e, f, events, group, side, entry)
  <1>1. PICK d : d = Barriers!FillPendingStops(e, events, group)
    OBVIOUS
  <1>2. e.side = side /\ e.entry = entry
    OBVIOUS
  <1>3. PICK fills : fills = [sl \in Grid |->
               IF e.triggers[sl] # Barriers!None /\ e.fills[sl] = Barriers!None
               THEN Reported(events, {i \in group : events[i].ts >= e.triggers[sl].ts
                                                    + Scenario["BASELINE"].stopLatency}, side)
               ELSE e.fills[sl]]
    OBVIOUS
  <1>11. d = [e EXCEPT !.fills = fills]
    BY <1>1, <1>2, <1>3, Zenon DEF Barriers!FillPendingStops, Reported
  <1>12. d = [side |-> side, entry |-> entry, hits |-> e.hits, triggers |-> e.triggers,
              fills |-> fills, terminal |-> Barriers!None]
    <2>1. PICK h, t, x, none : h = e.hits /\ t = e.triggers /\ x = e.fills /\ none = Barriers!None
      OBVIOUS
    <2>2. e = [side |-> side, entry |-> entry, hits |-> h, triggers |-> t, fills |-> x, terminal |-> none]
      BY <2>1
    <2>3. d = [side |-> side, entry |-> entry, hits |-> h, triggers |-> t, fills |-> fills, terminal |-> none]
      BY ONLY <1>11, <2>2
    <2>. QED
      BY <2>1, <2>3
  <1>4. d.fills = fills
    BY <1>12
  <1>5. f = Barriers!TouchThresholds(d, events, group)
    BY <1>1, Zenon DEF Barriers!ProcessTimestampGroup
  <1>6. PICK hits, triggers :
          /\ hits = [tp \in Grid |-> IF d.hits[tp] = Barriers!None
               THEN Reported(events, Winning(events, group, d.side, d.entry, tp), d.side)
               ELSE d.hits[tp]]
          /\ triggers = [sl \in Grid |-> IF d.triggers[sl] = Barriers!None
               THEN Reported(events, Stopping(events, group, d.side, d.entry, sl), d.side)
               ELSE d.triggers[sl]]
    OBVIOUS
  <1>7. d.side = side /\ d.entry = entry /\ d.hits = e.hits /\ d.triggers = e.triggers
    BY <1>12
  <1>8. /\ \A tp \in Grid : hits[tp] =
              IF e.hits[tp] = Barriers!None
              THEN Reported(events, Winning(events, group, side, entry, tp), side)
              ELSE e.hits[tp]
        /\ \A sl \in Grid : triggers[sl] =
              IF e.triggers[sl] = Barriers!None
              THEN Reported(events, Stopping(events, group, side, entry, sl), side)
              ELSE e.triggers[sl]
    BY <1>6, <1>7
  <1>9. f = [d EXCEPT !.hits = hits, !.triggers = triggers]
    BY <1>5, <1>6, Zenon DEF Barriers!TouchThresholds, Reported, Winning, Stopping
  <1>10. f = [side |-> side, entry |-> entry, hits |-> hits, triggers |-> triggers,
              fills |-> fills, terminal |-> Barriers!None]
    <2>1. PICK h, t, none : h = e.hits /\ t = e.triggers /\ none = Barriers!None
      OBVIOUS
    <2>2. d = [side |-> side, entry |-> entry, hits |-> h, triggers |-> t, fills |-> fills, terminal |-> none]
      BY <1>12, <2>1
    <2>3. f = [side |-> side, entry |-> entry, hits |-> hits, triggers |-> triggers,
               fills |-> fills, terminal |-> none]
      BY ONLY <1>9, <2>2
    <2>. QED
      BY <2>1, <2>3
  <1>13. f.fills = fills /\ f.hits = hits /\ f.triggers = triggers
    BY <1>10
  <1>14. f = [side |-> side, entry |-> entry, hits |-> f.hits, triggers |-> f.triggers,
              fills |-> f.fills, terminal |-> Barriers!None]
    BY <1>10, <1>13
  <1>15. \A tp \in Grid : f.hits[tp] =
              IF e.hits[tp] = Barriers!None
              THEN Reported(events, Winning(events, group, side, entry, tp), side)
              ELSE e.hits[tp]
    BY <1>8, <1>13
  <1>16. \A sl \in Grid : f.triggers[sl] =
              IF e.triggers[sl] = Barriers!None
              THEN Reported(events, Stopping(events, group, side, entry, sl), side)
              ELSE e.triggers[sl]
    BY <1>8, <1>13
  <1>17. \A sl \in Grid : f.fills[sl] =
              IF e.triggers[sl] # Barriers!None /\ e.fills[sl] = Barriers!None
              THEN Reported(events, {i \in group : events[i].ts >= e.triggers[sl].ts
                                                   + Scenario["BASELINE"].stopLatency}, side)
              ELSE e.fills[sl]
    BY <1>3, <1>13, Zenon
  <1>. QED
    BY <1>14, <1>15, <1>16, <1>17 DEF GroupTold

\* A pass that has seen some events processes a later group.
LEMMA PassedGroup ==
  ASSUME NEW events, OrderedPath(events), NEW side, NEW entry,
         NEW S, S \subseteq DOMAIN events, NEW group, group \subseteq DOMAIN events,
         NEW ts, \A i \in group : events[i].ts = ts,
         \A i \in S, j \in group : i < j /\ events[i].ts < ts,
         NEW e, Passed(e, events, S, side, entry),
         NEW f, f = Barriers!ProcessTimestampGroup(e, events, group)
  PROVE  Passed(f, events, S \cup group, side, entry)
  <1> DEFINE stops(T, sl) == Stopping(events, T, side, entry, sl)
             wins(T, tp) == Winning(events, T, side, entry, tp)
             all == S \cup group
  <1>1. /\ e = [side |-> side, entry |-> entry, hits |-> e.hits, triggers |-> e.triggers,
                fills |-> e.fills, terminal |-> Barriers!None]
        /\ \A tp \in Grid : e.hits[tp] = Reported(events, wins(S, tp), side)
        /\ \A sl \in Grid :
             /\ e.triggers[sl] = Reported(events, stops(S, sl), side)
             /\ e.fills[sl] = IF e.triggers[sl] = Barriers!None THEN Barriers!None
                              ELSE Reported(events, Filling(events, S, e.triggers[sl]), side)
    BY DEF Passed
  <1>2. /\ f = [side |-> side, entry |-> entry, hits |-> f.hits, triggers |-> f.triggers,
                fills |-> f.fills, terminal |-> Barriers!None]
        /\ \A tp \in Grid : f.hits[tp] =
              IF e.hits[tp] = Barriers!None
              THEN Reported(events, wins(group, tp), side) ELSE e.hits[tp]
        /\ \A sl \in Grid : f.triggers[sl] =
              IF e.triggers[sl] = Barriers!None
              THEN Reported(events, stops(group, sl), side) ELSE e.triggers[sl]
        /\ \A sl \in Grid : f.fills[sl] =
              IF e.triggers[sl] # Barriers!None /\ e.fills[sl] = Barriers!None
              THEN Reported(events, {i \in group : events[i].ts >= e.triggers[sl].ts
                                                   + Scenario["BASELINE"].stopLatency}, side)
              ELSE e.fills[sl]
    <2>1. e = [side |-> side, entry |-> entry, hits |-> e.hits, triggers |-> e.triggers,
               fills |-> e.fills, terminal |-> Barriers!None]
      BY <1>1
    <2>2. GroupTold(e, f, events, group, side, entry)
      BY <2>1, GroupIs
    <2>. QED
      BY <2>2, Zenon DEF GroupTold
  <1>3. ASSUME NEW tp \in Grid
        PROVE  f.hits[tp] = Reported(events, wins(all, tp), side)
    <2>1. wins(all, tp) = wins(S, tp) \cup wins(group, tp)
      BY DEF Winning
    <2>2. /\ wins(S, tp) \subseteq DOMAIN events /\ wins(group, tp) \subseteq DOMAIN events
          /\ \A i \in wins(S, tp), j \in wins(group, tp) : i < j
      BY DEF Winning
    <2>3. PICK A, B : A = wins(S, tp) /\ B = wins(group, tp)
      OBVIOUS
    <2>6. A \subseteq DOMAIN events /\ B \subseteq DOMAIN events /\ \A i \in A, j \in B : i < j
      BY <2>2, <2>3
    <2>4. Reported(events, A \cup B, side) =
            IF Reported(events, A, side) = Barriers!None THEN Reported(events, B, side)
            ELSE Reported(events, A, side)
      BY <2>6, ReportedLater
    <2>5. e.hits[tp] = Reported(events, A, side) /\ wins(all, tp) = A \cup B
      BY <1>1, <2>1, <2>3
    <2> HIDE DEF wins, all
    <2>. QED
      BY <1>2, <2>3, <2>4, <2>5
  <1>4. ASSUME NEW sl \in Grid
        PROVE  f.triggers[sl] = Reported(events, stops(all, sl), side)
    <2>1. stops(all, sl) = stops(S, sl) \cup stops(group, sl)
      BY DEF Stopping
    <2>2. /\ stops(S, sl) \subseteq DOMAIN events /\ stops(group, sl) \subseteq DOMAIN events
          /\ \A i \in stops(S, sl), j \in stops(group, sl) : i < j
      BY DEF Stopping
    <2>3. PICK A, B : A = stops(S, sl) /\ B = stops(group, sl)
      OBVIOUS
    <2>6. A \subseteq DOMAIN events /\ B \subseteq DOMAIN events /\ \A i \in A, j \in B : i < j
      BY <2>2, <2>3
    <2>4. Reported(events, A \cup B, side) =
            IF Reported(events, A, side) = Barriers!None THEN Reported(events, B, side)
            ELSE Reported(events, A, side)
      BY <2>6, ReportedLater
    <2>5. e.triggers[sl] = Reported(events, A, side) /\ stops(all, sl) = A \cup B
      BY <1>1, <2>1, <2>3
    <2> HIDE DEF stops, all
    <2>. QED
      BY <1>2, <2>3, <2>4, <2>5
  <1>5. ASSUME NEW sl \in Grid, e.triggers[sl] # Barriers!None
        PROVE  f.fills[sl] = Reported(events, Filling(events, all, e.triggers[sl]), side)
    <2>1. PICK t : t = e.triggers[sl]
      OBVIOUS
    <2>2. PICK k \in S : t.ts = events[k].ts
      <3>1. stops(S, sl) \subseteq S
        BY DEF Stopping
      <3>. HIDE DEF stops
      <3>2. PICK A : A = stops(S, sl)
        OBVIOUS
      <3>3. A \subseteq DOMAIN events /\ Reported(events, A, side) # Barriers!None
        BY <1>1, <1>5, <3>1, <3>2
      <3>4. PICK i \in A : events[i].valid
        BY <3>3, ReportedIs
      <3>5. PICK k \in A : events[k].valid /\ \A j \in A : events[j].valid => k <= j
        <4> DEFINE V == {j \in A : events[j].valid}
        <4>1. V \subseteq Nat /\ i \in V
          BY <3>3, <3>4 DEF OrderedPath
        <4>2. PICK k \in V : \A j \in V : k <= j
          <5> HIDE DEF V
          <5>. QED
            BY <4>1, Least
        <4>. QED
          BY <4>2
      <3>6. t = Barriers!Reference(events[k], side)
        BY <1>1, <2>1, <3>2, <3>3, <3>5, ReportedIs
      <3>7. t.ts = events[k].ts /\ k \in S
        BY <3>1, <3>2, <3>5, <3>6 DEF Barriers!Reference
      <3>. QED
        BY <3>7
    <2>3. \A j \in group : t.ts < events[j].ts
      BY <2>2
    <2> DEFINE late == {i \in group : events[i].ts >= t.ts + Scenario["BASELINE"].stopLatency}
    <2>4. late = Filling(events, group, t)
      BY <2>3 DEF Filling
    <2>5. Filling(events, all, t) = Filling(events, S, t) \cup late
      BY <2>4 DEF Filling
    <2>6. Filling(events, S, t) \subseteq S
      BY DEF Filling
    <2>7. PICK A, B : A = Filling(events, S, t) /\ B = late
      OBVIOUS
    <2>8. A \subseteq DOMAIN events /\ B \subseteq DOMAIN events /\ \A i \in A, j \in B : i < j
      BY <2>6, <2>7
    <2>9. Reported(events, A \cup B, side) =
            IF Reported(events, A, side) = Barriers!None THEN Reported(events, B, side)
            ELSE Reported(events, A, side)
      BY <2>8, ReportedLater
    <2>10. f.fills[sl] = IF e.fills[sl] = Barriers!None THEN Reported(events, late, side)
                         ELSE e.fills[sl]
      BY <1>2, <1>5, <2>1
    <2>11. e.fills[sl] = Reported(events, A, side)
      BY <1>1, <1>5, <2>1, <2>7
    <2> HIDE DEF late, all
    <2>. QED
      BY <2>1, <2>5, <2>7, <2>9, <2>10, <2>11
  <1>6. ASSUME NEW sl \in Grid
        PROVE  f.fills[sl] = IF f.triggers[sl] = Barriers!None THEN Barriers!None
                             ELSE Reported(events, Filling(events, all, f.triggers[sl]), side)
    <2>1. CASE e.triggers[sl] # Barriers!None
      <3>1. f.triggers[sl] = e.triggers[sl]
        BY <1>2, <2>1
      <3> HIDE DEF all
      <3>. QED
        BY <1>5, <2>1, <3>1
    <2>2. CASE e.triggers[sl] = Barriers!None
      <3>1. f.fills[sl] = Barriers!None
        BY <1>1, <1>2, <2>2
      <3>2. CASE f.triggers[sl] = Barriers!None
        BY <3>1, <3>2
      <3>3. CASE f.triggers[sl] # Barriers!None
        <4>1. PICK t : t = f.triggers[sl]
          OBVIOUS
        <4>2. t.ts = ts
          <5>1. PICK A : A = stops(group, sl)
            OBVIOUS
          <5>2. A \subseteq group
            BY <5>1 DEF Stopping
          <5>3. t = Reported(events, A, side)
            BY <1>2, <2>2, <4>1, <5>1
          <5>4. PICK i \in A : events[i].valid
            BY <3>3, <4>1, <5>2, <5>3, ReportedIs
          <5>5. PICK k \in A : events[k].valid /\ \A j \in A : events[j].valid => k <= j
            <6> DEFINE V == {j \in A : events[j].valid}
            <6>1. V \subseteq Nat /\ i \in V
              BY <5>2, <5>4 DEF OrderedPath
            <6>2. PICK k \in V : \A j \in V : k <= j
              <7> HIDE DEF V
              <7>. QED
                BY <6>1, Least
            <6>. QED
              BY <6>2
          <5>6. t = Barriers!Reference(events[k], side)
            BY <5>2, <5>3, <5>5, ReportedIs
          <5>. QED
            BY <5>2, <5>5, <5>6 DEF Barriers!Reference
        <4>3. \A i \in all : events[i].ts \in Nat /\ ~(events[i].ts > ts)
          <5>1. \A i \in all : events[i].ts \in Nat
            BY DEF OrderedPath
          <5>2. \A i \in group : events[i].ts = ts
            OBVIOUS
          <5>3. ASSUME NEW i \in S PROVE ~(events[i].ts > ts)
            <6>1. PICK j \in group : TRUE
              <7>1. group # {}
                <8>1. CASE group = {}
                  <9>1. stops(group, sl) = {}
                    BY <8>1 DEF Stopping
                  <9>2. PICK A : A = stops(group, sl) /\ A = {}
                    BY <9>1
                  <9>3. Reported(events, A, side) = Barriers!None
                    BY <9>2, ReportedIs
                  <9>. QED
                    BY <1>2, <2>2, <3>3, <9>2, <9>3
                <8>. QED
                  BY <8>1
              <7>. QED
                BY <7>1
            <6>2. events[i].ts < ts /\ events[i].ts \in Nat /\ events[j].ts \in Nat /\ events[j].ts = ts
              BY <5>1, <6>1
            <6>. QED
              BY <6>2
          <5>. QED
            BY <5>1, <5>2, <5>3
        <4>4. Filling(events, all, t) = {}
          BY <4>2, <4>3 DEF Filling
        <4>5. PICK none : none = Filling(events, all, t) /\ none = {}
          BY <4>4
        <4>6. Reported(events, none, side) = Barriers!None
          BY <4>5, ReportedIs
        <4> HIDE DEF all
        <4>. QED
          BY <3>1, <3>3, <4>1, <4>5, <4>6
      <3>. QED
        BY <3>2, <3>3
    <2>. QED
      BY <2>1, <2>2
  <1>. QED
    BY <1>2, <1>3, <1>4, <1>6 DEF Passed

\* The engine at event i: a group is processed at its last event.
Swept(e, events, i) ==
  IF i \in DOMAIN events /\ \A k \in Barriers!TimestampGroup(events, i) : k <= i
  THEN Barriers!ProcessTimestampGroup(e, events, Barriers!TimestampGroup(events, i)) ELSE e
Sweeps(f, events, side, entry, n) ==
  f = [i \in 0..n |-> IF i = 0 THEN Barriers!Engine(side, entry) ELSE Swept(f[i - 1], events, i)]

LEMMA SweepsExist ==
  ASSUME NEW events, NEW side, NEW entry, NEW n \in Nat
  PROVE  \E f : Sweeps(f, events, side, entry, n)
  <1> DEFINE Bad == {k \in 0..n : ~\E f : Sweeps(f, events, side, entry, k)}
             start == Barriers!Engine(side, entry)
  <1>. SUFFICES ASSUME Bad # {} PROVE FALSE
    OBVIOUS
  <1>1. PICK k \in Bad : \A j \in Bad : k <= j
    <2>1. Bad \subseteq Nat
      OBVIOUS
    <2> HIDE DEF Bad
    <2>. QED
      BY <2>1, Least
  <1>2. CASE k = 0
    <2> DEFINE f == [i \in 0..0 |-> start]
    <2>1. f = [i \in 0..0 |-> IF i = 0 THEN start ELSE Swept(f[i - 1], events, i)]
      OBVIOUS
    <2>. QED
      BY <1>2, <2>1 DEF Sweeps
  <1>3. CASE k # 0
    <2>1. k - 1 \in 0..n /\ k - 1 \notin Bad
      <3>1. k \in 0..n /\ k - 1 \in 0..n /\ ~(k <= k - 1)
        BY <1>3
      <3>. QED
        BY <1>1, <3>1
    <2>2. PICK g : Sweeps(g, events, side, entry, k - 1)
      BY <2>1
    <2> DEFINE f == [i \in 0..k |-> IF i = k THEN Swept(g[k - 1], events, k) ELSE g[i]]
    <2>3. \A i \in 0..k - 1 : g[i] = IF i = 0 THEN start ELSE Swept(g[i - 1], events, i)
      BY <2>2 DEF Sweeps
    <2>4. \A i \in 0..k : f[i] = IF i = 0 THEN start ELSE Swept(f[i - 1], events, i)
      <3>. SUFFICES ASSUME NEW i \in 0..k
                    PROVE  f[i] = IF i = 0 THEN start ELSE Swept(f[i - 1], events, i)
        OBVIOUS
      <3> HIDE DEF start
      <3>1. CASE i = k
        BY <1>3, <3>1
      <3>2. CASE i # k /\ i # 0
        <4>1. i \in 0..k - 1 /\ i - 1 \in 0..k /\ i - 1 # k
          BY <3>2
        <4>. QED
          BY <2>3, <3>2, <4>1
      <3>3. CASE i # k /\ i = 0
        <4>1. i \in 0..k - 1
          BY <3>3
        <4>. QED
          BY <2>3, <3>3, <4>1
      <3>. QED
        BY <3>1, <3>2, <3>3
    <2>5. f = [i \in 0..k |-> f[i]]
      OBVIOUS
    <2> HIDE DEF f
    <2>6. Sweeps(f, events, side, entry, k)
      BY <2>4, <2>5 DEF Sweeps
    <2>. QED
      BY <2>6
  <1>. QED
    BY <1>2, <1>3

LEMMA ReplayIs ==
  ASSUME NEW events, OrderedPath(events), NEW side, NEW entry
  PROVE  \E f, last :
           /\ last \in Nat /\ DOMAIN events \subseteq 1..last
           /\ \A i \in 0..last : f[i] = IF i = 0 THEN Barriers!Engine(side, entry)
                                        ELSE Swept(f[i - 1], events, i)
           /\ Barriers!Replay(side, entry, events) = f[last]
  <1> DEFINE last == Barriers!LastIndex(events)
             f == CHOOSE f : f = [i \in 0..last |->
                    IF i = 0 THEN Barriers!Engine(side, entry)
                    ELSE IF i \in DOMAIN events
                            /\ \A k \in Barriers!TimestampGroup(events, i) : k <= i
                         THEN Barriers!ProcessTimestampGroup(f[i - 1], events,
                                Barriers!TimestampGroup(events, i))
                         ELSE f[i - 1]]
  <1>1. Barriers!Replay(side, entry, events) = f[last]
    BY Zenon DEF Barriers!Replay
  <1>2. last \in Nat /\ DOMAIN events \subseteq 1..last
    <2>1. CASE DOMAIN events = {}
      <3>1. last = 0
        BY <2>1, Zenon DEF Barriers!LastIndex
      <3>. QED
        BY <2>1, <3>1
    <2>2. CASE DOMAIN events # {}
      <3>1. PICK n \in Nat : DOMAIN events \subseteq 1..n
        BY DEF OrderedPath
      <3>2. PICK D : D = DOMAIN events
        OBVIOUS
      <3>3. D \subseteq 0..n /\ D # {}
        BY <2>2, <3>1, <3>2
      <3>4. Max(D) \in D /\ \A k \in D : Max(D) >= k
        BY <3>3, MaxIs
      <3>5. Barriers!Max(D) = Max(D)
        BY Zenon DEF Barriers!Max, Max
      <3>6. last = Barriers!Max(D)
        BY <2>2, <3>2, Zenon DEF Barriers!LastIndex
      <3> HIDE DEF last
      <3>7. last \in D /\ \A k \in D : last >= k
        BY <3>4, <3>5, <3>6
      <3>. QED
        BY <3>1, <3>2, <3>7
    <2>. QED
      BY <2>1, <2>2
  <1>3. \E g : g = [i \in 0..last |->
                    IF i = 0 THEN Barriers!Engine(side, entry)
                    ELSE IF i \in DOMAIN events
                            /\ \A k \in Barriers!TimestampGroup(events, i) : k <= i
                         THEN Barriers!ProcessTimestampGroup(g[i - 1], events,
                                Barriers!TimestampGroup(events, i))
                         ELSE g[i - 1]]
    <2> HIDE DEF last
    <2>1. PICK g : Sweeps(g, events, side, entry, last)
      BY <1>2, SweepsExist
    <2>. QED
      BY <2>1, Zenon DEF Sweeps, Swept
  <1>4. f = [i \in 0..last |->
                    IF i = 0 THEN Barriers!Engine(side, entry)
                    ELSE IF i \in DOMAIN events
                            /\ \A k \in Barriers!TimestampGroup(events, i) : k <= i
                         THEN Barriers!ProcessTimestampGroup(f[i - 1], events,
                                Barriers!TimestampGroup(events, i))
                         ELSE f[i - 1]]
    BY <1>3, Zenon
  <1> HIDE DEF f, last
  <1>5. f = [i \in 0..last |-> IF i = 0 THEN Barriers!Engine(side, entry)
                               ELSE Swept(f[i - 1], events, i)]
    BY <1>4, Zenon DEF Swept
  <1>6. \A i \in 0..last : f[i] = IF i = 0 THEN Barriers!Engine(side, entry)
                                  ELSE Swept(f[i - 1], events, i)
    BY <1>5
  <1>. QED
    BY <1>1, <1>2, <1>6

\* The events whose whole group was read by event k.
ReadBy(events, k) ==
  {i \in DOMAIN events : \A j \in Barriers!TimestampGroup(events, i) : j <= k}

LEMMA SweptPasses ==
  ASSUME NEW events, OrderedPath(events), NEW side, NEW entry, NEW k \in Nat \ {0},
         NEW e, Passed(e, events, ReadBy(events, k - 1), side, entry)
  PROVE  Passed(Swept(e, events, k), events, ReadBy(events, k), side, entry)
  <1> DEFINE group(i) == Barriers!TimestampGroup(events, i)
  <1>1. /\ DOMAIN events \subseteq Nat
        /\ \A i \in DOMAIN events : events[i].ts \in Nat
        /\ \A i, j \in DOMAIN events : i <= j => events[i].ts <= events[j].ts
    BY DEF OrderedPath
  <1>2. \A i : group(i) = {j \in DOMAIN events : events[j].ts = events[i].ts}
    BY DEF Barriers!TimestampGroup
  <1> HIDE DEF group
  <1>3. \A i : ReadBy(events, i) = {l \in DOMAIN events : \A j \in group(l) : j <= i}
    BY DEF ReadBy, group
  <1>4. CASE k \in DOMAIN events /\ \A j \in group(k) : j <= k
    <2>1. ReadBy(events, k) = ReadBy(events, k - 1) \cup group(k)
      <3>1. ASSUME NEW i \in ReadBy(events, k), i \notin group(k) PROVE i \in ReadBy(events, k - 1)
        <4>1. i \in DOMAIN events /\ \A j \in group(i) : j <= k
          BY <1>3, <3>1
        <4>2. k \notin group(i)
          BY <1>2, <1>4, <3>1, <4>1
        <4>3. \A j \in group(i) : j <= k - 1
          <5>. SUFFICES ASSUME NEW j \in group(i) PROVE j <= k - 1
            OBVIOUS
          <5>1. j \in Nat /\ j <= k /\ j # k
            BY <1>1, <1>2, <4>1, <4>2
          <5>. QED
            BY <5>1
        <4>. QED
          BY <1>3, <4>1, <4>3
      <3>2. ASSUME NEW i \in ReadBy(events, k - 1) PROVE i \in ReadBy(events, k)
        <4>1. i \in DOMAIN events /\ \A j \in group(i) : j <= k - 1 /\ j \in Nat
          BY <1>1, <1>2, <1>3
        <4>2. \A j \in group(i) : j <= k
          BY <4>1
        <4>. QED
          BY <1>3, <4>1, <4>2
      <3>3. ASSUME NEW i \in group(k) PROVE i \in ReadBy(events, k)
        <4>1. i \in DOMAIN events /\ group(i) = group(k)
          BY <1>2, <3>3
        <4>. QED
          BY <1>3, <1>4, <4>1
      <3>. QED
        BY <3>1, <3>2, <3>3
    <2>2. ASSUME NEW i \in ReadBy(events, k - 1), NEW j \in group(k)
          PROVE  i < j /\ events[i].ts < events[k].ts
      <3>1. /\ i \in DOMAIN events /\ j \in DOMAIN events /\ i \in group(i)
            /\ events[j].ts = events[k].ts
        BY <1>2, <1>3
      <3>2. i \in Nat /\ i <= k - 1 /\ j \in Nat
        BY <1>1, <1>3, <3>1
      <3>3. i <= k /\ ~(k <= k - 1)
        BY <3>2
      <3>4. events[i].ts <= events[k].ts
        BY <1>1, <1>4, <3>1, <3>3
      <3>5. events[i].ts # events[k].ts
        <4>1. k \notin group(i)
          BY <1>3, <3>3
        <4>. QED
          BY <1>2, <1>4, <4>1
      <3>6. events[i].ts < events[k].ts
        BY <1>1, <1>4, <3>1, <3>4, <3>5
      <3>7. ~(j <= i)
        <4>1. j <= i => events[j].ts <= events[i].ts
          BY <1>1, <3>1
        <4>. QED
          BY <1>1, <3>1, <3>6, <4>1
      <3>. QED
        BY <3>2, <3>6, <3>7
    <2>3. Swept(e, events, k) = Barriers!ProcessTimestampGroup(e, events, group(k))
      BY <1>4, Zenon DEF Swept, group
    <2>4. /\ ReadBy(events, k - 1) \subseteq DOMAIN events /\ group(k) \subseteq DOMAIN events
          /\ \A i \in group(k) : events[i].ts = events[k].ts
      BY <1>2, <1>3
    <2>5. PICK S, G, ts : S = ReadBy(events, k - 1) /\ G = group(k) /\ ts = events[k].ts
      OBVIOUS
    <2>6. PICK f : f = Barriers!ProcessTimestampGroup(e, events, G)
      OBVIOUS
    <2>7. Passed(f, events, S \cup G, side, entry)
      <3>1. S \subseteq DOMAIN events /\ G \subseteq DOMAIN events /\ \A i \in G : events[i].ts = ts
        BY <2>4, <2>5
      <3>2. \A i \in S, j \in G : i < j /\ events[i].ts < ts
        BY <2>2, <2>5
      <3>3. Passed(e, events, S, side, entry)
        BY <2>5
      <3>. QED
        BY <2>6, <3>1, <3>2, <3>3, PassedGroup
    <2>. QED
      BY <2>1, <2>3, <2>5, <2>6, <2>7
  <1>5. CASE ~(k \in DOMAIN events /\ \A j \in group(k) : j <= k)
    <2>1. Swept(e, events, k) = e
      BY <1>5, Zenon DEF Swept, group
    <2>2. ReadBy(events, k) = ReadBy(events, k - 1)
      <3>1. ASSUME NEW i \in ReadBy(events, k) PROVE i \in ReadBy(events, k - 1)
        <4>1. i \in DOMAIN events /\ \A j \in group(i) : j <= k
          BY <1>3, <3>1
        <4>2. k \notin group(i)
          <5>. SUFFICES ASSUME k \in group(i) PROVE FALSE
            OBVIOUS
          <5>1. k \in DOMAIN events /\ group(i) = group(k)
            BY <1>2
          <5>. QED
            BY <1>5, <4>1, <5>1
        <4>3. \A j \in group(i) : j <= k - 1
          <5>. SUFFICES ASSUME NEW j \in group(i) PROVE j <= k - 1
            OBVIOUS
          <5>1. j \in Nat /\ j <= k /\ j # k
            BY <1>1, <1>2, <4>1, <4>2
          <5>. QED
            BY <5>1
        <4>. QED
          BY <1>3, <4>1, <4>3
      <3>2. ASSUME NEW i \in ReadBy(events, k - 1) PROVE i \in ReadBy(events, k)
        <4>1. i \in DOMAIN events /\ \A j \in group(i) : j <= k - 1 /\ j \in Nat
          BY <1>1, <1>2, <1>3
        <4>2. \A j \in group(i) : j <= k
          BY <4>1
        <4>. QED
          BY <1>3, <4>1, <4>2
      <3>. QED
        BY <3>1, <3>2
    <2>. QED
      BY <2>1, <2>2
  <1>. QED
    BY <1>4, <1>5

\* A replay of the barrier engine has processed its whole path.
LEMMA ReplayPasses ==
  ASSUME NEW events, OrderedPath(events), NEW side, NEW entry
  PROVE  Passed(Barriers!Replay(side, entry, events), events, DOMAIN events, side, entry)
  <1>1. PICK f, last :
          /\ last \in Nat /\ DOMAIN events \subseteq 1..last
          /\ \A i \in 0..last : f[i] = IF i = 0 THEN Barriers!Engine(side, entry)
                                       ELSE Swept(f[i - 1], events, i)
          /\ Barriers!Replay(side, entry, events) = f[last]
    BY ReplayIs
  <1> DEFINE Bad == {k \in 0..last : ~Passed(f[k], events, ReadBy(events, k), side, entry)}
  <1>2. Passed(f[0], events, ReadBy(events, 0), side, entry)
    <2>1. f[0] = Barriers!Engine(side, entry)
      BY <1>1
    <2>2. ReadBy(events, 0) = {}
      <3>1. \A i \in DOMAIN events : i \in Barriers!TimestampGroup(events, i) /\ ~(i <= 0)
        BY DEF Barriers!TimestampGroup, OrderedPath
      <3>. QED
        BY <3>1 DEF ReadBy
    <2>3. PICK none : none = {}
      OBVIOUS
    <2>4. Reported(events, none, side) = Barriers!None
      BY <2>3, ReportedIs
    <2>5. /\ \A tp : Winning(events, none, side, entry, tp) = none
          /\ \A sl : Stopping(events, none, side, entry, sl) = none
      BY <2>3 DEF Winning, Stopping
    <2>6. PICK e, h, n : e = f[0] /\ h = [tp \in Grid |-> Barriers!None] /\ n = Barriers!None
      OBVIOUS
    <2>7. e = [side |-> side, entry |-> entry, hits |-> h, triggers |-> h, fills |-> h, terminal |-> n]
      BY <2>1, <2>6 DEF Barriers!Engine
    <2>8. e.hits = h /\ e.triggers = h /\ e.fills = h
      BY <2>7
    <2>9. e = [side |-> side, entry |-> entry, hits |-> e.hits, triggers |-> e.triggers,
               fills |-> e.fills, terminal |-> Barriers!None]
      BY <2>6, <2>7, <2>8
    <2>10. \A tp \in Grid : h[tp] = Barriers!None
      BY <2>6
    <2>11. Passed(e, events, none, side, entry)
      BY <2>4, <2>5, <2>8, <2>9, <2>10 DEF Passed
    <2>. QED
      BY <2>2, <2>3, <2>6, <2>11
  <1>3. Bad = {}
    <2>. SUFFICES ASSUME Bad # {} PROVE FALSE
      OBVIOUS
    <2>1. PICK k \in Bad : \A j \in Bad : k <= j
      <3>1. Bad \subseteq Nat
        OBVIOUS
      <3> HIDE DEF Bad
      <3>. QED
        BY <3>1, Least
    <2>2. k # 0
      BY <1>2
    <2>3. k \in Nat \ {0} /\ k - 1 \in 0..last /\ ~(k <= k - 1) /\ k \in 0..last
      BY <1>1, <2>2
    <2>4. Passed(f[k - 1], events, ReadBy(events, k - 1), side, entry)
      <3>1. k - 1 \notin Bad
        <4> HIDE DEF Bad
        <4>. QED
          BY <2>1, <2>3
      <3>. QED
        BY <2>3, <3>1
    <2>5. f[k] = Swept(f[k - 1], events, k)
      BY <1>1, <2>2, <2>3
    <2>6. PICK e : e = f[k - 1]
      OBVIOUS
    <2>7. Passed(Swept(e, events, k), events, ReadBy(events, k), side, entry)
      BY <2>3, <2>4, <2>6, SweptPasses
    <2>. QED
      BY <2>5, <2>6, <2>7
  <1>4. ReadBy(events, last) = DOMAIN events
    <2>1. \A i, j : j \in Barriers!TimestampGroup(events, i) => j \in DOMAIN events
      BY DEF Barriers!TimestampGroup
    <2>2. \A j \in DOMAIN events : j <= last
      BY <1>1
    <2>. QED
      BY <2>1, <2>2 DEF ReadBy
  <1>5. last \in 0..last
    BY <1>1
  <1>6. Passed(f[last], events, ReadBy(events, last), side, entry)
    BY <1>3, <1>5
  <1>. QED
    BY <1>1, <1>4, <1>6

-----------------------------------------------------------------------------
(* The pass of the barrier engine over events of the stream.               *)

\* What the barrier engine keeps of event i.
Noted(i, side) == IF i = 0 THEN Barriers!None ELSE [ts |-> Time(i), price |-> Executable(i, side)]

\* Events of the stream, by their position.
Excerpt(events) ==
  DOMAIN events \subseteq 1..Len(stream) /\ \A i \in DOMAIN events : events[i] = stream[i]

\* The valid events of D that touch a stop or a target of q, and those that may fill the stop
\* touched at t.
StopsIn(q, sl, D) == {k \in D : Valid(k) /\ sl <= Against(q, k)}
TargetsIn(q, tp, D) ==
  {k \in D : Valid(k) /\ tp <= -Against(q, k) - Scenario[q.scenario].tradeThrough}
FillsIn(q, t, D) ==
  {k \in D : /\ Valid(k) /\ Time(k) > Time(t)
             /\ Time(k) >= Time(t) + Scenario[q.scenario].stopLatency}

\* The barrier engine after it has read the events of D for q.
Reads(e, q, D) ==
  /\ e = [side |-> Side(q.signal), entry |-> q.price, hits |-> e.hits, triggers |-> e.triggers,
          fills |-> e.fills, terminal |-> Barriers!None]
  /\ \A tp \in Grid : e.hits[tp] = Noted(FirstOf(TargetsIn(q, tp, D)), Side(q.signal))
  /\ \A sl \in Grid :
       LET t == FirstOf(StopsIn(q, sl, D))
       IN  /\ e.triggers[sl] = Noted(t, Side(q.signal))
           /\ e.fills[sl] = IF t = 0 THEN Barriers!None
                            ELSE Noted(FirstOf(FillsIn(q, t, D)), Side(q.signal))

LEMMA ExcerptIs ==
  ASSUME Buffered, NEW events, Excerpt(events)
  PROVE  OrderedPath(events)
  <1>1. /\ Len(stream) \in Nat /\ DOMAIN stream = 1..Len(stream)
        /\ \A i \in 1..Len(stream) : Time(i) \in Nat
        /\ \A i, j \in DOMAIN stream : i <= j => Time(i) <= Time(j)
    BY StreamTypes DEF Buffered
  <1>2. /\ DOMAIN events \subseteq 1..Len(stream)
        /\ \A i \in DOMAIN events : events[i].ts = Time(i)
    BY DEF Excerpt, Time
  <1>3. DOMAIN events \subseteq Nat \ {0}
    BY <1>1, <1>2
  <1>. QED
    BY <1>1, <1>2, <1>3 DEF OrderedPath

LEMMA ReportedReads ==
  ASSUME Buffered, NEW events, Excerpt(events), NEW S, S \subseteq DOMAIN events, NEW side
  PROVE  Reported(events, S, side) = Noted(FirstOf({i \in S : Valid(i)}), side)
  <1> DEFINE V == {i \in S : Valid(i)}
  <1>1. OrderedPath(events)
    BY ExcerptIs
  <1>2. \A i \in S : /\ i \in Nat \ {0} /\ (Valid(i) <=> events[i].valid)
                     /\ Barriers!Reference(events[i], side) = [ts |-> Time(i), price |-> Executable(i, side)]
    <2>. SUFFICES ASSUME NEW i \in S
                  PROVE  /\ i \in Nat \ {0} /\ (Valid(i) <=> events[i].valid)
                         /\ Barriers!Reference(events[i], side) = [ts |-> Time(i), price |-> Executable(i, side)]
      OBVIOUS
    <2>1. i \in 1..Len(stream) /\ events[i] = stream[i]
      BY DEF Excerpt
    <2>2. i \in Nat \ {0}
      BY <2>1
    <2>. QED
      BY <2>1, <2>2 DEF Valid, Time, Executable, Barriers!Reference, Barriers!Executable
  <1>3. V \subseteq Nat \ {0}
    BY <1>2
  <1>4. CASE V = {}
    <2>1. FirstOf(V) = 0
      <3> HIDE DEF V
      <3>. QED
        BY <1>4 DEF FirstOf
    <2>2. \A i \in S : ~events[i].valid
      BY <1>2, <1>4
    <2>3. Reported(events, S, side) = Barriers!None
      BY <1>1, <2>2, ReportedIs
    <2>. QED
      BY <2>1, <2>3 DEF Noted
  <1>5. CASE V # {}
    <2>1. PICK k : k = FirstOf(V)
      OBVIOUS
    <2>2. k \in V /\ \A i \in V : k <= i
      <3> HIDE DEF V
      <3>. QED
        BY <1>3, <1>5, <2>1, FirstOfIs
    <2>3. k \in S /\ events[k].valid /\ \A i \in S : events[i].valid => k <= i
      BY <1>2, <2>2
    <2>4. Reported(events, S, side) = Barriers!Reference(events[k], side)
      BY <1>1, <2>3, ReportedIs
    <2>5. k # 0 /\ Barriers!Reference(events[k], side) = [ts |-> Time(k), price |-> Executable(k, side)]
      BY <1>2, <2>3
    <2> HIDE DEF V
    <2>6. Noted(k, side) = [ts |-> Time(k), price |-> Executable(k, side)]
      BY <2>5 DEF Noted
    <2>7. Reported(events, S, side) = Noted(k, side)
      BY <2>4, <2>5, <2>6
    <2>. QED
      BY <2>1, <2>7 DEF V
  <1>. QED
    BY <1>4, <1>5

\* The replay of a position over events of the stream.
LEMMA ReplayReads ==
  ASSUME Buffered, NEW events, Excerpt(events), NEW q, q.scenario = "BASELINE", q.price \in Int
  PROVE  Reads(Barriers!Replay(Side(q.signal), q.price, events), q, DOMAIN events)
  <1>1. PICK e, side, entry, D :
          /\ e = Barriers!Replay(Side(q.signal), q.price, events)
          /\ side = Side(q.signal) /\ entry = q.price /\ D = DOMAIN events
    OBVIOUS
  <1>2. OrderedPath(events)
    BY ExcerptIs
  <1>3. Passed(e, events, D, side, entry)
    <2>1. Passed(Barriers!Replay(side, entry, events), events, DOMAIN events, side, entry)
      BY <1>2, ReplayPasses
    <2>. QED
      BY <1>1, <2>1
  <1>4. /\ e = [side |-> side, entry |-> entry, hits |-> e.hits, triggers |-> e.triggers,
                fills |-> e.fills, terminal |-> Barriers!None]
        /\ \A tp \in Grid : e.hits[tp] = Reported(events, Winning(events, D, side, entry, tp), side)
        /\ \A sl \in Grid :
             /\ e.triggers[sl] = Reported(events, Stopping(events, D, side, entry, sl), side)
             /\ e.fills[sl] = IF e.triggers[sl] = Barriers!None THEN Barriers!None
                              ELSE Reported(events, Filling(events, D, e.triggers[sl]), side)
    BY <1>3 DEF Passed
  <1>5. \A i \in D : /\ i \in 1..Len(stream) /\ events[i] = stream[i] /\ stream[i] \in Quote
                     /\ Time(i) = events[i].ts /\ Time(i) \in Nat
    <2>. SUFFICES ASSUME NEW i \in D
                  PROVE  /\ i \in 1..Len(stream) /\ events[i] = stream[i] /\ stream[i] \in Quote
                         /\ Time(i) = events[i].ts /\ Time(i) \in Nat
      OBVIOUS
    <2>1. i \in 1..Len(stream) /\ events[i] = stream[i]
      BY <1>1 DEF Excerpt
    <2>2. stream[i] \in Quote
      BY <2>1 DEF Buffered
    <2>. QED
      BY <2>1, <2>2, StreamTypes DEF Time, Buffered
  <1>6. \A i \in D : LET at == Barriers!Executable(events[i], side)
                     IN  /\ Barriers!StopCapacity(side, entry, at) = Against(q, i)
                         /\ Barriers!TakeProfitCapacity(side, entry, at)
                              = -Against(q, i) - Scenario[q.scenario].tradeThrough
    <2>. SUFFICES ASSUME NEW i \in D, NEW at, at = Barriers!Executable(events[i], side)
                  PROVE  /\ Barriers!StopCapacity(side, entry, at) = Against(q, i)
                         /\ Barriers!TakeProfitCapacity(side, entry, at)
                              = -Against(q, i) - Scenario["BASELINE"].tradeThrough
      OBVIOUS
    <2>1. at = Executable(i, side) /\ at \in Int
      <3>1. events[i] = stream[i] /\ stream[i].bid \in Int /\ stream[i].ask \in Int
        BY <1>5 DEF Quote
      <3>. QED
        BY <3>1 DEF Barriers!Executable, Executable
    <2>2. Against(q, i) = Loss(side, entry, at)
      BY <1>1, <2>1 DEF Against
    <2>3. entry \in Int
      BY <1>1
    <2>4. Loss(side, entry, at) = IF side = "LONG" THEN entry - at ELSE at - entry
      BY DEF Loss
    <2>5. Barriers!Gain(side, entry, at) = IF side = "LONG" THEN at - entry ELSE entry - at
      BY DEF Barriers!Gain
    <2>6. -Barriers!Gain(side, entry, at) = Loss(side, entry, at)
          /\ Barriers!Gain(side, entry, at) = -Loss(side, entry, at)
      BY <2>1, <2>3, <2>4, <2>5
    <2>. QED
      BY <2>2, <2>6 DEF Barriers!StopCapacity, Barriers!TakeProfitCapacity
  <1>7. ASSUME NEW tp \in Grid
        PROVE  e.hits[tp] = Noted(FirstOf(TargetsIn(q, tp, D)), side)
    <2>1. PICK S : S = Winning(events, D, side, entry, tp)
      OBVIOUS
    <2>2. S \subseteq DOMAIN events
      BY <1>1, <2>1 DEF Winning
    <2>3. Reported(events, S, side) = Noted(FirstOf({i \in S : Valid(i)}), side)
      BY <2>2, ReportedReads
    <2>4. {i \in S : Valid(i)} = TargetsIn(q, tp, D)
      BY <1>6, <2>1 DEF Winning, TargetsIn
    <2>. QED
      BY <1>4, <2>1, <2>3, <2>4
  <1>8. ASSUME NEW sl \in Grid
        PROVE  e.triggers[sl] = Noted(FirstOf(StopsIn(q, sl, D)), side)
    <2>1. PICK S : S = Stopping(events, D, side, entry, sl)
      OBVIOUS
    <2>2. S \subseteq DOMAIN events
      BY <1>1, <2>1 DEF Stopping
    <2>3. Reported(events, S, side) = Noted(FirstOf({i \in S : Valid(i)}), side)
      BY <2>2, ReportedReads
    <2>4. {i \in S : Valid(i)} = StopsIn(q, sl, D)
      BY <1>6, <2>1 DEF Stopping, StopsIn
    <2>. QED
      BY <1>4, <2>1, <2>3, <2>4
  <1>9. ASSUME NEW sl \in Grid, NEW t, t = FirstOf(StopsIn(q, sl, D))
        PROVE  e.fills[sl] = IF t = 0 THEN Barriers!None ELSE Noted(FirstOf(FillsIn(q, t, D)), side)
    <2>1. e.triggers[sl] = Noted(t, side)
      BY <1>8, <1>9
    <2>2. CASE t = 0
      <3>1. e.triggers[sl] = Barriers!None
        BY <2>1, <2>2 DEF Noted
      <3>. QED
        BY <1>4, <2>2, <3>1
    <2>3. CASE t # 0
      <3>1. StopsIn(q, sl, D) \subseteq D /\ D \subseteq Nat \ {0}
        BY <1>5 DEF StopsIn
      <3>2. t \in D
        <4>1. PICK S : S = StopsIn(q, sl, D)
          OBVIOUS
        <4>2. S \subseteq Nat \ {0} /\ S \subseteq D /\ t = FirstOf(S)
          BY <1>9, <3>1, <4>1
        <4>. QED
          BY <2>3, <4>2, FirstOfIs
      <3>3. Noted(t, side) = [ts |-> Time(t), price |-> Executable(t, side)] /\ Time(t) \in Nat
        BY <1>5, <2>3, <3>2 DEF Noted
      <3>4. PICK u : u = e.triggers[sl] /\ u.ts = Time(t)
        BY <2>1, <3>3
      <3>5. u # Barriers!None
        BY <3>3, <3>4 DEF Barriers!None
      <3>6. PICK S : S = Filling(events, D, u)
        OBVIOUS
      <3>7. S \subseteq DOMAIN events
        BY <1>1, <3>6 DEF Filling
      <3>8. Reported(events, S, side) = Noted(FirstOf({i \in S : Valid(i)}), side)
        BY <3>7, ReportedReads
      <3>9. {i \in S : Valid(i)} = FillsIn(q, t, D)
        BY <1>5, <3>4, <3>6 DEF Filling, FillsIn
      <3>10. e.fills[sl] = Reported(events, S, side)
        BY <1>4, <3>4, <3>5, <3>6
      <3>. QED
        BY <2>3, <3>8, <3>9, <3>10
    <2>. QED
      BY <2>2, <2>3
  <1>10. Reads(e, q, D)
    BY <1>1, <1>4, <1>7, <1>8, <1>9 DEF Reads
  <1>. QED
    BY <1>1, <1>10

-----------------------------------------------------------------------------
(* The surface of a position, read off the stream.                         *)

\* A baseline position, and the part of its path that a terminal quote is not.
Baseline(q) ==
  /\ "BASELINE" \in Scenarios /\ q.scenario = "BASELINE"
  /\ q.signal \in Signals /\ q.price \in Int /\ q.entry \in Nat
Ordinary(q, n) == {k \in Path(q, n) : ~stream[k].terminal}

LEMMA PathIn ==
  ASSUME NEW q, q.entry \in Nat, NEW n \in Nat, NEW m \in Nat, n <= m
  PROVE  Path(q, n) \subseteq 1..m
BY DEF Path

LEMMA PathReads ==
  ASSUME Buffered, NEW q, Baseline(q), NEW n \in 0..Len(stream),
         NEW path, path = PathAfter(q.signal, q.entry, n)
  PROVE  /\ Excerpt(path) /\ DOMAIN path = Path(q, n)
         /\ Reads(Barriers!Replay(Side(q.signal), q.price, WithoutTerminal(path)), q, Ordinary(q, n))
  <1>1. Len(stream) \in Nat /\ n \in Nat /\ n <= Len(stream)
    BY StreamTypes DEF Buffered
  <1>2. path = [i \in Path(q, n) |-> stream[i]]
    BY Zenon DEF PathAfter, Path
  <1>3. Path(q, n) \subseteq 1..Len(stream)
    BY <1>1, PathIn DEF Baseline
  <1>4. DOMAIN path = Path(q, n) /\ \A i \in Path(q, n) : path[i] = stream[i]
    BY <1>2
  <1>5. PICK events, D : events = WithoutTerminal(path) /\ D = Ordinary(q, n)
    OBVIOUS
  <1>6. {i \in DOMAIN path : ~path[i].terminal} = D
    BY <1>4, <1>5 DEF Ordinary
  <1>7. events = [i \in D |-> path[i]]
    BY <1>5, <1>6, Zenon DEF WithoutTerminal, Restrict
  <1>8. D \subseteq Path(q, n)
    BY <1>5 DEF Ordinary
  <1>9. DOMAIN events = D /\ \A i \in D : events[i] = stream[i]
    BY <1>4, <1>7, <1>8
  <1>10. Excerpt(events) /\ Excerpt(path)
    BY <1>3, <1>4, <1>8, <1>9 DEF Excerpt
  <1>11. Reads(Barriers!Replay(Side(q.signal), q.price, events), q, DOMAIN events)
    BY <1>10, ReplayReads DEF Baseline
  <1>. QED
    BY <1>4, <1>5, <1>9, <1>10, <1>11

\* What the surface of q says after the first n events.
SurfaceTold(e, q, n) ==
  /\ e.side = Side(q.signal) /\ e.entry = q.price
  /\ e.terminal = Noted(FirstOf(Terminals(Path(q, n))), Side(q.signal))
  /\ \A tp \in Grid : e.hits[tp] = Noted(FirstOf(TargetTouches(q, tp, n)), Side(q.signal))
  /\ \A sl \in Grid :
       LET t == FirstOf(StopTouches(q, sl, n))
       IN  /\ e.triggers[sl] = Noted(t, Side(q.signal))
           /\ e.fills[sl] = IF t = 0 THEN Barriers!None
                            ELSE Noted(FirstOf(Fills(q, t, n)), Side(q.signal))

\* Before a terminal quote, the surface is that of the ordinary quotes.
LEMMA OrdinaryTouches ==
  ASSUME NEW q, NEW n
  PROVE  /\ \A tp : TargetsIn(q, tp, Ordinary(q, n)) = TargetTouches(q, tp, n)
         /\ \A sl : StopsIn(q, sl, Ordinary(q, n)) = StopTouches(q, sl, n)
         /\ \A t : FillsIn(q, t, Ordinary(q, n)) = {k \in Fills(q, t, n) : ~stream[k].terminal}
  <1>1. \A tp : TargetsIn(q, tp, Ordinary(q, n)) = TargetTouches(q, tp, n)
    BY DEF TargetsIn, Ordinary, TargetTouches, Quotes
  <1>2. \A sl : StopsIn(q, sl, Ordinary(q, n)) = StopTouches(q, sl, n)
    BY DEF StopsIn, Ordinary, StopTouches, Quotes
  <1>3. \A t : FillsIn(q, t, Ordinary(q, n)) = {k \in Fills(q, t, n) : ~stream[k].terminal}
    BY DEF FillsIn, Ordinary, Fills
  <1>. QED
    BY <1>1, <1>2, <1>3

LEMMA NotedIs ==
  ASSUME Buffered, NEW i \in 1..Len(stream), NEW side
  PROVE  /\ Noted(i, side) = [ts |-> Time(i), price |-> Executable(i, side)]
         /\ Noted(i, side).ts = Time(i) /\ Noted(i, side).price = Executable(i, side)
         /\ Noted(i, side) # Barriers!None
         /\ Time(i) \in Nat
  <1>1. Time(i) \in Nat /\ i # 0
    BY StreamTypes DEF Buffered
  <1>. QED
    BY <1>1 DEF Noted, Barriers!None

LEMMA SurfaceIs ==
  ASSUME Buffered, Dated, NEW q, Baseline(q), NEW n \in 0..Len(stream),
         NEW path, path = PathAfter(q.signal, q.entry, n)
  PROVE  SurfaceTold(Surface(q.signal, q.price, path), q, n)
  <1>1. Len(stream) \in Nat /\ n \in Nat /\ n <= Len(stream) /\ DOMAIN stream = 1..Len(stream)
    BY StreamTypes DEF Buffered
  <1>2. PICK P : P = Path(q, n)
    OBVIOUS
  <1>3. P \subseteq 1..Len(stream)
    BY <1>1, <1>2, PathIn DEF Baseline
  <1>14. P \subseteq Nat \ {0}
    BY <1>1, <1>3
  <1>4. PICK e, side, D : /\ e = Barriers!Replay(Side(q.signal), q.price, WithoutTerminal(path))
                          /\ side = Side(q.signal) /\ D = Ordinary(q, n)
    OBVIOUS
  <1>5. Excerpt(path) /\ DOMAIN path = P /\ Reads(e, q, D)
    BY <1>2, <1>4, PathReads
  <1>6. \A i \in P : path[i] = stream[i]
    BY <1>5 DEF Excerpt
  <1>7. PICK T : T = FirstOf(Terminals(P))
    OBVIOUS
  <1>8. {i \in DOMAIN path : path[i].terminal} = Terminals(P)
    BY <1>5, <1>6 DEF Terminals
  <1>9. Surface(q.signal, q.price, path) =
          IF T = 0 THEN e ELSE Barriers!Liquidate(e, path, T)
    BY <1>4, <1>7, <1>8, Zenon DEF Surface
  <1>10. /\ e = [side |-> side, entry |-> q.price, hits |-> e.hits, triggers |-> e.triggers,
                 fills |-> e.fills, terminal |-> Barriers!None]
         /\ \A tp \in Grid : e.hits[tp] = Noted(FirstOf(TargetTouches(q, tp, n)), side)
         /\ \A sl \in Grid : e.triggers[sl] = Noted(FirstOf(StopTouches(q, sl, n)), side)
         /\ \A sl \in Grid : FirstOf(StopTouches(q, sl, n)) = 0 => e.fills[sl] = Barriers!None
         /\ \A sl \in Grid : FirstOf(StopTouches(q, sl, n)) # 0 =>
              e.fills[sl] = Noted(FirstOf({k \in Fills(q, FirstOf(StopTouches(q, sl, n)), n) :
                                             ~stream[k].terminal}), side)
    <2>1. e = [side |-> side, entry |-> q.price, hits |-> e.hits, triggers |-> e.triggers,
               fills |-> e.fills, terminal |-> Barriers!None]
      BY <1>4, <1>5 DEF Reads
    <2>2. /\ \A tp : TargetsIn(q, tp, D) = TargetTouches(q, tp, n)
          /\ \A sl : StopsIn(q, sl, D) = StopTouches(q, sl, n)
          /\ \A t : FillsIn(q, t, D) = {k \in Fills(q, t, n) : ~stream[k].terminal}
      BY <1>4, OrdinaryTouches
    <2>3. \A tp \in Grid : e.hits[tp] = Noted(FirstOf(TargetTouches(q, tp, n)), side)
      <3>1. \A tp \in Grid : e.hits[tp] = Noted(FirstOf(TargetsIn(q, tp, D)), side)
        BY <1>4, <1>5 DEF Reads
      <3>. QED
        BY <2>2, <3>1
    <2>4. ASSUME NEW sl \in Grid
          PROVE  /\ e.triggers[sl] = Noted(FirstOf(StopTouches(q, sl, n)), side)
                 /\ FirstOf(StopTouches(q, sl, n)) = 0 => e.fills[sl] = Barriers!None
                 /\ FirstOf(StopTouches(q, sl, n)) # 0 =>
                      e.fills[sl] = Noted(FirstOf({k \in Fills(q, FirstOf(StopTouches(q, sl, n)), n) :
                                                     ~stream[k].terminal}), side)
      <3>1. PICK t : t = FirstOf(StopsIn(q, sl, D))
        OBVIOUS
      <3>2. /\ e.triggers[sl] = Noted(t, side)
            /\ e.fills[sl] = IF t = 0 THEN Barriers!None ELSE Noted(FirstOf(FillsIn(q, t, D)), side)
        BY <1>4, <1>5, <3>1 DEF Reads
      <3>3. t = FirstOf(StopTouches(q, sl, n))
        BY <2>2, <3>1
      <3>4. FillsIn(q, t, D) = {k \in Fills(q, t, n) : ~stream[k].terminal}
        BY <2>2
      <3>. QED
        BY <3>2, <3>3, <3>4
    <2>. QED
      BY <2>1, <2>3, <2>4
  <1>11. Terminals(P) \subseteq Nat \ {0}
    BY <1>14 DEF Terminals
  <1>12. CASE T = 0
    <2>1. Terminals(P) = {}
      BY <1>7, <1>11, <1>12, FirstOfIs
    <2>2. \A k \in P : ~stream[k].terminal
      BY <2>1 DEF Terminals
    <2>3. \A t : {k \in Fills(q, t, n) : ~stream[k].terminal} = Fills(q, t, n)
      BY <1>2, <2>2 DEF Fills
    <2>4. Noted(T, side) = Barriers!None
      BY <1>12 DEF Noted
    <2>5. e.side = side /\ e.entry = q.price /\ e.terminal = Barriers!None
      BY <1>10
    <2>6. SurfaceTold(e, q, n)
      BY <1>2, <1>4, <1>7, <1>10, <2>3, <2>4, <2>5 DEF SurfaceTold
    <2>. QED
      BY <1>9, <1>12, <2>6
  <1>13. CASE T # 0
    <2>1. T \in Terminals(P)
      BY <1>7, <1>11, <1>13, FirstOfIs
    <2>2. T \in P /\ stream[T].terminal /\ T \in 1..Len(stream) /\ path[T] = stream[T]
      BY <1>3, <1>6, <2>1 DEF Terminals
    <2>3. Valid(T)
      BY <1>1, <2>2 DEF Dated
    <2>4. \A k \in P : k <= T /\ (k # T => ~stream[k].terminal)
      <3>. SUFFICES ASSUME NEW k \in P PROVE k <= T /\ (k # T => ~stream[k].terminal)
        OBVIOUS
      <3>1. stream[k].contract = stream[T].contract /\ k \in 1..Len(stream)
        BY <1>2, <1>3, <2>2 DEF Path
      <3>2. ~(T < k)
        BY <1>1, <2>2, <3>1 DEF Dated
      <3>3. k < T => ~stream[k].terminal
        BY <1>1, <2>2, <3>1 DEF Dated
      <3>. QED
        BY <1>1, <2>2, <3>1, <3>2, <3>3
    <2>5. PICK d : d = Barriers!FillPendingStops(e, path, {T})
      OBVIOUS
    <2>6. PICK fills : fills = [sl \in Grid |->
               IF e.triggers[sl] # Barriers!None /\ e.fills[sl] = Barriers!None
               THEN Reported(path, {i \in {T} : path[i].ts >= e.triggers[sl].ts
                                                 + Scenario["BASELINE"].stopLatency}, side)
               ELSE e.fills[sl]]
      OBVIOUS
    <2>7. e.side = side
      BY <1>10
    <2>8. d = [e EXCEPT !.fills = fills]
      BY <2>5, <2>6, <2>7, Zenon DEF Barriers!FillPendingStops, Reported
    <2>9. PICK s : s = Surface(q.signal, q.price, path)
      OBVIOUS
    <2>10. s = [d EXCEPT !.terminal = Noted(T, side)]
      <3>1. path[T].valid
        BY <2>2, <2>3 DEF Valid
      <3>2. Barriers!Reference(path[T], side) = Noted(T, side)
        BY <1>13, <2>2 DEF Noted, Barriers!Reference, Barriers!Executable, Executable, Time
      <3>3. s = Barriers!Liquidate(e, path, T)
        BY <1>9, <1>13, <2>9
      <3>4. s = [d EXCEPT !.terminal = IF path[T].valid THEN Barriers!Reference(path[T], e.side)
                                       ELSE Barriers!None]
        BY <2>5, <3>3, Zenon DEF Barriers!Liquidate
      <3>5. PICK r : r = Noted(T, side)
        OBVIOUS
      <3>6. (IF path[T].valid THEN Barriers!Reference(path[T], e.side) ELSE Barriers!None) = r
        BY <2>7, <3>1, <3>2, <3>5
      <3>. QED
        BY <3>4, <3>5, <3>6, Zenon
    <2>11. /\ s.side = side /\ s.entry = q.price /\ s.hits = e.hits /\ s.triggers = e.triggers
           /\ s.fills = fills /\ s.terminal = Noted(T, side)
      <3>1. PICK h, t, x, none, r, en : /\ h = e.hits /\ t = e.triggers /\ x = e.fills /\ en = q.price
                                    /\ none = Barriers!None /\ r = Noted(T, side)
        OBVIOUS
      <3>2. e = [side |-> side, entry |-> en, hits |-> h, triggers |-> t, fills |-> x, terminal |-> none]
        BY <1>10, <3>1
      <3>3. d = [side |-> side, entry |-> en, hits |-> h, triggers |-> t, fills |-> fills, terminal |-> none]
        BY ONLY <2>8, <3>2
      <3>4. s = [d EXCEPT !.terminal = r]
        BY <2>10, <3>1
      <3>5. s = [side |-> side, entry |-> en, hits |-> h, triggers |-> t, fills |-> fills, terminal |-> r]
        BY ONLY <3>3, <3>4
      <3>. QED
        BY <3>1, <3>5
    <2>12. ASSUME NEW sl \in Grid, NEW t, t = FirstOf(StopTouches(q, sl, n))
           PROVE  s.fills[sl] = IF t = 0 THEN Barriers!None ELSE Noted(FirstOf(Fills(q, t, n)), side)
      <3>1. e.triggers[sl] = Noted(t, side)
        BY <1>10, <2>12
      <3>2. s.fills[sl] =
               IF e.triggers[sl] # Barriers!None /\ e.fills[sl] = Barriers!None
               THEN Reported(path, {i \in {T} : path[i].ts >= e.triggers[sl].ts
                                                 + Scenario["BASELINE"].stopLatency}, side)
               ELSE e.fills[sl]
        BY <2>6, <2>11
      <3>3. CASE t = 0
        <4>1. e.triggers[sl] = Barriers!None /\ e.fills[sl] = Barriers!None
          BY <1>10, <2>12, <3>1, <3>3 DEF Noted
        <4>. QED
          BY <3>2, <3>3, <4>1
      <3>4. CASE t # 0
        <4>1. t \in P /\ t \in 1..Len(stream)
          <5>1. StopTouches(q, sl, n) \subseteq P
            BY <1>2 DEF StopTouches, Quotes
          <5>2. PICK S : S = StopTouches(q, sl, n)
            OBVIOUS
          <5>3. S \subseteq Nat \ {0} /\ S \subseteq P /\ t = FirstOf(S)
            BY <1>14, <2>12, <5>1, <5>2
          <5>4. t \in P
            BY <3>4, <5>3, FirstOfIs
          <5>. QED
            BY <1>3, <5>4
        <4>2. PICK u : u = e.triggers[sl] /\ u.ts = Time(t) /\ u # Barriers!None
          BY <3>1, <4>1, NotedIs
        <4>3. PICK F, G : F = Fills(q, t, n) /\ G = {k \in Fills(q, t, n) : ~stream[k].terminal}
          OBVIOUS
        <4>4. e.fills[sl] = Noted(FirstOf(G), side)
          BY <1>10, <2>12, <3>4, <4>3
        <4>5. F \subseteq P /\ G \subseteq F /\ G \subseteq Nat \ {0}
          BY <1>2, <1>3, <4>3 DEF Fills
        <4>6. CASE G # {}
          <5>1. FirstOf(G) \in G /\ \A k \in G : FirstOf(G) <= k
            BY <4>5, <4>6, FirstOfIs
          <5>2. PICK m : m = FirstOf(G)
            OBVIOUS
          <5>3. m \in F /\ m \in 1..Len(stream) /\ F \subseteq Nat \ {0}
            BY <1>3, <1>14, <4>5, <5>1, <5>2
          <5>4. \A k \in F : m <= k
            <6>. SUFFICES ASSUME NEW k \in F PROVE m <= k
              OBVIOUS
            <6>1. CASE stream[k].terminal
              <7>1. k = T
                BY <2>4, <4>5, <6>1
              <7>2. m \in P
                BY <4>5, <5>3
              <7>. QED
                BY <2>4, <7>1, <7>2
            <6>2. CASE ~stream[k].terminal
              BY <4>3, <5>1, <5>2, <6>2
            <6>. QED
              BY <6>1, <6>2
          <5>5. FirstOf(F) = m
            BY <5>3, <5>4, FirstOfUnique
          <5>6. e.fills[sl] = Noted(m, side) /\ Noted(m, side) # Barriers!None
            BY <4>4, <5>2, <5>3, NotedIs
          <5>. QED
            BY <3>2, <3>4, <4>3, <5>5, <5>6
        <4>7. CASE G = {}
          <5>1. e.fills[sl] = Barriers!None
            <6>1. FirstOf(G) = 0
              BY <4>7 DEF FirstOf
            <6>. QED
              BY <4>4, <6>1 DEF Noted
          <5>2. PICK V : V = {i \in {T} : path[i].ts >= u.ts + Scenario["BASELINE"].stopLatency}
            OBVIOUS
          <5>3. s.fills[sl] = Reported(path, V, side)
            BY <3>2, <4>2, <5>1, <5>2
          <5>4. V \subseteq DOMAIN path
            BY <1>5, <2>2, <5>2
          <5>5. Reported(path, V, side) = Noted(FirstOf({i \in V : Valid(i)}), side)
            BY <1>5, <5>4, ReportedReads
          <5>6. Time(T) \in Nat /\ Time(t) \in Nat /\ path[T].ts = Time(T)
                /\ Scenario["BASELINE"].stopLatency > 0 /\ Scenario["BASELINE"].stopLatency \in Nat
            BY <2>2, <4>1, StreamTypes, RulesAre, BaselineIsOfTheEngine DEF Buffered, Time, Baseline, Scenarios
          <5>7. {i \in V : Valid(i)} = F
            <6>1. \A k \in F : k = T
              BY <2>4, <4>3, <4>5, <4>7
            <6>2. T \in V <=> Time(T) >= Time(t) + Scenario["BASELINE"].stopLatency
              BY <4>2, <5>2, <5>6
            <6>3. T \in F <=> Time(T) >= Time(t) + Scenario["BASELINE"].stopLatency
              <7>1. T \in F <=> /\ T \in P /\ Valid(T) /\ Time(T) > Time(t)
                                /\ Time(T) >= Time(t) + Scenario["BASELINE"].stopLatency
                BY <1>2, <4>3 DEF Fills, Baseline
              <7>. QED
                BY <2>2, <2>3, <5>6, <7>1
            <6>4. \A k \in V : k = T
              BY <5>2
            <6>. QED
              BY <2>3, <6>1, <6>2, <6>3, <6>4
          <5>. QED
            BY <3>4, <4>3, <5>3, <5>5, <5>7
        <4>. QED
          BY <4>6, <4>7
      <3>. QED
        BY <3>3, <3>4
    <2>13. SurfaceTold(s, q, n)
      BY <1>2, <1>4, <1>7, <1>10, <2>11, <2>12 DEF SurfaceTold
    <2>. QED
      BY <2>9, <2>13
  <1>. QED
    BY <1>12, <1>13

-----------------------------------------------------------------------------
(* The cells of a surface.                                                 *)

\* A stop first touched in S wins over a target first touched in T.
WinsTold(e, tp, sl, S, T) ==
  /\ Barriers!StopWins(e, tp, sl) <=> FirstOf(S) # 0 /\ \A k \in T : Time(FirstOf(S)) <= Time(k)
  /\ e.hits[tp] # Barriers!None <=> T # {}

LEMMA StopWinsIs ==
  ASSUME Buffered, NEW S, S \subseteq 1..Len(stream), NEW T, T \subseteq 1..Len(stream),
         NEW side, NEW e, NEW tp, NEW sl,
         e.triggers[sl] = Noted(FirstOf(S), side), e.hits[tp] = Noted(FirstOf(T), side)
  PROVE  WinsTold(e, tp, sl, S, T)
  <1>1. /\ Len(stream) \in Nat /\ DOMAIN stream = 1..Len(stream)
        /\ \A i \in 1..Len(stream) : Time(i) \in Nat
        /\ \A i, j \in DOMAIN stream : i <= j => Time(i) <= Time(j)
    BY StreamTypes DEF Buffered
  <1>2. S \subseteq Nat \ {0} /\ T \subseteq Nat \ {0}
    BY <1>1
  <1>3. PICK s, t : s = FirstOf(S) /\ t = FirstOf(T)
    OBVIOUS
  <1>4. /\ s = 0 <=> S = {}
        /\ S # {} => s \in S
        /\ t = 0 <=> T = {}
        /\ T # {} => t \in T /\ \A k \in T : t <= k
    BY <1>2, <1>3, FirstOfIs
  <1>5. e.triggers[sl] # Barriers!None <=> s # 0
    <2>1. CASE s = 0
      BY <1>3, <2>1 DEF Noted
    <2>2. CASE s # 0
      <3>1. s \in 1..Len(stream)
        BY <1>4, <2>2
      <3>. QED
        BY <1>3, <2>2, <3>1, NotedIs
    <2>. QED
      BY <2>1, <2>2
  <1>6. e.hits[tp] # Barriers!None <=> t # 0
    <2>1. CASE t = 0
      BY <1>3, <2>1 DEF Noted
    <2>2. CASE t # 0
      <3>1. t \in 1..Len(stream)
        BY <1>4, <2>2
      <3>. QED
        BY <1>3, <2>2, <3>1, NotedIs
    <2>. QED
      BY <2>1, <2>2
  <1>7. ASSUME s # 0
        PROVE  (e.hits[tp] = Barriers!None \/ e.triggers[sl].ts <= e.hits[tp].ts)
                 <=> \A k \in T : Time(s) <= Time(k)
    <2>1. s \in 1..Len(stream) /\ e.triggers[sl].ts = Time(s)
      <3>1. s \in 1..Len(stream)
        BY <1>4, <1>7
      <3>. QED
        BY <1>3, <3>1, NotedIs
    <2>2. CASE t = 0
      BY <1>4, <1>6, <2>2
    <2>3. CASE t # 0
      <3>1. t \in T /\ t \in 1..Len(stream) /\ \A k \in T : t <= k
        BY <1>4, <2>3
      <3>2. e.hits[tp].ts = Time(t)
        BY <1>3, <3>1, NotedIs
      <3>3. \A k \in T : Time(t) <= Time(k)
        BY <1>1, <3>1
      <3>4. (\A k \in T : Time(s) <= Time(k)) <=> Time(s) <= Time(t)
        <4>1. ASSUME Time(s) <= Time(t), NEW k \in T PROVE Time(s) <= Time(k)
          <5>1. Time(t) <= Time(k) /\ Time(k) \in Nat /\ Time(t) \in Nat /\ Time(s) \in Nat
            BY <1>1, <2>1, <3>1, <3>3
          <5>. QED
            BY <4>1, <5>1
        <4>. QED
          BY <3>1, <4>1
      <3>. QED
        BY <1>6, <2>1, <2>3, <3>2, <3>4
    <2>. QED
      BY <2>2, <2>3
  <1>8. Barriers!StopWins(e, tp, sl) <=>
          /\ e.triggers[sl] # Barriers!None
          /\ e.hits[tp] = Barriers!None \/ e.triggers[sl].ts <= e.hits[tp].ts
    BY DEF Barriers!StopWins
  <1>. QED
    BY <1>3, <1>4, <1>5, <1>6, <1>7, <1>8 DEF WinsTold

\* The price at which the stop of a cell fills at event i.
StopPriceAt(q, sl, i) ==
  LET side == Side(q.signal)
      limit == Worse(side, Worse(side, q.price, sl), Scenario[q.scenario].stopAdverse)
      observed == Executable(i, side)
  IN  IF side = "LONG" THEN Min({observed, limit}) ELSE Max({observed, limit})

CellRead(c, q, cell, n) ==
  LET stop == FirstOf(StopTouches(q, cell[2], n))
      targets == TargetTouches(q, cell[1], n)
      terminal == FirstOf(Terminals(Path(q, n)))
      side == Side(q.signal)
  IN  /\ Stopped(q, cell, n) /\ Fills(q, stop, n) # {} =>
           c = [outcome |-> "STOP_FIRST", ts |-> Time(FirstOf(Fills(q, stop, n))),
                price |-> StopPriceAt(q, cell[2], FirstOf(Fills(q, stop, n)))]
      /\ ~Stopped(q, cell, n) /\ targets # {} =>
           c = [outcome |-> "TP_FIRST", ts |-> Time(FirstOf(targets)),
                price |-> Better(side, q.price, cell[1])]
      /\ (IF Stopped(q, cell, n) THEN Fills(q, stop, n) = {} ELSE targets = {}) =>
           IF terminal = 0 THEN c.outcome = "CENSORED"
           ELSE c = [outcome |-> "TERMINAL_EXIT", ts |-> Time(terminal),
                     price |-> Executable(terminal, side)]

LEMMA CellReads ==
  ASSUME Buffered, NEW q, Baseline(q), NEW n \in 0..Len(stream), NEW cell \in Cells,
         seeds \in SeedLists, NEW e, SurfaceTold(e, q, n)
  PROVE  CellRead(Barriers!Cell(e, cell[1], cell[2]), q, cell, n)
  <1>1. PICK S, T, P, X, tp, sl, side :
          /\ S = StopTouches(q, cell[2], n) /\ T = TargetTouches(q, cell[1], n)
          /\ P = Path(q, n) /\ X = Terminals(Path(q, n))
          /\ tp = cell[1] /\ sl = cell[2] /\ side = Side(q.signal)
    OBVIOUS
  <1>2. PICK s, t, x, F : s = FirstOf(S) /\ t = FirstOf(T) /\ x = FirstOf(X) /\ F = Fills(q, FirstOf(S), n)
    OBVIOUS
  <1>3. PICK f : f = FirstOf(F)
    OBVIOUS
  <1>4. tp \in Grid /\ sl \in Grid /\ tp \in Int /\ sl \in Int
    BY <1>1, GridIsTicks DEF Cells
  <1>5. Len(stream) \in Nat /\ n \in Nat /\ n <= Len(stream)
    BY StreamTypes DEF Buffered
  <1>6. P \subseteq 1..Len(stream)
    BY <1>1, <1>5, PathIn DEF Baseline
  <1>7. S \subseteq P /\ T \subseteq P /\ X \subseteq P /\ F \subseteq P
    BY <1>1, <1>2 DEF StopTouches, TargetTouches, Quotes, Terminals, Fills
  <1>8. P \subseteq Nat \ {0}
    BY <1>5, <1>6
  <1>9. /\ S \subseteq Nat \ {0} /\ T \subseteq Nat \ {0} /\ X \subseteq Nat \ {0}
        /\ F \subseteq Nat \ {0}
    BY <1>7, <1>8
  <1>10. /\ e.side = side /\ e.entry = q.price
         /\ e.terminal = Noted(x, side) /\ e.hits[tp] = Noted(t, side)
         /\ e.triggers[sl] = Noted(s, side)
         /\ e.fills[sl] = IF s = 0 THEN Barriers!None ELSE Noted(f, side)
    BY <1>1, <1>2, <1>3, <1>4 DEF SurfaceTold
  <1>11. PICK w : /\ w = Stopped(q, cell, n)
                  /\ w \in BOOLEAN
    BY DEF Stopped
  <1>12. /\ Barriers!StopWins(e, tp, sl) <=> w
         /\ e.hits[tp] # Barriers!None <=> T # {}
    <2>1. S \subseteq 1..Len(stream) /\ T \subseteq 1..Len(stream)
      BY <1>6, <1>7
    <2>2. /\ Barriers!StopWins(e, tp, sl) <=> s # 0 /\ \A k \in T : Time(s) <= Time(k)
          /\ e.hits[tp] # Barriers!None <=> T # {}
      <3>1. /\ e.triggers[sl] = Noted(FirstOf(S), side)
            /\ e.hits[tp] = Noted(FirstOf(T), side)
        BY <1>2, <1>10
      <3>2. WinsTold(e, tp, sl, S, T)
        BY <2>1, <3>1, StopWinsIs
      <3>. QED
        BY <1>2, <3>2 DEF WinsTold
    <2>3. w <=> s # 0 /\ \A k \in T : Time(s) <= Time(k)
      BY <1>1, <1>2, <1>11 DEF Stopped
    <2>. QED
      BY <2>2, <2>3
  <1>13. w => s # 0
    BY <1>1, <1>2, <1>11 DEF Stopped
  <1>14. PICK c : c = Barriers!Cell(e, cell[1], cell[2])
    OBVIOUS
  <1>15. PICK atTerminal : atTerminal =
           IF e.terminal # Barriers!None
           THEN Barriers!Closed("TERMINAL_EXIT", e.terminal, e.terminal.price)
           ELSE Barriers!Closed("CENSORED", Barriers!None, 0)
    OBVIOUS
  <1>16. c = IF Barriers!StopWins(e, tp, sl)
             THEN IF e.fills[sl] # Barriers!None
                  THEN Barriers!Closed("STOP_FIRST", e.fills[sl],
                         Barriers!StopFillPrice(e.side, Barriers!StopPrice(e.side, e.entry, sl),
                                                e.fills[sl].price))
                  ELSE atTerminal
             ELSE IF e.hits[tp] # Barriers!None
                  THEN Barriers!Closed("TP_FIRST", e.hits[tp],
                         Barriers!TargetPrice(e.side, e.entry, tp))
                  ELSE atTerminal
    BY <1>1, <1>14, <1>15, Zenon DEF Barriers!Cell
  <1>17. IF x = 0 THEN atTerminal.outcome = "CENSORED"
         ELSE atTerminal = [outcome |-> "TERMINAL_EXIT", ts |-> Time(x), price |-> Executable(x, side)]
    <2>1. CASE x = 0
      <3>1. e.terminal = Barriers!None
        BY <1>10, <2>1 DEF Noted
      <3>2. atTerminal = Barriers!Closed("CENSORED", Barriers!None, 0)
        BY <1>15, <3>1
      <3>. QED
        BY <2>1, <3>2 DEF Barriers!Closed
    <2>2. CASE x # 0
      <3>1. x \in 1..Len(stream)
        BY <1>2, <1>6, <1>7, <1>9, <2>2, FirstOfIs
      <3>2. PICK r : /\ r = Noted(x, side) /\ r.ts = Time(x) /\ r.price = Executable(x, side)
                     /\ r # Barriers!None
        BY <3>1, NotedIs
      <3>3. atTerminal = Barriers!Closed("TERMINAL_EXIT", r, r.price)
        BY <1>10, <1>15, <3>2
      <3>. QED
        BY <2>2, <3>2, <3>3 DEF Barriers!Closed
    <2>. QED
      BY <2>1, <2>2
  <1>18. ASSUME w, F # {}
         PROVE  c = [outcome |-> "STOP_FIRST", ts |-> Time(f), price |-> StopPriceAt(q, sl, f)]
    <2>1. f \in F /\ f \in 1..Len(stream)
      BY <1>3, <1>6, <1>7, <1>9, <1>18, FirstOfIs
    <2>2. PICK r : /\ r = Noted(f, side) /\ r.ts = Time(f) /\ r.price = Executable(f, side)
                   /\ r # Barriers!None
      BY <2>1, NotedIs
    <2>3. e.fills[sl] = r
      BY <1>10, <1>13, <1>18, <2>2
    <2>4. c = Barriers!Closed("STOP_FIRST", r,
                Barriers!StopFillPrice(side, Barriers!StopPrice(side, q.price, sl), r.price))
      BY <1>10, <1>12, <1>16, <1>18, <2>2, <2>3
    <2>5. Barriers!StopFillPrice(side, Barriers!StopPrice(side, q.price, sl), r.price)
            = StopPriceAt(q, sl, f)
      <3>1. PICK adverse, limit, at :
              /\ adverse = Scenario["BASELINE"].stopAdverse
              /\ limit = Worse(side, Worse(side, q.price, sl), adverse)
              /\ at = Executable(f, side)
        OBVIOUS
      <3>2. adverse \in Int /\ q.price \in Int
        BY <3>1, RulesAre DEF Baseline
      <3>3. Barriers!StopPrice(side, q.price, sl) = Worse(side, q.price, sl)
        BY DEF Barriers!StopPrice, Worse
      <3>4. PICK p : p = Worse(side, q.price, sl)
        OBVIOUS
      <3>5. limit = IF side = "LONG" THEN p - adverse ELSE p + adverse
        BY <3>1, <3>4 DEF Worse
      <3>6. Barriers!StopFillPrice(side, p, at) =
              IF side = "LONG" THEN Barriers!Min({at, p - adverse}) ELSE Barriers!Max({at, p + adverse})
        BY <3>1 DEF Barriers!StopFillPrice
      <3>7. Barriers!StopFillPrice(side, p, at) =
              IF side = "LONG" THEN Barriers!Min({at, limit}) ELSE Barriers!Max({at, limit})
        BY <3>5, <3>6
      <3>8. Barriers!Min({at, limit}) = Min({at, limit}) /\ Barriers!Max({at, limit}) = Max({at, limit})
        BY Zenon DEF Barriers!Min, Barriers!Max, Min, Max
      <3>9. StopPriceAt(q, sl, f) = IF side = "LONG" THEN Min({at, limit}) ELSE Max({at, limit})
        BY <1>1, <3>1, Zenon DEF StopPriceAt, Baseline
      <3>. QED
        BY <2>2, <3>1, <3>3, <3>4, <3>7, <3>8, <3>9
    <2>. QED
      BY <2>2, <2>4, <2>5 DEF Barriers!Closed
  <1>19. ASSUME ~w, T # {}
         PROVE  c = [outcome |-> "TP_FIRST", ts |-> Time(t), price |-> Better(side, q.price, tp)]
    <2>1. t \in 1..Len(stream)
      BY <1>2, <1>6, <1>7, <1>9, <1>19, FirstOfIs
    <2>2. PICK r : r = Noted(t, side) /\ r.ts = Time(t)
      BY <2>1, NotedIs
    <2>3. c = Barriers!Closed("TP_FIRST", r, Barriers!TargetPrice(side, q.price, tp))
      BY <1>10, <1>12, <1>16, <1>19, <2>2
    <2>4. Barriers!TargetPrice(side, q.price, tp) = Better(side, q.price, tp)
      <3>1. q.price \in Int
        BY DEF Baseline
      <3>. QED
        BY <1>4, <3>1 DEF Barriers!TargetPrice, Better, Worse
    <2>. QED
      BY <2>2, <2>3, <2>4 DEF Barriers!Closed
  <1>20. ASSUME IF w THEN F = {} ELSE T = {}
         PROVE  c = atTerminal
    <2>1. CASE w
      <3>1. F = {}
        BY <1>20, <2>1
      <3>2. f = 0
        BY <1>3, <3>1 DEF FirstOf
      <3>3. e.fills[sl] = Barriers!None
        BY <1>10, <3>2 DEF Noted
      <3>. QED
        BY <1>12, <1>16, <2>1, <3>3
    <2>2. CASE ~w
      BY <1>12, <1>16, <1>20, <2>2
    <2>. QED
      BY <2>1, <2>2
  <1>21. /\ w /\ F # {} =>
              c = [outcome |-> "STOP_FIRST", ts |-> Time(f), price |-> StopPriceAt(q, sl, f)]
         /\ ~w /\ T # {} =>
              c = [outcome |-> "TP_FIRST", ts |-> Time(t), price |-> Better(side, q.price, tp)]
         /\ (IF w THEN F = {} ELSE T = {}) =>
              IF x = 0 THEN c.outcome = "CENSORED"
              ELSE c = [outcome |-> "TERMINAL_EXIT", ts |-> Time(x), price |-> Executable(x, side)]
    BY <1>17, <1>18, <1>19, <1>20
  <1>22. CellRead(c, q, cell, n)
    BY <1>1, <1>2, <1>3, <1>11, <1>21, Zenon DEF CellRead
  <1>. QED
    BY <1>14, <1>22

\* The price of an exit, as the barrier engine gives it: every closed baseline cell, and
\* every open one, is what the surface of its path says.
LEMMA AgreesHolds ==
  ASSUME OutcomeInv
  PROVE  AgreesWithBarriers
  <1>1. /\ seeds \in SeedLists /\ Buffered /\ Dated /\ Core(replay, flushed)
        /\ Observed(replay, flushed) /\ Priced(replay, flushed)
    BY DEF OutcomeInv, ReplayInv
  <1>2. /\ Len(stream) \in Nat /\ DOMAIN stream = 1..Len(stream) /\ flushed \in 0..Len(stream)
        /\ Len(stream) \in 0..Len(stream) /\ flushed \in Nat
    BY <1>1, StreamTypes DEF Buffered
  <1>3. PICK n : n = Len(stream)
    OBVIOUS
  <1>4. ASSUME NEW x \in replay.records, x.status = "ENTRY_FILLED", x.scenario = "BASELINE"
        PROVE  [outcome |-> x.outcome, ts |-> Time(x.fill), price |-> x.price]
                 = Barriers!Cell(Surface(x.signal, x.entryPrice, PathAfter(x.signal, x.entry, n)),
                                 x.cell[1], x.cell[2])
    <2>1. Closes(x, n) /\ ResultOf(x, flushed)
      BY <1>1, <1>3, <1>4 DEF Priced, Core, Shaped
    <2>2. PICK q : q = OfExit(x)
      OBVIOUS
    <2>3. /\ q.signal = x.signal /\ q.scenario = x.scenario /\ q.entry = x.entry
          /\ q.price = x.entryPrice
      BY <2>2 DEF OfExit
    <2>4. x.signal \in Signals /\ x.scenario \in Scenarios /\ x.cell \in Cells
      BY <2>1 DEF ResultOf, Identity, Identities
    <2>5. Baseline(q)
      BY <1>2, <1>4, <2>1, <2>2, <2>3, <2>4 DEF Baseline, Closes, ResultOf
    <2>6. PICK e : e = Surface(q.signal, q.price, PathAfter(q.signal, q.entry, n))
      OBVIOUS
    <2>7. SurfaceTold(e, q, n)
      BY <1>1, <1>2, <1>3, <2>5, <2>6, SurfaceIs
    <2>8. PICK c : c = Barriers!Cell(e, x.cell[1], x.cell[2])
      OBVIOUS
    <2>9. CellRead(c, q, x.cell, n)
      BY <1>1, <1>2, <1>3, <2>4, <2>5, <2>7, <2>8, CellReads
    <2>10. PICK S, T, stop, F, P, X, side :
             /\ S = StopTouches(q, x.cell[2], n) /\ T = TargetTouches(q, x.cell[1], n)
             /\ stop = FirstOf(S) /\ F = Fills(q, stop, n)
             /\ P = Path(q, n) /\ X = Terminals(Path(q, n)) /\ side = Side(q.signal)
      OBVIOUS
    <2>11. PICK w : w = Stopped(q, x.cell, n) /\ w \in BOOLEAN
      BY DEF Stopped
    <2>12. /\ w /\ F # {} => c = [outcome |-> "STOP_FIRST", ts |-> Time(FirstOf(F)),
                                  price |-> StopPriceAt(q, x.cell[2], FirstOf(F))]
           /\ ~w /\ T # {} => c = [outcome |-> "TP_FIRST", ts |-> Time(FirstOf(T)),
                                   price |-> Better(side, q.price, x.cell[1])]
           /\ (IF w THEN F = {} ELSE T = {}) =>
                IF FirstOf(X) = 0 THEN c.outcome = "CENSORED"
                ELSE c = [outcome |-> "TERMINAL_EXIT", ts |-> Time(FirstOf(X)),
                          price |-> Executable(FirstOf(X), side)]
      BY <2>9, <2>10, <2>11, Zenon DEF CellRead
    <2>13. /\ x.fill \in P
           /\ \/ x.outcome = "STOP_FIRST" /\ w /\ F # {} /\ x.fill = FirstOf(F)
                 /\ x.price = StopPriceAt(q, x.cell[2], x.fill)
              \/ x.outcome = "TP_FIRST" /\ ~w /\ T # {} /\ x.fill = FirstOf(T)
                 /\ x.price = Better(side, q.price, x.cell[1])
              \/ x.outcome = "TERMINAL_EXIT" /\ stream[x.fill].terminal
                 /\ (IF w THEN F = {} ELSE T = {})
                 /\ x.price = Worse(side, Executable(x.fill, side), Scenario[q.scenario].terminalAdverse)
      BY <2>1, <2>2, <2>3, <2>10, <2>11, Zenon DEF Closes, StopPriceAt
    <2>14. CASE x.outcome = "STOP_FIRST" /\ w /\ F # {} /\ x.fill = FirstOf(F)
                /\ x.price = StopPriceAt(q, x.cell[2], x.fill)
      BY <2>3, <2>6, <2>8, <2>12, <2>14
    <2>15. CASE x.outcome = "TP_FIRST" /\ ~w /\ T # {} /\ x.fill = FirstOf(T)
                 /\ x.price = Better(side, q.price, x.cell[1])
      BY <2>3, <2>6, <2>8, <2>12, <2>15
    <2>16. CASE x.outcome = "TERMINAL_EXIT" /\ stream[x.fill].terminal
                 /\ (IF w THEN F = {} ELSE T = {})
                 /\ x.price = Worse(side, Executable(x.fill, side), Scenario[q.scenario].terminalAdverse)
      <3>1. P \subseteq 1..n /\ P \subseteq Nat \ {0}
        <4>1. P \subseteq 1..n
          BY <1>2, <1>3, <2>5, <2>10, PathIn DEF Baseline
        <4>. QED
          BY <1>2, <1>3, <4>1
      <3>2. X \subseteq Nat \ {0} /\ x.fill \in X
        BY <2>10, <2>13, <2>16, <3>1 DEF Terminals
      <3>3. \A k \in X : x.fill <= k
        <4>. SUFFICES ASSUME NEW k \in X PROVE x.fill <= k
          OBVIOUS
        <4>1. k \in P /\ stream[k].terminal
          BY <2>10 DEF Terminals
        <4>2. k \in DOMAIN stream /\ x.fill \in DOMAIN stream
          BY <1>2, <1>3, <2>13, <3>1, <4>1
        <4>3. stream[k].contract = stream[x.fill].contract
          BY <2>10, <2>13, <4>1 DEF Path
        <4>4. ~(k < x.fill)
          BY <1>1, <4>1, <4>2, <4>3 DEF Dated
        <4>. QED
          <5>1. k \in Nat /\ x.fill \in Nat
            BY <3>1, <2>13, <4>1
          <5>. QED
            BY <4>4, <5>1
      <3>4. FirstOf(X) = x.fill
        BY <3>2, <3>3, FirstOfUnique
      <3>5. FirstOf(X) # 0
        BY <3>2, <3>4
      <3>6. x.price = Executable(x.fill, side)
        <4>1. Scenario[q.scenario].terminalAdverse = 0
          BY <1>4, <2>3, <2>5, BaselineIsOfTheEngine DEF Baseline, Scenarios
        <4>2. Executable(x.fill, side) \in Int
          <5>1. x.fill \in 1..Len(stream)
            BY <1>3, <2>13, <3>1
          <5>2. stream[x.fill] \in Quote
            BY <1>1, <5>1 DEF Buffered
          <5>. QED
            BY <5>2 DEF Quote, Executable
        <4>3. PICK a : a = Executable(x.fill, side)
          OBVIOUS
        <4>4. Worse(side, a, 0) = a
          BY <4>2, <4>3 DEF Worse
        <4>. QED
          BY <2>16, <4>1, <4>3, <4>4
      <3>7. c = [outcome |-> "TERMINAL_EXIT", ts |-> Time(x.fill), price |-> Executable(x.fill, side)]
        BY <2>12, <2>16, <3>4, <3>5
      <3>. QED
        BY <2>3, <2>6, <2>8, <2>16, <3>6, <3>7
    <2>. QED
      BY <2>13, <2>14, <2>15, <2>16
  <1>5. ASSUME NEW g \in replay.groups, g.scenario = "BASELINE", NEW cell \in g.active
        PROVE  Barriers!Cell(Surface(g.signal, g.price, PathAfter(g.signal, g.entry, flushed)),
                             cell[1], cell[2]).outcome = "CENSORED"
    <2>1. PICK m : m = flushed /\ m \in 0..Len(stream) /\ m \in Nat
      BY <1>2
    <2>2. Waits(g, m, m) /\ GroupOf(g, m)
      BY <1>1, <1>5, <2>1 DEF Priced, Core, Shaped
    <2>3. PICK q : q = OfGroup(g)
      OBVIOUS
    <2>4. /\ q.signal = g.signal /\ q.scenario = g.scenario /\ q.entry = g.entry
          /\ q.price = g.price
      BY <2>3 DEF OfGroup
    <2>5. cell \in Cells /\ g.signal \in Signals /\ g.scenario \in Scenarios /\ g.entry \in Nat
      BY <1>5, <2>1, <2>2 DEF GroupOf
    <2>6. Baseline(q)
      BY <1>5, <2>2, <2>4, <2>5 DEF Baseline, Waits
    <2>7. PICK e : e = Surface(q.signal, q.price, PathAfter(q.signal, q.entry, m))
      OBVIOUS
    <2>8. SurfaceTold(e, q, m)
      BY <1>1, <2>1, <2>6, <2>7, SurfaceIs
    <2>9. PICK c : c = Barriers!Cell(e, cell[1], cell[2])
      OBVIOUS
    <2>10. CellRead(c, q, cell, m)
      BY <1>1, <2>1, <2>5, <2>6, <2>8, <2>9, CellReads
    <2>11. PICK stop, T, F, X, P :
             /\ stop = FirstOf(StopTouches(q, cell[2], m)) /\ T = TargetTouches(q, cell[1], m)
             /\ F = Fills(q, stop, m) /\ P = Path(q, m) /\ X = Terminals(Path(q, m))
      OBVIOUS
    <2>12. (IF Stopped(q, cell, m) THEN F = {} ELSE T = {}) /\ FirstOf(X) = 0 => c.outcome = "CENSORED"
      BY <2>10, <2>11, Zenon DEF CellRead
    <2>13. IF Stopped(q, cell, m) THEN F = {} ELSE T = {}
      <3>1. PICK t : t = g.triggers[cell[2]]
        OBVIOUS
      <3>2. CellWaits(g, cell, m, m)
        BY <1>5, <2>2 DEF Waits
      <3>3. /\ t = stop /\ (t = 0 => T = {})
            /\ t # 0 => (\A k \in T : Time(t) <= Time(k)) /\ F = {}
        BY <2>3, <2>11, <3>1, <3>2 DEF CellWaits
      <3>4. Stopped(q, cell, m) <=> stop # 0 /\ \A k \in T : Time(stop) <= Time(k)
        BY <2>11 DEF Stopped
      <3>. QED
        BY <3>3, <3>4
    <2>14. X = {}
      <3>. SUFFICES ASSUME NEW k \in X PROVE FALSE
        OBVIOUS
      <3>1. k \in P /\ stream[k].terminal
        BY <2>11 DEF Terminals
      <3>2. stream[k].contract = seeds[g.signal].contract /\ k \in 1..m
        <4>1. P \subseteq 1..m
          BY <2>1, <2>4, <2>5, <2>11, PathIn
        <4>. QED
          BY <2>4, <2>11, <3>1, <4>1 DEF Path
      <3>3. seeds[g.signal].contract \in Contracts
        BY <1>1, <2>5, SeedTypes
      <3>4. seeds[g.signal].contract \in replay.terminated
        BY <1>1, <2>1, <3>1, <3>2, <3>3 DEF Observed
      <3>5. seeds[g.signal].contract \notin replay.terminated
        BY <1>1, <1>5 DEF Core, Flat
      <3>. QED
        BY <3>4, <3>5
    <2>15. FirstOf(X) = 0
      BY <2>14 DEF FirstOf
    <2>16. c.outcome = "CENSORED"
      BY <2>12, <2>13, <2>15
    <2>. QED
      BY <2>1, <2>4, <2>7, <2>9, <2>16
  <1>6. \A x \in BaselineExits :
          [outcome |-> x.outcome, ts |-> Time(x.fill), price |-> x.price]
            = Barriers!Cell(Surface(x.signal, x.entryPrice, PathAfter(x.signal, x.entry, Len(stream))),
                            x.cell[1], x.cell[2])
    <2>1. \A x \in BaselineExits : x \in replay.records /\ x.status = "ENTRY_FILLED" /\ x.scenario = "BASELINE"
      BY DEF BaselineExits
    <2>. QED
      BY <1>3, <1>4, <2>1
  <1>7. \A g \in {g \in replay.groups : g.scenario = "BASELINE"} : \A cell \in g.active :
          Barriers!Cell(Surface(g.signal, g.price, PathAfter(g.signal, g.entry, flushed)),
                        cell[1], cell[2]).outcome = "CENSORED"
    BY <1>5
  <1>. QED
    BY <1>6, <1>7, Zenon DEF AgreesWithBarriers

\* The first touch inside the clock's sessions, up to the exit.
LEMMA LabelsHold ==
  ASSUME OutcomeInv
  PROVE  LabelsAreFirstTouch
  <1>1. /\ seeds \in SeedLists /\ Buffered /\ Dated /\ Core(replay, flushed)
        /\ Priced(replay, flushed)
    BY DEF OutcomeInv, ReplayInv
  <1>2. /\ Len(stream) \in Nat /\ DOMAIN stream = 1..Len(stream) /\ flushed \in 0..Len(stream)
        /\ Len(stream) \in 0..Len(stream) /\ flushed \in Nat
        /\ \A i \in 1..Len(stream) : Time(i) \in Nat
        /\ \A i, j \in 1..Len(stream) : i <= j => Time(i) <= Time(j)
    <2>1. /\ Len(stream) \in Nat /\ DOMAIN stream = 1..Len(stream)
          /\ \A i \in 1..Len(stream) : Time(i) \in Nat
      BY <1>1, StreamTypes DEF Buffered
    <2>2. \A i, j \in 1..Len(stream) : i <= j => Time(i) <= Time(j)
      BY <1>1, <2>1, Zenon DEF Buffered
    <2>3. flushed \in 0..Len(stream)
      BY <1>1, Zenon DEF Buffered
    <2>4. Len(stream) \in 0..Len(stream) /\ flushed \in Nat
      BY <2>1, <2>3
    <2>. QED
      BY <2>1, <2>2, <2>3, <2>4
  <1>3. PICK n : n = Len(stream)
    OBVIOUS
  <1>4. ASSUME NEW x \in replay.records, x.status = "ENTRY_FILLED", x.scenario = "BASELINE",
               NEW ends, ends = stream[x.entry].session + FirstTouchSessions,
               NEW path, path = WithoutTerminal(PathAfter(x.signal, x.entry, x.fill)),
               NEW e, e = Barriers!Replay(Side(x.signal), x.entryPrice,
                            Restrict(path, {i \in DOMAIN path : path[i].session < ends}))
        PROVE  x.label = IF Barriers!StopWins(e, x.cell[1], x.cell[2]) THEN "STOP_FIRST"
                  ELSE IF e.hits[x.cell[1]] # Barriers!None THEN "TP_FIRST"
                  ELSE IF stream[x.fill].session < ends THEN "TERMINAL_EXIT"
                  ELSE "CENSORED"
    <2>1. Closes(x, n) /\ ResultOf(x, flushed)
      BY <1>1, <1>3, <1>4 DEF Priced, Core, Shaped
    <2>2. PICK q : q = OfExit(x)
      OBVIOUS
    <2>3. /\ q.signal = x.signal /\ q.scenario = x.scenario /\ q.entry = x.entry
          /\ q.price = x.entryPrice
      BY <2>2 DEF OfExit
    <2>4. x.signal \in Signals /\ x.scenario \in Scenarios /\ x.cell \in Cells
      BY <2>1 DEF ResultOf, Identity, Identities
    <2>5. Baseline(q)
      BY <1>2, <1>4, <2>1, <2>2, <2>3, <2>4 DEF Baseline, Closes, ResultOf
    <2>6. x.fill \in 1..n /\ x.entry \in 1..n /\ n \in Nat
      BY <1>2, <1>3, <1>4, <2>1 DEF ResultOf
    <2>7. PICK tp, sl, S, T, P, stop, F :
             /\ tp = x.cell[1] /\ sl = x.cell[2]
             /\ S = StopTouches(q, sl, n) /\ T = TargetTouches(q, tp, n)
             /\ P = Path(q, n) /\ stop = FirstOf(S) /\ F = Fills(q, stop, n)
      OBVIOUS
    <2>8. /\ S \subseteq P /\ T \subseteq P /\ F \subseteq P /\ P \subseteq 1..n
          /\ P \subseteq Nat \ {0}
          /\ \A k \in S \cup T : ~stream[k].terminal
      <3>1. P \subseteq 1..n
        BY <1>2, <1>3, <2>5, <2>7, PathIn DEF Baseline
      <3>2. P \subseteq Nat \ {0}
        BY <2>6, <3>1
      <3>. QED
        BY <2>7, <3>1, <3>2 DEF StopTouches, TargetTouches, Quotes, Fills
    <2>9. PICK w : w = Stopped(q, x.cell, n) /\ w \in BOOLEAN
      BY DEF Stopped
    <2>10. PICK late : late = {k \in P : Beyond(q, k)}
      OBVIOUS
    <2>11. \A k \in P : /\ k \in late <=> ~(stream[k].session < ends)
                        /\ stream[k].session \in Nat /\ ends \in Nat
      <3>1. \A k \in 1..n : stream[k] \in Quote
        BY <1>1, <1>3 DEF Buffered
      <3>2. \A k \in 1..n : stream[k].session \in Nat
        BY <3>1 DEF Quote
      <3>3. ends \in Nat
        BY <1>4, <2>6, <3>2, ClockOutlastsTheEntry
      <3>. QED
        BY <1>4, <2>3, <2>8, <2>10, <3>2, <3>3 DEF Beyond
    <2>12. /\ \A j, k \in P : j \in late /\ j <= k => k \in late
           /\ \A j, k \in P : j \in late /\ Time(j) = Time(k) => k \in late
      <3>1. \A j, k \in P : j < k => /\ stream[j].session <= stream[k].session
                                     /\ Time(j) = Time(k) => stream[j].session = stream[k].session
        BY <1>1, <1>2, <1>3, <2>8 DEF Dated
      <3>2. \A j, k \in P : j \in late /\ j < k => k \in late
        BY <2>11, <3>1
      <3>3. \A j, k \in P : j \in late /\ Time(j) = Time(k) /\ k < j => k \in late
        BY <2>11, <3>1
      <3>4. \A j, k \in P : j < k \/ j = k \/ k < j
        BY <2>8
      <3>5. \A j, k \in P : j <= k => j < k \/ j = k
        BY <2>8
      <3>. QED
        BY <3>2, <3>3, <3>4, <3>5
    <2>13. \A j, k \in P : /\ j <= k => Time(j) <= Time(k)
                           /\ Time(j) \in Nat /\ j \in Nat
      BY <1>2, <1>3, <2>8
    <2>14. PICK D : D = {k \in Path(q, x.fill) : ~stream[k].terminal /\ stream[k].session < ends}
      OBVIOUS
    <2>15. Reads(e, q, D)
      <3>1. PICK all, ordinary : all = PathAfter(x.signal, x.entry, x.fill)
                                 /\ ordinary = {i \in Path(q, x.fill) : ~stream[i].terminal}
        OBVIOUS
      <3>2. all = [i \in Path(q, x.fill) |-> stream[i]]
        BY <2>3, <3>1, Zenon DEF PathAfter, Path
      <3>3. {i \in DOMAIN all : ~all[i].terminal} = ordinary
        BY <3>1, <3>2
      <3>4. path = [i \in ordinary |-> all[i]]
        BY <1>4, <3>1, <3>3, Zenon DEF WithoutTerminal, Restrict
      <3>5. ordinary \subseteq Path(q, x.fill)
        BY <3>1
      <3>6. DOMAIN path = ordinary /\ \A i \in ordinary : path[i] = stream[i]
        BY <3>2, <3>4, <3>5
      <3>7. {i \in DOMAIN path : path[i].session < ends} = D
        BY <2>14, <3>1, <3>6
      <3>8. PICK events : events = Restrict(path, {i \in DOMAIN path : path[i].session < ends})
        OBVIOUS
      <3>9. events = [i \in D |-> path[i]]
        BY <3>7, <3>8, Zenon DEF Restrict
      <3>10. D \subseteq ordinary /\ D \subseteq Path(q, x.fill)
        BY <2>14, <3>1
      <3>11. DOMAIN events = D /\ \A i \in D : events[i] = stream[i]
        BY <3>6, <3>9, <3>10
      <3>12. Path(q, x.fill) \subseteq 1..Len(stream)
        <4>1. x.fill \in Nat /\ x.fill <= n /\ q.entry \in Nat
          BY <2>5, <2>6 DEF Baseline
        <4>. QED
          BY <1>3, <2>6, <4>1, PathIn
      <3>13. Excerpt(events)
        BY <3>10, <3>11, <3>12 DEF Excerpt
      <3>14. Reads(Barriers!Replay(Side(q.signal), q.price, events), q, DOMAIN events)
        BY <1>1, <2>5, <3>13, ReplayReads DEF Baseline
      <3>. QED
        BY <1>4, <2>3, <3>8, <3>11, <3>14
    <2>16. PICK A, B : A = StopsIn(q, sl, D) /\ B = TargetsIn(q, tp, D)
      OBVIOUS
    <2>17. \A k : k \in D <=> k \in P /\ k <= x.fill /\ ~stream[k].terminal /\ k \notin late
      <3>1. \A k : k \in Path(q, x.fill) <=> k \in P /\ k <= x.fill
        BY <1>2, <1>3, <2>3, <2>6, <2>7 DEF Path
      <3>. QED
        BY <2>11, <2>14, <3>1
    <2>18. /\ \A k : k \in A <=> k \in S /\ k <= x.fill /\ k \notin late
           /\ \A k : k \in B <=> k \in T /\ k <= x.fill /\ k \notin late
      <3>1. \A k : k \in S <=> /\ k \in P /\ ~stream[k].terminal /\ Valid(k)
                               /\ sl <= Against(q, k)
        BY <2>7 DEF StopTouches, Quotes
      <3>2. \A k : k \in T <=> /\ k \in P /\ ~stream[k].terminal /\ Valid(k)
                               /\ tp <= -Against(q, k) - Scenario[q.scenario].tradeThrough
        BY <2>7 DEF TargetTouches, Quotes
      <3>3. \A k : k \in A <=> /\ k \in D /\ Valid(k) /\ sl <= Against(q, k)
        BY <2>16 DEF StopsIn
      <3>4. \A k : k \in B <=> /\ k \in D /\ Valid(k)
                               /\ tp <= -Against(q, k) - Scenario[q.scenario].tradeThrough
        BY <2>16 DEF TargetsIn
      <3>. QED
        BY <2>17, <3>1, <3>2, <3>3, <3>4
    <2>19. PICK a : /\ a = FirstOf(A)
                    /\ Barriers!StopWins(e, tp, sl) <=> a # 0 /\ \A k \in B : Time(a) <= Time(k)
                    /\ e.hits[tp] # Barriers!None <=> B # {}
                    /\ A = {} => a = 0
      <3>1. A \subseteq 1..Len(stream) /\ B \subseteq 1..Len(stream)
        BY <1>3, <2>8, <2>18
      <3>2. tp \in Grid /\ sl \in Grid
        BY <2>4, <2>7 DEF Cells
      <3>3. PICK side : side = Side(q.signal)
        OBVIOUS
      <3>4. /\ e.triggers[sl] = Noted(FirstOf(A), side) /\ e.hits[tp] = Noted(FirstOf(B), side)
        BY <2>15, <2>16, <3>2, <3>3 DEF Reads
      <3>5. WinsTold(e, tp, sl, A, B)
        BY <1>1, <3>1, <3>4, StopWinsIs
      <3>6. A = {} => FirstOf(A) = 0
        BY DEF FirstOf
      <3>. QED
        BY <3>5, <3>6 DEF WinsTold
    <2>20. /\ w <=> stop # 0 /\ \A k \in T : Time(stop) <= Time(k)
           /\ stop = 0 <=> S = {}
           /\ S # {} => stop \in S /\ \A k \in S : stop <= k
      <3>1. S \subseteq Nat \ {0}
        BY <2>8
      <3>2. w <=> stop # 0 /\ \A k \in T : Time(stop) <= Time(k)
        BY <2>7, <2>9 DEF Stopped
      <3>. QED
        BY <2>7, <3>1, <3>2, FirstOfIs
    <2>21. /\ x.fill \in P
           /\ \/ x.outcome = "STOP_FIRST" /\ w /\ F # {} /\ x.fill = FirstOf(F)
              \/ x.outcome = "TP_FIRST" /\ ~w /\ T # {} /\ x.fill = FirstOf(T)
              \/ x.outcome = "TERMINAL_EXIT" /\ stream[x.fill].terminal
                 /\ (IF w THEN F = {} ELSE T = {})
           /\ x.label = IF (IF w THEN stop ELSE x.fill) \in late THEN "CENSORED"
                        ELSE IF w THEN "STOP_FIRST" ELSE x.outcome
      <3>1. /\ x.fill \in P
            /\ \/ x.outcome = "STOP_FIRST" /\ w /\ F # {} /\ x.fill = FirstOf(F)
               \/ x.outcome = "TP_FIRST" /\ ~w /\ T # {} /\ x.fill = FirstOf(T)
               \/ x.outcome = "TERMINAL_EXIT" /\ stream[x.fill].terminal
                  /\ (IF w THEN F = {} ELSE T = {})
        BY <2>1, <2>2, <2>7, <2>9, Zenon DEF Closes
      <3>2. x.label = IF Beyond(q, IF w THEN stop ELSE x.fill) THEN "CENSORED"
                      ELSE IF w THEN "STOP_FIRST" ELSE x.outcome
        BY <2>1, <2>2, <2>7, <2>9, Zenon DEF Closes, Decider
      <3>3. (IF w THEN stop ELSE x.fill) \in P
        BY <2>8, <2>20, <3>1
      <3>4. PICK d : d = IF w THEN stop ELSE x.fill
        OBVIOUS
      <3>5. d \in P /\ (d \in late <=> Beyond(q, d))
        BY <2>10, <3>3, <3>4
      <3>. QED
        BY <3>1, <3>2, <3>4, <3>5
    <2>22. CASE w
      <3>1. stop \in S /\ stop \in P /\ \A k \in S : stop <= k
        BY <2>8, <2>20, <2>22
      <3>2. stop < x.fill
        <4>1. CASE F # {} /\ x.fill = FirstOf(F)
          <5>1. x.fill \in F
            BY <2>8, <4>1, FirstOfIs
          <5>2. Time(x.fill) > Time(stop)
            BY <2>7, <5>1 DEF Fills
          <5>3. ~(x.fill <= stop)
            <6>1. x.fill <= stop => Time(x.fill) <= Time(stop)
              BY <2>13, <2>21, <3>1
            <6>. QED
              BY <2>13, <2>21, <3>1, <5>2, <6>1
          <5>. QED
            BY <2>13, <2>21, <3>1, <5>3
        <4>2. CASE stream[x.fill].terminal
          <5>1. stop # x.fill
            BY <2>8, <3>1, <4>2
          <5>2. stream[stop].contract = stream[x.fill].contract
            BY <2>7, <2>21, <3>1 DEF Path
          <5>3. stop \in DOMAIN stream /\ x.fill \in DOMAIN stream
            BY <1>2, <1>3, <2>8, <2>21, <3>1
          <5>4. ~(x.fill < stop)
            BY <1>1, <4>2, <5>2, <5>3 DEF Dated
          <5>. QED
            BY <2>13, <2>21, <3>1, <5>1, <5>4
        <4>. QED
          BY <2>21, <2>22, <4>1, <4>2
      <3>3. CASE stop \notin late
        <4>1. stop \in A
          BY <2>13, <2>18, <2>21, <3>1, <3>2, <3>3
        <4>2. \A k \in A : stop <= k
          BY <2>18, <3>1
        <4>3. A \subseteq Nat \ {0}
          BY <2>8, <2>18
        <4>4. a = stop
          BY <2>19, <4>1, <4>2, <4>3, FirstOfUnique
        <4>5. a # 0 /\ \A k \in B : Time(a) <= Time(k)
          BY <2>18, <2>20, <2>22, <4>4
        <4>6. x.label = "STOP_FIRST"
          BY <2>21, <2>22, <3>3
        <4>. QED
          BY <2>7, <2>19, <4>5, <4>6
      <3>4. CASE stop \in late
        <4>1. A = {}
          <5>. SUFFICES ASSUME NEW k \in A PROVE FALSE
            OBVIOUS
          <5>1. k \in S /\ k \in P /\ k \notin late /\ stop <= k
            BY <2>8, <2>18, <3>1
          <5>. QED
            BY <2>12, <3>1, <3>4, <5>1
        <4>2. B = {}
          <5>. SUFFICES ASSUME NEW k \in B PROVE FALSE
            OBVIOUS
          <5>1. k \in T /\ k \in P /\ k \notin late /\ Time(stop) <= Time(k)
            BY <2>8, <2>18, <2>20, <2>22
          <5>2. CASE stop <= k
            BY <2>12, <3>1, <3>4, <5>1, <5>2
          <5>3. CASE ~(stop <= k)
            <6>1. k <= stop
              BY <2>13, <3>1, <5>1, <5>3
            <6>2. Time(k) <= Time(stop)
              BY <2>13, <3>1, <5>1, <6>1
            <6>3. Time(k) = Time(stop)
              BY <2>13, <3>1, <5>1, <6>2
            <6>. QED
              BY <2>12, <3>1, <3>4, <5>1, <6>3
          <5>. QED
            BY <5>2, <5>3
        <4>3. x.fill \in late
          <5>1. stop <= x.fill
            BY <2>13, <2>21, <3>1, <3>2
          <5>. QED
            BY <2>12, <2>21, <3>1, <3>4, <5>1
        <4>4. ~(stream[x.fill].session < ends)
          BY <2>11, <2>21, <4>3
        <4>5. x.label = "CENSORED"
          BY <2>21, <2>22, <3>4
        <4>. QED
          BY <2>7, <2>19, <4>1, <4>2, <4>4, <4>5
      <3>. QED
        BY <3>3, <3>4
    <2>23. CASE ~w /\ T # {} /\ x.outcome = "TP_FIRST" /\ x.fill = FirstOf(T)
      <3>1. x.fill \in T /\ \A k \in T : x.fill <= k
        <4>1. T \subseteq Nat \ {0}
          BY <2>8
        <4>. QED
          <5>1. FirstOf(T) \in T /\ \A k \in T : FirstOf(T) <= k
            BY <2>23, <4>1, FirstOfIs
          <5>2. x.fill = FirstOf(T)
            BY <2>23
          <5>. QED
            BY <5>1, <5>2
      <3>2. A = {}
        <4>. SUFFICES ASSUME NEW k \in A PROVE FALSE
          OBVIOUS
        <4>1. k \in S /\ k \in P /\ k <= x.fill
          BY <2>8, <2>18
        <4>2. stop # 0 /\ stop \in P /\ stop <= k
          BY <2>8, <2>20, <4>1
        <4>3. PICK j \in T : ~(Time(stop) <= Time(j))
          BY <2>20, <2>23, <4>2
        <4>4. j \in P /\ x.fill <= j
          BY <2>8, <3>1
        <4>5. /\ Time(stop) <= Time(k) /\ Time(k) <= Time(x.fill) /\ Time(x.fill) <= Time(j)
              /\ Time(stop) \in Nat /\ Time(k) \in Nat /\ Time(x.fill) \in Nat /\ Time(j) \in Nat
          BY <2>13, <2>21, <4>1, <4>2, <4>4
        <4>. QED
          BY <4>3, <4>5
      <3>3. ~Barriers!StopWins(e, tp, sl)
        BY <2>19, <3>2
      <3>4. CASE x.fill \notin late
        <4>1. x.fill \in B
          BY <2>13, <2>18, <2>21, <3>1, <3>4
        <4>2. x.label = "TP_FIRST"
          BY <2>21, <2>23, <3>4
        <4>. QED
          BY <2>7, <2>19, <3>3, <4>1, <4>2
      <3>5. CASE x.fill \in late
        <4>1. B = {}
          <5>. SUFFICES ASSUME NEW k \in B PROVE FALSE
            OBVIOUS
          <5>1. k \in T /\ k \in P /\ k \notin late /\ x.fill <= k
            BY <2>8, <2>18, <3>1
          <5>. QED
            BY <2>12, <2>21, <3>5, <5>1
        <4>2. ~(stream[x.fill].session < ends)
          BY <2>11, <2>21, <3>5
        <4>3. x.label = "CENSORED"
          BY <2>21, <2>23, <3>5
        <4>. QED
          BY <2>7, <2>19, <3>3, <4>1, <4>2, <4>3
      <3>. QED
        BY <3>4, <3>5
    <2>24. CASE ~w /\ T = {} /\ x.outcome = "TERMINAL_EXIT"
      <3>1. S = {}
        BY <2>20, <2>24
      <3>2. A = {} /\ B = {}
        BY <2>18, <2>24, <3>1
      <3>3. ~Barriers!StopWins(e, tp, sl) /\ e.hits[tp] = Barriers!None
        BY <2>19, <3>2
      <3>4. x.label = IF x.fill \in late THEN "CENSORED" ELSE "TERMINAL_EXIT"
        BY <2>21, <2>24
      <3>5. x.fill \in late <=> ~(stream[x.fill].session < ends)
        BY <2>11, <2>21
      <3>. QED
        BY <2>7, <3>3, <3>4, <3>5
    <2>. QED
      BY <2>21, <2>22, <2>23, <2>24
  <1>5. \A x \in BaselineExits : x \in replay.records /\ x.status = "ENTRY_FILLED" /\ x.scenario = "BASELINE"
    BY DEF BaselineExits
  <1>. QED
    BY <1>4, <1>5, Zenon DEF LabelsAreFirstTouch

\* Every closed baseline cell has the outcome, the time and the price that the barrier engine
\* computes from the whole path after the entry, and an open cell is one it leaves open.
THEOREM CellsAgreeWithBarriers == Spec => []AgreesWithBarriers
  <1>1. OutcomeInv => AgreesWithBarriers
    BY AgreesHolds
  <1>. QED
    BY <1>1, OutcomeInvariant, PTL

\* The label of a closed baseline cell is what the barrier engine decides from the sessions of
\* the label clock alone.
THEOREM LabelsAreDecidedFirst == Spec => []LabelsAreFirstTouch
  <1>1. OutcomeInv => LabelsAreFirstTouch
    BY LabelsHold
  <1>. QED
    BY <1>1, OutcomeInvariant, PTL
=============================================================================
