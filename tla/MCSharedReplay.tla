---------------------------- MODULE MCSharedReplay ----------------------------
(* Time unit one second, price unit one tick.                              *)
EXTENDS SharedReplay

MCGrid == {2, 3}
MCScenario ==
  [id \in {"BASELINE", "SEVERE_DIAGNOSTIC"} |->
     IF id = "BASELINE"
     THEN [routingDelay |-> 1, entryAdverse |-> 0, tradeThrough |-> 1,
           stopLatency |-> 1, stopAdverse |-> 2, terminalAdverse |-> 0]
     ELSE [routingDelay |-> 2, entryAdverse |-> 2, tradeThrough |-> 2,
           stopLatency |-> 2, stopAdverse |-> 6, terminalAdverse |-> 2]]

Seed(ts, side, contract) == [ts |-> ts, side |-> side, contract |-> contract]
MCSeedLists ==
  {<<Seed(0, "LONG", "H"), Seed(2, "LONG", "H"), Seed(3, "LONG", "H")>>,
   <<Seed(0, "SHORT", "H"), Seed(1, "SHORT", "H"), Seed(9, "SHORT", "H")>>,
   <<Seed(1, "LONG", "H"), Seed(1, "LONG", "M")>>}

Event(gaps, bids, contract) ==
  [gap : gaps, bid : bids, contract : {contract}, valid : {TRUE}, terminal : {FALSE}]
Invalid(gaps) ==
  [gap : gaps, bid : {0}, contract : {"H"}, valid : {FALSE}, terminal : {FALSE}]
Terminal(gaps, bids, contract) ==
  [gap : gaps, bid : bids, contract : {contract}, valid : {TRUE}, terminal : {TRUE}]

MCInputs ==
  << Event({0}, {0, 4}, "H") \cup Invalid({0}),
     Event({1}, {-1, 0, 4}, "H") \cup Event({0, 2}, {0}, "H") \cup Invalid({2})
       \cup Event({0}, {0}, "M"),
     Event({0, 1}, {-1, 4}, "H") \cup Event({1, 2}, {0}, "H") \cup Invalid({1})
       \cup Terminal({1}, {4}, "H") \cup Event({1}, {0}, "M"),
     Event({0, 1}, {-1, 4}, "H") \cup Terminal({0}, {0}, "H") \cup Terminal({0}, {4}, "M"),
     Event({1}, {-1, 4}, "H") \cup Terminal({1}, {0}, "H"),
     Terminal({1}, {-1}, "H") >>
=============================================================================
