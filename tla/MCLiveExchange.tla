--------------------------- MODULE MCLiveExchange ---------------------------
(* Three references on one side, two prices inside the band, one outside   *)
(* it, and orders of no shares; executions at the order's price and        *)
(* printed elsewhere.  One reference at a time is given out again while    *)
(* live, and one order more than there are references may rest.            *)
EXTENDS LiveExchange, TLC

CONSTANTS r1, r2, r3, AAPL
MCRefs == {r1, r2, r3}

\* New orders are acceptable, of no shares or, where they replace another, out
\* of band.
MCFeed ==
  {m \in AddMsg : <<m.price, m.qty>> \in {<<7, 2>>, <<8, 1>>, <<7, 0>>}}
    \cup {m \in ReplaceMsg : <<m.price, m.qty>> \in {<<8, 1>>, <<20, 1>>}}
    \cup {m \in CancelMsg : m.qty = 1} \cup DeleteMsg
    \cup {m \in ExecuteMsg : m.qty # 0 /\ m.price \in {0, 8} /\ m.match = 1}
    \cup {m \in TradeMsg : m.side = "Buy" /\ m.price = 7 /\ m.qty = 1 /\ m.match = 1}

Symmetry == Permutations(MCRefs)

\* No step reads ops or the engine's counters, and no property reads them across
\* more than one step.
StateView == <<book, engine.Buy, engine.Sell, risk, wal, refused, unlogged, doubled>>
=============================================================================
