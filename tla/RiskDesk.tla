------------------------------ MODULE RiskDesk ------------------------------
(***************************************************************************)
(* The risk engine in use: orders are checked before they are sent, an     *)
(* accepted order is open until the market has filled it, and every fill   *)
(* is reported through on_fill.  The market is external: it fills any open *)
(* order, whole or in part, at any time.                                   *)
(***************************************************************************)
EXTENDS RiskEngine, FiniteSets

CONSTANTS Stocks, Prices, Qtys,
          MaxOrders,    \* bound on the orders checked
          MaxOpen       \* how many accepted orders may be open at once

ASSUME OrdersAssumption ==
         Prices \subseteq Nat /\ Qtys \subseteq Nat /\ MaxOpen \in Nat \ {0}

\* The table has an entry for every stock traded: find_or_create gives the
\* stocks beyond MAX_INSTRUMENTS the first entry, and their positions mix.
ASSUME StocksAssumption ==
         IsFiniteSet(Stocks) /\ Cardinality(Stocks) <= MAX_INSTRUMENTS

VARIABLES positions,    \* the risk engine's table
          open,         \* accepted orders not yet filled, by order number
          filled,       \* history: signed shares filled per stock
          orders        \* orders checked so far

vars == <<positions, open, filled, orders>>

Init == /\ positions = << >>
        /\ open = << >>
        /\ filled = [s \in Stocks |-> 0]
        /\ orders = 0

Request == [stock : Stocks, side : {"Buy", "Sell"}, price : Prices, qty : Qtys]

Submit(o) ==
  /\ orders < MaxOrders
  /\ Len(open) < MaxOpen
  /\ positions' = Checked(positions, o)
  /\ open' = IF check(positions, o) = "Accepted" THEN Append(open, o) ELSE open
  /\ orders' = orders + 1
  /\ UNCHANGED filled

Fill(i, n) ==
  LET o == open[i]
  IN  /\ n <= o.qty
      /\ positions' = on_fill(positions, o.stock, o.side, n)
      /\ filled' = [filled EXCEPT ![o.stock] = @ + Signed(o.side, n)]
      /\ open' = IF n = o.qty THEN RemoveAt(open, i)
                 ELSE [open EXCEPT ![i].qty = @ - n]
      /\ UNCHANGED orders

SetReference(stock, price) ==
  /\ positions' = set_reference_price(positions, stock, price)
  /\ UNCHANGED <<open, filled, orders>>

Next == \/ \E o \in Request : Submit(o)
        \/ \E i \in DOMAIN open : \E n \in 1 .. MAX_ORDER_SIZE : Fill(i, n)
        \/ \E s \in Stocks, p \in Prices \ {0} : SetReference(s, p)

Spec == Init /\ [][Next]_vars

----------------------------------------------------------------------------
\* "per-instrument position tracker": every entry holds the net of its own
\* stock's fills and of no other's, up to a table that is exactly full.
PositionsAreOwn ==
  \A s \in Stocks :
    filled[s] = IF Listed(positions, s) = 0 THEN 0
                ELSE positions[Listed(positions, s)].net

\* "would this fill breach max net position?": check sees filled shares only,
\* so orders open at the same time may together pass the limit, but never by
\* more than all of them but one; with one order open at a time a position
\* never passes its limit, long or short.
Overshoot == (MaxOpen - 1) * MAX_ORDER_SIZE

OvershootBounded ==
  \A s \in Stocks : Distance(filled[s], 0) <= MAX_NET_POSITION + Overshoot
=============================================================================
