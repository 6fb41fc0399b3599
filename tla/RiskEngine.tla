----------------------------- MODULE RiskEngine -----------------------------
(***************************************************************************)
(* Pre-trade risk checks (risk_engine.cpp) as operators on its state: the  *)
(* sequence of instrument entries in use, each with its net position and   *)
(* reference price.                                                        *)
(***************************************************************************)
EXTENDS Integers, Sequences, SequencesExt

CONSTANTS MAX_ORDER_SIZE, MAX_NET_POSITION, MAX_PRICE_BAND, MAX_INSTRUMENTS

ASSUME LimitsAssumption ==
         /\ MAX_ORDER_SIZE \in Nat /\ MAX_NET_POSITION \in Nat
         /\ MAX_PRICE_BAND \in Nat /\ MAX_INSTRUMENTS \in Nat \ {0}

NewEntry(stock) == [stock |-> stock, net |-> 0, ref_price |-> 0]

Listed(ps, stock) == SelectInSeq(ps, LAMBDA e : e.stock = stock)

\* find_or_create: the table afterwards, and the index it returns.  When the
\* table is full an unknown stock is given the first entry.
Create(ps, stock) ==
  IF Listed(ps, stock) = 0 /\ Len(ps) < MAX_INSTRUMENTS
    THEN Append(ps, NewEntry(stock)) ELSE ps

Slot(ps, stock) ==
  IF Listed(Create(ps, stock), stock) = 0 THEN 1 ELSE Listed(Create(ps, stock), stock)

Signed(side, qty) == IF side = "Buy" THEN qty ELSE -qty

Distance(a, b) == IF a > b THEN a - b ELSE b - a

\* The checks that come before the instrument is looked up.
Malformed(o) == o.qty = 0 \/ o.price = 0

\* Mutant: the short side of the position limit is not tested.
check_LongOnly(ps, o) ==
  LET e == Create(ps, o.stock)[Slot(ps, o.stock)]
  IN  IF Malformed(o) THEN "InvalidOrder"
      ELSE IF o.qty > MAX_ORDER_SIZE THEN "ExceedsMaxSize"
      ELSE IF e.ref_price > 0 /\ Distance(o.price, e.ref_price) >= MAX_PRICE_BAND
        THEN "PriceOutOfBand"
      ELSE IF e.net + Signed(o.side, o.qty) > MAX_NET_POSITION THEN "ExceedsPosition"
      ELSE "Accepted"

check(ps, o) ==
  LET e == Create(ps, o.stock)[Slot(ps, o.stock)]
      projected == e.net + Signed(o.side, o.qty)
  IN  IF Malformed(o) THEN "InvalidOrder"
      ELSE IF o.qty > MAX_ORDER_SIZE THEN "ExceedsMaxSize"
      ELSE IF e.ref_price > 0 /\ Distance(o.price, e.ref_price) >= MAX_PRICE_BAND
        THEN "PriceOutOfBand"
      ELSE IF projected > MAX_NET_POSITION \/ projected < -MAX_NET_POSITION
        THEN "ExceedsPosition"
      ELSE "Accepted"

\* The table after check.
Checked(ps, o) ==
  IF Malformed(o) \/ o.qty > MAX_ORDER_SIZE THEN ps ELSE Create(ps, o.stock)

\* Mutant: a sale adds to the position.
on_fill_Unsigned(ps, stock, side, qty) ==
  [Create(ps, stock) EXCEPT ![Slot(ps, stock)].net = @ + qty]

on_fill(ps, stock, side, qty) ==
  [Create(ps, stock) EXCEPT ![Slot(ps, stock)].net = @ + Signed(side, qty)]

set_reference_price(ps, stock, price) ==
  [Create(ps, stock) EXCEPT ![Slot(ps, stock)].ref_price = price]
=============================================================================
