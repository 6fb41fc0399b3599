--------------------------- MODULE MatchingEngine ---------------------------
(***************************************************************************)
(* What a matching engine does with the orders it is given: it answers     *)
(* them one at a time, in the order they came, each with SoftwareEngine's  *)
(* submit against the book as the orders before it have left it.  A level  *)
(* holds at most Depth orders: an order that does not cross and finds its  *)
(* level full is not rested.  An order outside the window of prices, which *)
(* the first order centres, is answered with no match and changes nothing. *)
(***************************************************************************)
EXTENDS SoftwareEngine

CONSTANTS Depth,                \* orders a price level holds
          TICK, LADDER_SLOTS,   \* the window: its tick, and how many it has
          Unset,                \* no window yet
          NoOrder, NoMatch      \* no order; the result of one that did not match

VARIABLES engine, base,
          waiting,              \* orders given and not answered, in order
          input,                \* what the last step was given
          answer                \* what the last step answered, and to which order

vars == <<engine, base, waiting, input, answer>>

Incoming == [ref : Refs, side : Side, price : Prices, qty : Qtys]

Nothing == [order |-> NoOrder, result |-> NoMatch]

Init == /\ engine = NewEngine /\ base = Unset
        /\ waiting = << >> /\ input = NoOrder /\ answer = Nothing

\* The window opens half of its slots below the first price.
CentredOn(price) ==
  LET half == (LADDER_SLOTS \div 2) * TICK
  IN  IF price > half THEN price - half ELSE 0

Tradable(o) == o.price >= base /\ (o.price - base) \div TICK < LADDER_SLOTS

Response(o) == IF Tradable(o) /\ Crosses(engine, o) THEN Match(engine, o) ELSE NoMatch

Full(o) == ~ Crosses(engine, o) /\ Len(Level(engine[o.side], o.price)) >= Depth

\* The order that has waited longest is answered, or none is.
Serve == LET o == Head(waiting)
         IN  /\ waiting # << >>
             /\ answer' = [order |-> o, result |-> Response(o)]
             /\ engine' = IF Tradable(o) /\ ~ Full(o) THEN submit(engine, o) ELSE engine

Rest == answer' = Nothing /\ UNCHANGED engine

One(o) == IF o = NoOrder THEN << >> ELSE <<o>>

\* The next order, if there is one, joins those still waiting.
Take(still) ==
  /\ input' \in Incoming \cup {NoOrder}
  /\ waiting' = still \o One(input')
  /\ base' = IF base = Unset /\ input' # NoOrder THEN CentredOn(input'.price) ELSE base

Next == \/ Serve /\ Take(Tail(waiting))
        \/ Rest /\ Take(waiting)

Spec == Init /\ [][Next]_vars
=============================================================================
