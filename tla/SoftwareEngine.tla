--------------------------- MODULE SoftwareEngine ---------------------------
(***************************************************************************)
(* The STL engine (software_engine.cpp) as operators on its state: two     *)
(* ladders of price levels, each a queue of [ref, qty], and its counters.  *)
(* A ladder is a function whose domain is the set of prices that have a    *)
(* level, as the keys of a std::map.  Of the counters, orphan_ops is kept; *)
(* the totals orders_processed, matches_made and shares_traded only grow   *)
(* and are read by nothing but the final report.                           *)
(***************************************************************************)
EXTENDS OrderOps, SequencesExt

EmptyLadder == [p \in {} |-> << >>]

NewEngine == [Buy |-> EmptyLadder, Sell |-> EmptyLadder, orphan_ops |-> 0,
              last_price |-> 0]

----------------------------------------------------------------------------
(* Ladders *)

Level(b, p) == IF p \in DOMAIN b THEN b[p] ELSE << >>

\* An emptied level is erased from the map.
SetLevel(b, p, q) ==
  IF q = << >> THEN [x \in DOMAIN b \ {p} |-> b[x]]
  ELSE [x \in DOMAIN b \cup {p} |-> IF x = p THEN q ELSE b[x]]

\* begin() of the map: the highest bid, the lowest ask.
Best(side, ps) ==
  CHOOSE p \in ps : \A x \in ps : IF side = "Buy" THEN x <= p ELSE x >= p

IndexOf(q, ref) == SelectInSeq(q, LAMBDA o : o.ref = ref)

\* Take up to n shares off the i-th order of a queue, dropping it at zero.
Shrink(q, i, n) ==
  IF q[i].qty <= n THEN RemoveAt(q, i) ELSE [q EXCEPT ![i].qty = @ - n]

rest_order(b, p, ref, qty) ==
  IF qty = 0 THEN b ELSE SetLevel(b, p, Append(Level(b, p), [ref |-> ref, qty |-> qty]))

HasRef(b, p, ref) == IndexOf(Level(b, p), ref) # 0

remove_ref(b, p, ref) ==
  SetLevel(b, p, RemoveAt(Level(b, p), IndexOf(Level(b, p), ref)))

reduce_ref(b, p, ref, n) ==
  SetLevel(b, p, Shrink(Level(b, p), IndexOf(Level(b, p), ref), n))

\* The levels of a ladder in which an order with this reference rests.
LevelsWith(b, ref) == {p \in DOMAIN b : HasRef(b, p, ref)}

\* All the shares of a level.
LevelQty(q) ==
  LET upto[i \in 0 .. Len(q)] == IF i = 0 THEN 0 ELSE upto[i - 1] + q[i].qty
  IN  upto[Len(q)]

\* best_bid and best_ask: the top level of a side; without one they return
\* false and leave the caller's zeros.
best(e, side) ==
  IF DOMAIN e[side] = {} THEN [px |-> 0, qty |-> 0]
  ELSE LET p == Best(side, DOMAIN e[side]) IN [px |-> p, qty |-> LevelQty(e[side][p])]

\* What book_digest folds of one side, best level first: the price, then every
\* order of the queue.
Walk(e, side) ==
  LET prices == SetToSortSeq(DOMAIN e[side],
                             LAMBDA x, y : IF side = "Buy" THEN x > y ELSE x < y)
      folded(p) == <<p>> \o FlattenSeq([i \in DOMAIN e[side][p] |->
                                         <<e[side][p][i].ref, e[side][p][i].qty>>])
  IN  FlattenSeq([i \in DOMAIN prices |-> folded(prices[i])])

\* The FNV-1a hash of the walk over both sides, represented by the walk.
book_digest(e) == Walk(e, "Buy") \o Walk(e, "Sell")

----------------------------------------------------------------------------
(* apply: one replayed operation *)

Printed(e, op) == [e EXCEPT !.last_price = op.price]

Orphan(e) == [e EXCEPT !.orphan_ops = @ + 1]

\* The level the operation names, or else the first level of that side that
\* has the order: a C message prints at a price the order does not rest at.
ExecuteLevel(e, op) ==
  IF HasRef(e[op.side], op.price, op.ref) THEN op.price
  ELSE Best(op.side, LevelsWith(e[op.side], op.ref))

\* Mutant: the order is looked for at the printed price only.
ApplyExecute_NoScan(e, op) ==
  LET reduced == IF HasRef(e[op.side], op.price, op.ref)
                   THEN [e EXCEPT ![op.side] = reduce_ref(@, op.price, op.ref, op.qty)]
                   ELSE Orphan(e)
  IN  IF op.match # 0 THEN Printed(reduced, op) ELSE reduced

\* Mutant: an order found by the scan is counted as an orphan all the same.
ApplyExecute_ScanCounts(e, op) ==
  LET found   == LevelsWith(e[op.side], op.ref) # {}
      missed  == IF HasRef(e[op.side], op.price, op.ref) THEN e ELSE Orphan(e)
      reduced == IF found
                   THEN [missed EXCEPT ![op.side] =
                           reduce_ref(@, ExecuteLevel(e, op), op.ref, op.qty)]
                   ELSE missed
  IN  IF op.match # 0 THEN Printed(reduced, op) ELSE reduced

ApplyExecute(e, op) ==
  LET found   == LevelsWith(e[op.side], op.ref) # {}
      reduced == IF found
                   THEN [e EXCEPT ![op.side] =
                           reduce_ref(@, ExecuteLevel(e, op), op.ref, op.qty)]
                   ELSE Orphan(e)
  IN  IF op.match # 0 THEN Printed(reduced, op) ELSE reduced

apply(e, op) ==
  CASE op.action = "Add" ->
         [e EXCEPT ![op.side] = rest_order(@, op.price, op.ref, op.qty)]
    [] op.action = "Execute" -> ApplyExecute(e, op)
    [] op.action = "Cancel" ->
         IF HasRef(e[op.side], op.price, op.ref)
           THEN [e EXCEPT ![op.side] = reduce_ref(@, op.price, op.ref, op.qty)]
           ELSE Orphan(e)
    [] op.action = "Delete" ->
         IF HasRef(e[op.side], op.price, op.ref)
           THEN [e EXCEPT ![op.side] = remove_ref(@, op.price, op.ref)]
           ELSE Orphan(e)
    [] op.action = "Trade" -> Printed(e, op)

----------------------------------------------------------------------------
(* submit: an order we match ourselves, against the best order opposite *)

Opposite(side) == IF side = "Buy" THEN "Sell" ELSE "Buy"

Crosses(e, o) ==
  LET ladder == e[Opposite(o.side)]
  IN  /\ DOMAIN ladder # {}
      /\ LET top == Best(Opposite(o.side), DOMAIN ladder)
         IN  IF o.side = "Buy" THEN top <= o.price ELSE top >= o.price

\* The match result: the front order of the top opposite level.
Match(e, o) ==
  LET top   == Best(Opposite(o.side), DOMAIN e[Opposite(o.side)])
      front == Head(e[Opposite(o.side)][top])
  IN  [price |-> top, qty |-> Smaller(o.qty, front.qty), resting |-> front.ref,
       incoming |-> o.ref]

\* The state after submit.  Shares of a crossing order that the front order
\* does not cover are not rested.
submit(e, o) ==
  IF Crosses(e, o)
    THEN LET m == Match(e, o)
             s == Opposite(o.side)
         IN  Printed([e EXCEPT ![s] =
                        SetLevel(@, m.price, Shrink(Level(@, m.price), 1, m.qty))], m)
    ELSE [e EXCEPT ![o.side] =
            SetLevel(@, o.price, Append(Level(@, o.price), [ref |-> o.ref, qty |-> o.qty]))]
=============================================================================
