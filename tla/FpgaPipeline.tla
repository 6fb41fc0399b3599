---------------------------- MODULE FpgaPipeline ----------------------------
(***************************************************************************)
(* The five-stage matching pipeline (pipeline.cpp).  One action per call   *)
(* of clock; flush is the NUM_STAGES calls it makes, with no other call in *)
(* between.  A register is stages_[i]; stages_[0] is never used.           *)
(*                                                                         *)
(* A ladder slot keeps its price and its queue of [ref, qty]; an occupancy *)
(* bitmap is the set of slots whose bit is set.  The caller numbers its    *)
(* orders by clock cycle.  The matches_made_ total is left out.            *)
(***************************************************************************)
EXTENDS SoftwareEngine

CONSTANTS MAX_ORDERS, TICK, LADDER_SLOTS, NUM_STAGES,
          MaxCycles,    \* bound on clock cycles
          MaxOrders,    \* bound on orders among them
          Unset,        \* base_price_ before the first order
          NoMatch       \* result.matched is false

MatchResult == [price : Nat, qty : Nat, resting : Nat, incoming : Nat]

ASSUME LadderAssumption ==
         /\ TICK \in Nat \ {0} /\ LADDER_SLOTS \in Nat \ {0}
         /\ MAX_ORDERS \in Nat \ {0} /\ NUM_STAGES = 5
ASSUME CyclesAssumption == MaxCycles \in Nat /\ 1 .. MaxCycles \subseteq Refs
ASSUME UnsetAssumption == Unset \notin Nat /\ NoMatch \notin MatchResult

VARIABLES stages,       \* stages_[1] to stages_[4]
          levels, bits, \* per side: the ladder and its bitmap
          base_price, window_misses, cycles, orders_processed,
          output,       \* what the last clock returned
          flushing,     \* calls of clock that flush has still to make
          input,        \* history: the order the last clock was given
          last_price    \* history: the price of the last match executed

vars == <<stages, levels, bits, base_price, window_misses, cycles,
          orders_processed, output, flushing, input, last_price>>

Slots == 0 .. LADDER_SLOTS - 1
Sides == {"Buy", "Sell"}

Order(ref, side, price, qty) == [ref |-> ref, side |-> side, price |-> price, qty |-> qty]
Register(order, valid, index, result) ==
  [order |-> order, valid |-> valid, level_index |-> index, result |-> result]

\* What clock is given when there is no order: Order{} with valid = 0.
NoOrder == Order(0, "Buy", 0, 0)
Bubble == Register(NoOrder, FALSE, 0, NoMatch)

Init == /\ stages = [i \in 1 .. 4 |-> Bubble]
        /\ levels = [s \in Sides |-> [i \in Slots |-> [price |-> 0, orders |-> << >>]]]
        /\ bits = [s \in Sides |-> {}]
        /\ base_price = Unset /\ window_misses = 0
        /\ cycles = 0 /\ orders_processed = 0
        /\ output = NoMatch /\ flushing = 0
        /\ input = NoOrder /\ last_price = 0

----------------------------------------------------------------------------
(* The ladder *)

\* The window is centred on the first price routed.
Base(price) ==
  LET half == (LADDER_SLOTS \div 2) * TICK
  IN  IF base_price # Unset THEN base_price
      ELSE IF price > half THEN price - half ELSE 0

slot_of(price) == (price - Base(price)) \div TICK

InWindow(price) == price >= Base(price) /\ slot_of(price) < LADDER_SLOTS

\* best_bid and best_ask: the highest bid slot, the lowest ask slot.
BestSlot(bs, side) == Best(side, bs[side])

----------------------------------------------------------------------------
(* The stages *)

stage1_decode(order, valid) == Register(order, valid, 0, NoMatch)

Missed(r) == r.valid /\ ~ InWindow(r.order.price)

stage2_route(r) ==
  IF ~ r.valid THEN r
  ELSE IF Missed(r) THEN [r EXCEPT !.valid = FALSE]
  ELSE [r EXCEPT !.level_index = slot_of(r.order.price)]

\* The best level opposite o, in the ladders ls with the bitmaps bs.
OppositeLevel(ls, bs, o) ==
  ls[Opposite(o.side)][BestSlot(bs, Opposite(o.side))]

\* Mutant: an order at exactly the opposite price does not match.
Marketable_Strict(ls, bs, o) ==
  /\ bs[Opposite(o.side)] # {}
  /\ LET level == OppositeLevel(ls, bs, o)
     IN  /\ level.orders # << >>
         /\ IF o.side = "Buy" THEN level.price < o.price ELSE level.price > o.price

Marketable(ls, bs, o) ==
  /\ bs[Opposite(o.side)] # {}
  /\ LET level == OppositeLevel(ls, bs, o)
     IN  /\ level.orders # << >>
         /\ IF o.side = "Buy" THEN level.price <= o.price ELSE level.price >= o.price

stage3_match(ls, bs, r) ==
  IF r.valid /\ Marketable(ls, bs, r.order)
    THEN LET level == OppositeLevel(ls, bs, r.order)
             front == Head(level.orders)
         IN  [r EXCEPT !.result = [price    |-> level.price,
                                   qty      |-> Smaller(r.order.qty, front.qty),
                                   resting  |-> front.ref,
                                   incoming |-> r.order.ref]]
    ELSE r

\* Take n shares off the front order, shifting the others forward at zero.
TakeFront(q, n) == IF q[1].qty = n THEN Tail(q) ELSE [q EXCEPT ![1].qty = @ - n]

\* Mutant: the bit of a level that has become empty stays set.
ExecuteMatch_KeepsBit(r) ==
  LET s    == Opposite(r.order.side)
      slot == BestSlot(bits, s)
  IN  /\ levels' = [levels EXCEPT ![s][slot].orders = TakeFront(@, r.result.qty)]
      /\ UNCHANGED bits

\* stage4_execute of a matched order: the best level opposite is looked up
\* again.
ExecuteMatch(r) ==
  LET s     == Opposite(r.order.side)
      slot  == BestSlot(bits, s)
      queue == TakeFront(levels[s][slot].orders, r.result.qty)
  IN  /\ levels' = [levels EXCEPT ![s][slot].orders = queue]
      /\ bits' = IF queue = << >> THEN [bits EXCEPT ![s] = @ \ {slot}] ELSE bits

\* stage4_execute of any other: it rests at the routed slot if there is room.
ExecuteRest(r) ==
  LET s     == r.order.side
      slot  == r.level_index
      queue == levels[s][slot].orders
  IN  IF Len(queue) < MAX_ORDERS
        THEN /\ levels' = [levels EXCEPT ![s][slot] =
                    [price  |-> r.order.price,
                     orders |-> Append(queue, [ref |-> r.order.ref, qty |-> r.order.qty])]]
             /\ bits' = [bits EXCEPT ![s] = @ \cup {slot}]
        ELSE UNCHANGED <<levels, bits>>

stage4_execute(r) ==
  IF ~ r.valid THEN UNCHANGED <<levels, bits, last_price>>
  ELSE IF r.result # NoMatch THEN ExecuteMatch(r) /\ last_price' = r.result.price
  ELSE ExecuteRest(r) /\ UNCHANGED last_price

\* Mutant: stage 3 looks at the book before stage 4 has changed it.
Advance_MatchFirst(order, valid) ==
  /\ output' = stages[4].result
  /\ stage4_execute(stages[3])
  /\ stages' = [i \in 1 .. 4 |->
                  CASE i = 4 -> stages[3]
                    [] i = 3 -> stage3_match(levels, bits, stages[2])
                    [] i = 2 -> stage2_route(stages[1])
                    [] i = 1 -> stage1_decode(order, valid)]

\* Mutant: the result leaves a stage early.
Advance_Early(order, valid) ==
  /\ output' = stages[3].result
  /\ stage4_execute(stages[3])
  /\ stages' = [i \in 1 .. 4 |->
                  CASE i = 4 -> stages[3]
                    [] i = 3 -> stage3_match(levels', bits', stages[2])
                    [] i = 2 -> stage2_route(stages[1])
                    [] i = 1 -> stage1_decode(order, valid)]

\* Back to front: stage 3 sees what stage 4 has done to the book in the same
\* cycle.
Advance(order, valid) ==
  /\ output' = stages[4].result
  /\ stage4_execute(stages[3])
  /\ stages' = [i \in 1 .. 4 |->
                  CASE i = 4 -> stages[3]
                    [] i = 3 -> stage3_match(levels', bits', stages[2])
                    [] i = 2 -> stage2_route(stages[1])
                    [] i = 1 -> stage1_decode(order, valid)]

clock(order, valid) ==
  /\ cycles < MaxCycles
  /\ cycles' = cycles + 1
  /\ orders_processed' = IF valid THEN orders_processed + 1 ELSE orders_processed
  /\ Advance(order, valid)
  /\ input' = order
  /\ window_misses' = IF Missed(stages[1]) THEN window_misses + 1 ELSE window_misses
  /\ base_price' = IF stages[1].valid THEN Base(stages[1].order.price) ELSE base_price

----------------------------------------------------------------------------
Clock(side, price, qty) ==
  /\ flushing = 0 /\ orders_processed < MaxOrders
  /\ clock(Order(cycles + 1, side, price, qty), TRUE)
  /\ UNCHANGED flushing

Idle == /\ flushing = 0
        /\ clock(NoOrder, FALSE)
        /\ UNCHANGED flushing

\* Mutant: flush makes two calls too few.
flush_Short == /\ flushing = 0
               /\ cycles + NUM_STAGES <= MaxCycles
               /\ clock(NoOrder, FALSE)
               /\ flushing' = NUM_STAGES - 3

\* flush, and the rest of the loop in it.
flush == /\ flushing = 0
         /\ cycles + NUM_STAGES <= MaxCycles
         /\ clock(NoOrder, FALSE)
         /\ flushing' = NUM_STAGES - 1

FlushStep == /\ flushing > 0
             /\ clock(NoOrder, FALSE)
             /\ flushing' = flushing - 1

Next == \/ \E s \in Side, p \in Prices, q \in Qtys : Clock(s, p, q)
        \/ Idle
        \/ flush
        \/ FlushStep

Spec == Init /\ [][Next]_vars

----------------------------------------------------------------------------
\* The occupancy bitmap the priority encoder reads says exactly which slots of
\* the ladder have orders.
BitsMarkLevels ==
  \A s \in Sides : bits[s] = {i \in Slots : levels[s][i].orders # << >>}

\* The decision stage 3 took is still right when stage 4 acts on it a cycle
\* later: the order it matched is still at the front of the best level with
\* the shares it is to give, and an order it let pass still does not cross.
DecisionStillHolds ==
  stages[3].valid =>
    stage3_match(levels, bits, [stages[3] EXCEPT !.result = NoMatch]).result
      = stages[3].result

\* CYCLE_LATENCY: a result comes out in the fifth cycle, counting the one in
\* which its order went in, whatever bubbles and misses travel with it.
FixedLatency == output # NoMatch => output.incoming = cycles - 4

\* "drain remaining orders after last input": when flush returns, no order is
\* left in a register.
FlushDrains ==
  [][flushing = 1 /\ flushing' = 0 => \A i \in 1 .. 4 : ~ stages'[i].valid]_vars

\* The ladder as SoftwareEngine's map from prices to queues.
Ladder(s) ==
  [p \in {levels[s][i].price : i \in bits[s]} |->
     levels[s][CHOOSE i \in bits[s] : levels[s][i].price = p].orders]

One(order) == IF order = NoOrder THEN << >> ELSE <<order>>

\* The orders not yet executed, the oldest first.
InFlight == One(stages[3].order) \o One(stages[2].order) \o One(stages[1].order)

\* The window as the order in stage 1 will find it.
NextBase == IF stages[1].valid THEN Base(stages[1].order.price) ELSE base_price

Engine == INSTANCE MatchingEngine
            WITH Depth   <- MAX_ORDERS,
                 engine  <- [Buy |-> Ladder("Buy"), Sell |-> Ladder("Sell"),
                             orphan_ops |-> 0, last_price |-> last_price],
                 base    <- NextBase,
                 waiting <- InFlight,
                 answer  <- [order |-> stages[4].order, result |-> stages[4].result]

\* Overlapping orders in a pipeline changes nothing: with prices on the tick
\* grid, every order clock is given leaves stage 4 once, in turn, with the
\* result the STL engine gives that same order after the ones before it, and
\* the ladder is then that engine's book.  An order outside the window gets no
\* match and changes nothing; one that finds its level full is not rested.
ImplementsEngine == Engine!Spec
=============================================================================
