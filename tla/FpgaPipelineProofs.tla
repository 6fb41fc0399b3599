------------------------- MODULE FpgaPipelineProofs -------------------------
(***************************************************************************)
(* Proofs about the five-stage pipeline, for every size of the ladder and  *)
(* of its levels, every tick and every sequence of orders and bubbles.     *)
(***************************************************************************)
EXTENDS FpgaPipeline, TLAPS, SequenceTheorems, WellFoundedInduction

(* The best of a set of slots *)

\* A set of natural numbers that is not empty has a least element.
LEMMA LeastNatural ==
  ASSUME NEW S \in SUBSET Nat, S # {}
  PROVE  \E n \in S : \A m \in S : n <= m
<1> DEFINE R == {ss \in Nat \X Nat : ss[1] < ss[2]}
<1>1. IsWellFoundedOn(R, Nat)
  BY NatLessThanWellFounded DEF OpToRel
<1> HIDE DEF R
<1>2. PICK n \in S : \A m \in S : ~ (<<m, n>> \in R)
  BY <1>1, WFMin
<1>3. \A m \in S : ~ (m < n)
  BY <1>2 DEF R
<1> QED BY <1>3

\* And a greatest one, if it is bounded.
LEMMA GreatestNatural ==
  ASSUME NEW S \in SUBSET Nat, S # {}, NEW b \in Nat, \A m \in S : m <= b
  PROVE  \E n \in S : \A m \in S : m <= n
<1> DEFINE T == {b - m : m \in S}
<1>1. T \in SUBSET Nat /\ T # {}
  <2>1. \A m \in S : b - m \in Nat
    OBVIOUS
  <2>2. PICK m \in S : TRUE
    OBVIOUS
  <2>3. b - m \in T
    OBVIOUS
  <2> QED BY <2>1, <2>3
<1>2. PICK t \in T : \A u \in T : t <= u
  <2> HIDE DEF T
  <2> QED BY <1>1, LeastNatural
<1>3. PICK n \in S : t = b - n
  BY <1>2
<1>4. ASSUME NEW m \in S PROVE m <= n
  <2>1. b - m \in T
    OBVIOUS
  <2>2. b - n <= b - m
    BY <1>2, <1>3, <2>1
  <2> QED BY <2>2
<1> QED BY <1>4

\* p is the best of ps on this side.
IsBest(side, ps, p) ==
  p \in ps /\ \A x \in ps : IF side = "Buy" THEN x <= p ELSE x >= p

\* No two elements are both the best, so Best is the one that is.
LEMMA BestUnique ==
  ASSUME NEW side, NEW ps \in SUBSET Nat, NEW p, IsBest(side, ps, p)
  PROVE  Best(side, ps) = p
<1>1. IsBest(side, ps, Best(side, ps))
  BY DEF Best, IsBest
<1> DEFINE q == Best(side, ps)
<1> HIDE DEF q
<1>2. p \in Nat /\ q \in Nat /\ IsBest(side, ps, q)
  BY <1>1 DEF IsBest, q
<1>3. p <= q /\ q <= p
  BY <1>2 DEF IsBest
<1> QED BY <1>2, <1>3 DEF q

\* The priority encoder finds a slot as long as a bit is set.
LEMMA BestExists ==
  ASSUME NEW side, NEW ps \in SUBSET Slots, ps # {}
  PROVE  IsBest(side, ps, Best(side, ps))
<1>1. ps \in SUBSET Nat /\ LADDER_SLOTS \in Nat /\ \A x \in ps : x <= LADDER_SLOTS
  BY LadderAssumption DEF Slots
<1>2. \E p : IsBest(side, ps, p)
  <2>1. CASE side = "Buy"
    BY <1>1, <2>1, GreatestNatural DEF IsBest
  <2>2. CASE side # "Buy"
    BY <1>1, <2>2, LeastNatural DEF IsBest
  <2> QED BY <2>1, <2>2
<1> QED BY <1>2 DEF Best, IsBest

----------------------------------------------------------------------------
(* The invariant *)

\* What the ladder and the registers hold.
QueueEntry == [ref : Nat, qty : Nat]

LadderLevel == [price : Nat, orders : Seq(QueueEntry)]

AnyOrder == [ref : Nat, side : Sides, price : Nat, qty : Nat]

Stage == [order : AnyOrder, valid : BOOLEAN, level_index : Nat,
          result : MatchResult \cup {NoMatch}]

\* The types of registers, ladders, bitmaps and results.
Typed ==
  /\ stages \in [1 .. 4 -> Stage]
  /\ levels \in [Sides -> [Slots -> LadderLevel]]
  /\ bits \in [Sides -> SUBSET Slots]
  /\ base_price \in Nat \cup {Unset}
  /\ cycles \in Nat /\ flushing \in Nat

\* A register holds the order that went in as many cycles ago as it is stages
\* down, with the fields the caller gave it.
Numbered ==
  \A i \in 1 .. 4 :
    /\ stages[i].valid => /\ stages[i].order.ref = cycles - i + 1
                          /\ stages[i].order.ref \in 1 .. MaxCycles
                          /\ stages[i].order.side \in Side
                          /\ stages[i].order.price \in Prices
                          /\ stages[i].order.qty \in Qtys
    /\ stages[i].result # NoMatch => stages[i].result.incoming = cycles - i + 1

\* Nothing matches before stage 3.
Unmatched == stages[1].result = NoMatch /\ stages[2].result = NoMatch

\* The slot an order was routed to.
Routed(r) == /\ base_price \in Nat
             /\ r.order.price >= base_price
             /\ r.level_index = (r.order.price - base_price) \div TICK
             /\ r.level_index \in Slots

\* An order behind stage 1 is in the slot its price asks for.
OrdersRouted == \A i \in {2, 3} : stages[i].valid => Routed(stages[i])

\* While flush runs, the registers behind the bubbles it has sent are empty.
Draining == flushing > 0 => \A i \in 1 .. 4 : i <= NUM_STAGES - flushing => ~ stages[i].valid

\* The inductive invariant.
IInv == /\ Typed /\ Numbered /\ Unmatched /\ OrdersRouted /\ Draining
        /\ BitsMarkLevels /\ DecisionStillHolds /\ FixedLatency

\* What the caller may put in: an order with the number of its cycle, or none.
CallerOrder(order, valid) ==
  /\ order \in AnyOrder /\ valid \in BOOLEAN
  /\ valid => /\ order.ref = cycles + 1 /\ order.ref \in 1 .. MaxCycles
              /\ order.side \in Side /\ order.price \in Prices /\ order.qty \in Qtys

\* The invariant holds before the first cycle.
LEMMA InitIInv == Init => IInv
<1> SUFFICES ASSUME Init PROVE IInv
  OBVIOUS
<1>1. Bubble \in Stage /\ ~ Bubble.valid /\ Bubble.result = NoMatch
  BY DEF Bubble, Register, NoOrder, Order, Stage, AnyOrder, Sides
<1>2. \A i \in 1 .. 4 : stages[i] = Bubble
  BY DEF Init
<1>3. [price |-> 0, orders |-> << >>] \in LadderLevel
  BY DEF LadderLevel
<1>4. Typed
  BY <1>1, <1>3 DEF Init, Typed
<1>5. Numbered
  BY <1>1, <1>2 DEF Numbered
<1>6. Unmatched /\ OrdersRouted
  BY <1>1, <1>2 DEF Unmatched, OrdersRouted
<1>7. Draining
  BY <1>1, <1>2 DEF Draining
<1>8. BitsMarkLevels
  BY DEF Init, BitsMarkLevels
<1>9. DecisionStillHolds
  BY <1>1, <1>2 DEF DecisionStillHolds
<1>10. FixedLatency
  BY DEF Init, FixedLatency
<1> QED BY <1>4, <1>5, <1>6, <1>7, <1>8, <1>9, <1>10 DEF IInv

----------------------------------------------------------------------------
(* The stages *)

LEMMA OppositeIs ==
  ASSUME NEW side \in Sides
  PROVE  Opposite(side) \in Sides /\ Opposite(side) # side
BY DEF Opposite, Sides

\* The base of the window, set or about to be.
LEMMA BaseIs ==
  ASSUME Typed, NEW price \in Nat
  PROVE  Base(price) \in Nat
<1> DEFINE half == (LADDER_SLOTS \div 2) * TICK
<1>1. half \in Nat
  BY LadderAssumption
<1>2. Base(price) = IF base_price # Unset THEN base_price
                    ELSE IF price > half THEN price - half ELSE 0
  BY DEF Base
<1> HIDE DEF half
<1> QED BY <1>1, <1>2 DEF Typed

\* Stage 2 passes the order on, with its slot if that is in the window.
LEMMA RouteIs ==
  ASSUME Typed, NEW r \in Stage
  PROVE  /\ stage2_route(r) \in Stage
         /\ stage2_route(r).order = r.order
         /\ stage2_route(r).result = r.result
         /\ stage2_route(r).valid =>
              /\ r.valid
              /\ r.order.price >= Base(r.order.price)
              /\ stage2_route(r).level_index =
                   (r.order.price - Base(r.order.price)) \div TICK
              /\ stage2_route(r).level_index \in Slots
<1>1. r.order.price \in Nat
  BY DEF Stage, AnyOrder
<1>2. CASE ~ r.valid
  BY <1>2 DEF stage2_route
<1>3. CASE r.valid /\ Missed(r)
  <2>1. stage2_route(r) = [r EXCEPT !.valid = FALSE]
    BY <1>3 DEF stage2_route
  <2> QED BY <2>1 DEF Stage
<1>4. CASE r.valid /\ ~ Missed(r)
  <2> DEFINE p == r.order.price
             b == Base(p)
             k == (p - b) \div TICK
  <2>1. p >= b /\ k < LADDER_SLOTS /\ slot_of(p) = k
    BY <1>4 DEF Missed, InWindow, slot_of
  <2>2. b \in Nat
    BY <1>1, BaseIs
  <2> HIDE DEF b
  <2>3. k \in Nat
    BY <1>1, <2>1, <2>2, LadderAssumption
  <2>4. k \in Slots
    <3> HIDE DEF k
    <3> QED BY <2>1, <2>3, LadderAssumption DEF Slots
  <2>5. stage2_route(r) = [r EXCEPT !.level_index = k]
    BY <1>4, <2>1 DEF stage2_route
  <2> HIDE DEF k
  <2> QED BY <1>4, <2>1, <2>3, <2>4, <2>5 DEF Stage, k, b
<1> QED BY <1>2, <1>3, <1>4

\* Stage 3 matches a marketable order with the front of the best level.
LEMMA MatchIs ==
  ASSUME NEW ls \in [Sides -> [Slots -> LadderLevel]], NEW bs \in [Sides -> SUBSET Slots],
         NEW r \in Stage, r.result = NoMatch
  PROVE  /\ stage3_match(ls, bs, r) \in Stage
         /\ [stage3_match(ls, bs, r) EXCEPT !.result = NoMatch] = r
         /\ stage3_match(ls, bs, r).order = r.order
         /\ stage3_match(ls, bs, r).valid = r.valid
         /\ stage3_match(ls, bs, r).level_index = r.level_index
         /\ stage3_match(ls, bs, r).result # NoMatch =>
              /\ r.valid /\ Marketable(ls, bs, r.order)
              /\ stage3_match(ls, bs, r).result.incoming = r.order.ref
              /\ stage3_match(ls, bs, r).result.price = OppositeLevel(ls, bs, r.order).price
              /\ stage3_match(ls, bs, r).result.resting
                   = Head(OppositeLevel(ls, bs, r.order).orders).ref
              /\ stage3_match(ls, bs, r).result.qty
                   = Smaller(r.order.qty, Head(OppositeLevel(ls, bs, r.order).orders).qty)
         /\ stage3_match(ls, bs, r).result = NoMatch =>
              ~ (r.valid /\ Marketable(ls, bs, r.order))
<1>1. CASE ~ (r.valid /\ Marketable(ls, bs, r.order))
  <2>1. stage3_match(ls, bs, r) = r
    BY <1>1 DEF stage3_match
  <2>2. [r EXCEPT !.result = NoMatch] = r
    BY DEF Stage
  <2> QED BY <1>1, <2>1, <2>2
<1>2. CASE r.valid /\ Marketable(ls, bs, r.order)
  <2> DEFINE level == OppositeLevel(ls, bs, r.order)
             front == Head(level.orders)
             m == [price    |-> level.price,
                   qty      |-> Smaller(r.order.qty, front.qty),
                   resting  |-> front.ref,
                   incoming |-> r.order.ref]
  <2>1. stage3_match(ls, bs, r) = [r EXCEPT !.result = m]
    BY <1>2 DEF stage3_match
  <2>2. /\ r.order.side \in Sides /\ r.order.ref \in Nat /\ r.order.qty \in Nat
    BY DEF Stage, AnyOrder
  <2>3. level \in LadderLevel
    <3> DEFINE s == Opposite(r.order.side)
    <3>1. s \in Sides /\ bs[s] # {} /\ bs[s] \in SUBSET Slots
      BY <1>2, <2>2, OppositeIs DEF Marketable
    <3>2. Best(s, bs[s]) \in Slots
      BY <3>1, BestExists DEF IsBest
    <3> QED BY <3>1, <3>2 DEF OppositeLevel, BestSlot
  <2>4. level.orders # << >>
    BY <1>2 DEF Marketable
  <2> HIDE DEF level
  <2>5. front \in QueueEntry
    BY <2>3, <2>4 DEF LadderLevel
  <2> HIDE DEF front
  <2>6. m \in MatchResult
    BY <2>2, <2>3, <2>5 DEF MatchResult, LadderLevel, QueueEntry, Smaller
  <2>7. m # NoMatch
    BY <2>6, UnsetAssumption
  <2>8. /\ m.incoming = r.order.ref /\ m.price = level.price /\ m.resting = front.ref
        /\ m.qty = Smaller(r.order.qty, front.qty)
    OBVIOUS
  <2> HIDE DEF m
  <2>9. [r EXCEPT !.result = m].result = m
    BY DEF Stage
  <2>10. [r EXCEPT !.result = m] \in Stage
    BY <2>6 DEF Stage
  <2>11. [[r EXCEPT !.result = m] EXCEPT !.result = NoMatch] = r
    BY DEF Stage
  <2>12. /\ [r EXCEPT !.result = m].order = r.order
         /\ [r EXCEPT !.result = m].valid = r.valid
         /\ [r EXCEPT !.result = m].level_index = r.level_index
    BY DEF Stage
  <2> QED BY <1>2, <2>1, <2>7, <2>8, <2>9, <2>10, <2>11, <2>12 DEF level, front
<1> QED BY <1>1, <1>2

\* Taking shares off the front order leaves a queue.
LEMMA TakeFrontIs ==
  ASSUME NEW q \in Seq(QueueEntry), q # << >>, NEW n \in Nat, n <= q[1].qty
  PROVE  TakeFront(q, n) \in Seq(QueueEntry)
<1>1. q[1] \in QueueEntry /\ 1 \in 1 .. Len(q)
  OBVIOUS
<1>2. CASE q[1].qty = n
  BY <1>2 DEF TakeFront
<1>3. CASE q[1].qty # n
  <2> DEFINE e == [q[1] EXCEPT !.qty = @ - n]
  <2>1. q[1].qty - n \in Nat
    BY <1>1 DEF QueueEntry
  <2>2. e \in QueueEntry
    BY <1>1, <2>1 DEF QueueEntry
  <2>3. TakeFront(q, n) = [q EXCEPT ![1] = e]
    BY <1>3 DEF TakeFront
  <2> HIDE DEF e
  <2> QED BY <1>1, <2>2, <2>3
<1> QED BY <1>2, <1>3

----------------------------------------------------------------------------
(* Stage 4 acts on the decision of stage 3 *)

\* What stage 4 finds for an order with a match, and for one without.
LEMMA DecisionIs ==
  ASSUME IInv, stages[3].valid
  PROVE  /\ stages[3].result = NoMatch => ~ Marketable(levels, bits, stages[3].order)
         /\ stages[3].result # NoMatch =>
              LET o    == stages[3].order
                  s    == Opposite(o.side)
                  slot == BestSlot(bits, s)
                  q    == levels[s][slot].orders
              IN  /\ Marketable(levels, bits, o)
                  /\ s \in Sides /\ slot \in Slots /\ IsBest(s, bits[s], slot)
                  /\ q \in Seq(QueueEntry) /\ q # << >> /\ q[1] \in QueueEntry
                  /\ stages[3].result.qty = Smaller(o.qty, q[1].qty)
                  /\ stages[3].result.qty \in Nat
                  /\ stages[3].result.qty <= q[1].qty
                  /\ stages[3].result = [price |-> levels[s][slot].price,
                                         qty |-> Smaller(o.qty, q[1].qty),
                                         resting |-> q[1].ref, incoming |-> o.ref]
<1> DEFINE r == stages[3]
           r0 == [r EXCEPT !.result = NoMatch]
           m  == stage3_match(levels, bits, r0)
<1>1. /\ levels \in [Sides -> [Slots -> LadderLevel]] /\ bits \in [Sides -> SUBSET Slots]
      /\ r \in Stage
  BY DEF IInv, Typed
<1>2. r0 \in Stage /\ r0.result = NoMatch /\ r0.order = r.order /\ r0.valid = r.valid
  BY <1>1 DEF Stage
<1>3. m.result = r.result
  BY DEF IInv, DecisionStillHolds
<1>4. r.order.side \in Sides /\ r.order.qty \in Nat /\ r.valid
  BY <1>1 DEF Stage, AnyOrder
<1> HIDE DEF r, r0
<1>5. ASSUME r.result = NoMatch PROVE ~ Marketable(levels, bits, r.order)
  <2>1. m.result = NoMatch => ~ (r0.valid /\ Marketable(levels, bits, r0.order))
    BY <1>1, <1>2, MatchIs
  <2> HIDE DEF m
  <2> QED BY <1>2, <1>3, <1>4, <1>5, <2>1
<1>6. ASSUME r.result # NoMatch
      PROVE  LET o    == r.order
                 s    == Opposite(o.side)
                 slot == BestSlot(bits, s)
                 q    == levels[s][slot].orders
             IN  /\ Marketable(levels, bits, o)
                 /\ s \in Sides /\ slot \in Slots /\ IsBest(s, bits[s], slot)
                 /\ q \in Seq(QueueEntry) /\ q # << >> /\ q[1] \in QueueEntry
                 /\ r.result.qty = Smaller(o.qty, q[1].qty)
                 /\ r.result.qty \in Nat
                 /\ r.result.qty <= q[1].qty
                 /\ r.result = [price |-> levels[s][slot].price,
                                qty |-> Smaller(o.qty, q[1].qty),
                                resting |-> q[1].ref, incoming |-> o.ref]
  <2> DEFINE o    == r.order
             s    == Opposite(o.side)
             slot == BestSlot(bits, s)
             level == levels[s][slot]
             q    == level.orders
  <2>1. /\ Marketable(levels, bits, o) /\ r.result.incoming = o.ref
        /\ r.result.price = OppositeLevel(levels, bits, o).price
        /\ r.result.resting = Head(OppositeLevel(levels, bits, o).orders).ref
        /\ r.result.qty = Smaller(o.qty, Head(OppositeLevel(levels, bits, o).orders).qty)
    BY <1>1, <1>2, <1>3, <1>6, MatchIs
  <2>2. OppositeLevel(levels, bits, o) = level
    BY DEF OppositeLevel
  <2>3. s \in Sides /\ bits[s] \in SUBSET Slots /\ bits[s] # {}
    BY <1>1, <1>4, <2>1, OppositeIs DEF Marketable
  <2>4. slot \in Slots /\ IsBest(s, bits[s], slot)
    BY <2>3, BestExists DEF BestSlot, IsBest
  <2>5. q # << >>
    BY <2>1, <2>2 DEF Marketable
  <2>6. level \in LadderLevel
    BY <1>1, <2>3, <2>4
  <2> HIDE DEF level, slot, s
  <2>7. q \in Seq(QueueEntry) /\ Head(q) = q[1] /\ q[1] \in QueueEntry
    BY <2>5, <2>6 DEF LadderLevel
  <2>8. r.result \in MatchResult
    BY <1>1, <1>6 DEF Stage
  <2>9. r.result = [price |-> level.price, qty |-> Smaller(o.qty, q[1].qty),
                    resting |-> q[1].ref, incoming |-> o.ref]
    BY <2>1, <2>2, <2>7, <2>8 DEF MatchResult
  <2>10. /\ r.result.qty = Smaller(o.qty, q[1].qty) /\ r.result.qty \in Nat
         /\ r.result.qty <= q[1].qty
    BY <1>4, <2>7, <2>9 DEF Smaller, QueueEntry
  <2> QED BY <2>1, <2>3, <2>4, <2>5, <2>7, <2>9, <2>10 DEF level, slot, s
<1> QED BY <1>5, <1>6 DEF r

\* The book stays a book and the bitmap stays its bitmap.
LEMMA ExecuteKeeps ==
  ASSUME IInv, stage4_execute(stages[3])
  PROVE  /\ levels' \in [Sides -> [Slots -> LadderLevel]]
         /\ bits' \in [Sides -> SUBSET Slots]
         /\ BitsMarkLevels'
<1> DEFINE r == stages[3]
<1>1. /\ levels \in [Sides -> [Slots -> LadderLevel]] /\ bits \in [Sides -> SUBSET Slots]
      /\ r \in Stage /\ BitsMarkLevels
  BY DEF IInv, Typed
<1>2. CASE ~ r.valid
  BY <1>1, <1>2 DEF stage4_execute, BitsMarkLevels
<1>3. CASE r.valid /\ r.result # NoMatch
  <2> DEFINE s == Opposite(r.order.side)
             slot == BestSlot(bits, s)
             q == levels[s][slot].orders
             t == TakeFront(q, r.result.qty)
  <2>1. /\ s \in Sides /\ slot \in Slots /\ slot \in bits[s]
        /\ q \in Seq(QueueEntry) /\ q # << >>
        /\ r.result.qty \in Nat /\ r.result.qty <= q[1].qty
    BY <1>3, DecisionIs DEF IsBest
  <2>2. t \in Seq(QueueEntry)
    BY <2>1, TakeFrontIs
  <2>3. /\ levels' = [levels EXCEPT ![s][slot].orders = t]
        /\ bits' = IF t = << >> THEN [bits EXCEPT ![s] = @ \ {slot}] ELSE bits
    BY <1>3 DEF stage4_execute, ExecuteMatch
  <2> HIDE DEF t, q, slot, s
  <2>4. [levels[s][slot] EXCEPT !.orders = t] \in LadderLevel
    <3>1. levels[s][slot] \in LadderLevel
      BY <1>1, <2>1
    <3> QED BY <2>2, <3>1 DEF LadderLevel
  <2>5. levels' \in [Sides -> [Slots -> LadderLevel]]
    BY <1>1, <2>1, <2>3, <2>4
  <2>6. bits' \in [Sides -> SUBSET Slots]
    BY <1>1, <2>1, <2>3
  <2>7. \A x \in Sides, i \in Slots :
          levels'[x][i].orders = IF x = s /\ i = slot THEN t ELSE levels[x][i].orders
    BY <1>1, <2>1, <2>3 DEF LadderLevel
  <2>8. \A x \in Sides : bits'[x] = IF x = s /\ t = << >> THEN bits[x] \ {slot} ELSE bits[x]
    BY <1>1, <2>1, <2>3
  <2>9. \A x \in Sides, i \in Slots : i \in bits'[x] <=> levels'[x][i].orders # << >>
    <3> SUFFICES ASSUME NEW x \in Sides, NEW i \in Slots
                 PROVE  i \in bits'[x] <=> levels'[x][i].orders # << >>
      OBVIOUS
    <3>1. i \in bits[x] <=> levels[x][i].orders # << >>
      BY <1>1 DEF BitsMarkLevels
    <3>2. CASE x = s /\ i = slot
      BY <2>1, <2>7, <2>8, <3>2
    <3>3. CASE ~ (x = s /\ i = slot)
      BY <2>7, <2>8, <3>1, <3>3
    <3> QED BY <3>2, <3>3
  <2> QED BY <2>5, <2>6, <2>9 DEF BitsMarkLevels
<1>4. CASE r.valid /\ r.result = NoMatch
  <2> DEFINE s == r.order.side
             slot == r.level_index
             q == levels[s][slot].orders
             e == [ref |-> r.order.ref, qty |-> r.order.qty]
             v == [price |-> r.order.price, orders |-> Append(q, e)]
  <2>1. s \in Sides /\ r.order \in AnyOrder
    BY <1>1 DEF Stage, AnyOrder
  <2>2. slot \in Slots
    BY <1>4 DEF IInv, OrdersRouted, Routed
  <2>3. q \in Seq(QueueEntry) /\ e \in QueueEntry
    <3>1. levels[s][slot] \in LadderLevel
      BY <1>1, <2>1, <2>2
    <3> QED BY <2>1, <3>1 DEF LadderLevel, QueueEntry, AnyOrder
  <2>4. \/ /\ levels' = [levels EXCEPT ![s][slot] = v]
           /\ bits' = [bits EXCEPT ![s] = @ \cup {slot}]
        \/ levels' = levels /\ bits' = bits
    BY <1>4 DEF stage4_execute, ExecuteRest
  <2> HIDE DEF s, slot, q, e
  <2>5. v \in LadderLevel /\ v.orders # << >>
    <3>1. r.order.price \in Nat
      BY <2>1 DEF AnyOrder
    <3>2. Append(q, e) \in Seq(QueueEntry) /\ Append(q, e) # << >>
      BY <2>3
    <3> QED BY <3>1, <3>2 DEF LadderLevel
  <2> HIDE DEF v
  <2>6. CASE levels' = levels /\ bits' = bits
    BY <1>1, <2>6 DEF BitsMarkLevels
  <2>7. CASE /\ levels' = [levels EXCEPT ![s][slot] = v]
             /\ bits' = [bits EXCEPT ![s] = @ \cup {slot}]
    <3>1. levels' \in [Sides -> [Slots -> LadderLevel]] /\ bits' \in [Sides -> SUBSET Slots]
      BY <1>1, <2>1, <2>2, <2>5, <2>7
    <3>2. \A x \in Sides, i \in Slots :
            /\ levels'[x][i] = IF x = s /\ i = slot THEN v ELSE levels[x][i]
            /\ bits'[x] = IF x = s THEN bits[x] \cup {slot} ELSE bits[x]
      BY <1>1, <2>1, <2>2, <2>7
    <3>3. \A x \in Sides, i \in Slots : i \in bits'[x] <=> levels'[x][i].orders # << >>
      <4> SUFFICES ASSUME NEW x \in Sides, NEW i \in Slots
                   PROVE  i \in bits'[x] <=> levels'[x][i].orders # << >>
        OBVIOUS
      <4>1. i \in bits[x] <=> levels[x][i].orders # << >>
        BY <1>1 DEF BitsMarkLevels
      <4>2. CASE x = s /\ i = slot
        BY <2>5, <3>2, <4>2
      <4>3. CASE ~ (x = s /\ i = slot)
        BY <3>2, <4>1, <4>3
      <4> QED BY <4>2, <4>3
    <3> QED BY <3>1, <3>3 DEF BitsMarkLevels
  <2> QED BY <2>4, <2>6, <2>7
<1> QED BY <1>2, <1>3, <1>4

----------------------------------------------------------------------------
(* One call of clock *)

\* Every part of the invariant but Draining, which the callers' steps keep.
LEMMA ClockKeeps ==
  ASSUME IInv, NEW order, NEW valid, CallerOrder(order, valid), clock(order, valid),
         flushing' \in Nat
  PROVE  /\ Typed' /\ Numbered' /\ Unmatched' /\ OrdersRouted'
         /\ BitsMarkLevels' /\ DecisionStillHolds' /\ FixedLatency'
         /\ stages'[1].valid = valid
         /\ \A i \in 1 .. 3 : stages'[i + 1].valid => stages[i].valid
<1>1. /\ levels' \in [Sides -> [Slots -> LadderLevel]]
      /\ bits' \in [Sides -> SUBSET Slots]
      /\ BitsMarkLevels'
  BY ExecuteKeeps DEF clock, Advance
<1>2. /\ output' = stages[4].result /\ cycles' = cycles + 1
      /\ stages' = [i \in 1 .. 4 |->
                      CASE i = 4 -> stages[3]
                        [] i = 3 -> stage3_match(levels', bits', stages[2])
                        [] i = 2 -> stage2_route(stages[1])
                        [] i = 1 -> stage1_decode(order, valid)]
      /\ base_price' = IF stages[1].valid THEN Base(stages[1].order.price) ELSE base_price
  BY DEF clock, Advance
<1>3. /\ stages'[1] = stage1_decode(order, valid)
      /\ stages'[2] = stage2_route(stages[1])
      /\ stages'[3] = stage3_match(levels', bits', stages[2])
      /\ stages'[4] = stages[3]
  BY <1>2
<1>4. /\ Typed /\ stages[1] \in Stage /\ stages[2] \in Stage /\ stages[3] \in Stage
      /\ stages[4] \in Stage /\ cycles \in Nat
      /\ stages[1].result = NoMatch /\ stages[2].result = NoMatch
  BY DEF IInv, Typed, Unmatched
<1>5. /\ stages'[1] \in Stage /\ stages'[1].order = order /\ stages'[1].valid = valid
      /\ stages'[1].result = NoMatch
  BY <1>3 DEF stage1_decode, Register, CallerOrder, Stage
<1>6. /\ stages'[2] \in Stage /\ stages'[2].order = stages[1].order
      /\ stages'[2].result = NoMatch
      /\ stages'[2].valid =>
           /\ stages[1].valid
           /\ stages[1].order.price >= Base(stages[1].order.price)
           /\ stages'[2].level_index =
                (stages[1].order.price - Base(stages[1].order.price)) \div TICK
           /\ stages'[2].level_index \in Slots
  BY <1>3, <1>4, RouteIs
<1>7. /\ stages'[3] \in Stage /\ [stages'[3] EXCEPT !.result = NoMatch] = stages[2]
      /\ stages'[3].order = stages[2].order /\ stages'[3].valid = stages[2].valid
      /\ stages'[3].level_index = stages[2].level_index
      /\ stages'[3].result # NoMatch =>
           stages[2].valid /\ stages'[3].result.incoming = stages[2].order.ref
  <2> DEFINE r  == stages[2]
             ls == levels'
             bs == bits'
             m  == stage3_match(ls, bs, r)
  <2>1. /\ ls \in [Sides -> [Slots -> LadderLevel]] /\ bs \in [Sides -> SUBSET Slots]
        /\ r \in Stage /\ r.result = NoMatch
    BY <1>1, <1>4
  <2> HIDE DEF r, ls, bs
  <2>2. /\ m \in Stage /\ [m EXCEPT !.result = NoMatch] = r
        /\ m.order = r.order /\ m.valid = r.valid /\ m.level_index = r.level_index
        /\ m.result # NoMatch => r.valid /\ m.result.incoming = r.order.ref
    BY <2>1, MatchIs
  <2>3. stages'[3] = m
    BY <1>3 DEF r, ls, bs
  <2> HIDE DEF m
  <2> QED BY <2>2, <2>3 DEF r
<1>8. base_price' \in Nat \cup {Unset}
  <2>1. CASE stages[1].valid
    <3>1. stages[1].order.price \in Nat
      BY <1>4 DEF Stage, AnyOrder
    <3> QED BY <1>2, <1>4, <2>1, <3>1, BaseIs
  <2>2. CASE ~ stages[1].valid
    BY <1>2, <1>4, <2>2 DEF Typed
  <2> QED BY <2>1, <2>2
<1>9. Typed'
  <2>1. \A i \in 1 .. 4 : stages'[i] \in Stage
    <3>1. \A i \in 1 .. 4 : i = 1 \/ i = 2 \/ i = 3 \/ i = 4
      OBVIOUS
    <3> QED BY <1>3, <1>4, <1>5, <1>6, <1>7, <3>1
  <2>2. stages' \in [1 .. 4 -> Stage]
    BY <1>2, <2>1
  <2> QED BY <1>1, <1>2, <1>4, <1>8, <2>2 DEF Typed
<1>10. Numbered'
  <2> DEFINE P(i) ==
        /\ stages'[i].valid => /\ stages'[i].order.ref = cycles' - i + 1
                               /\ stages'[i].order.ref \in 1 .. MaxCycles
                               /\ stages'[i].order.side \in Side
                               /\ stages'[i].order.price \in Prices
                               /\ stages'[i].order.qty \in Qtys
        /\ stages'[i].result # NoMatch => stages'[i].result.incoming = cycles' - i + 1
  <2>1. Numbered
    BY DEF IInv
  <2>2. P(1)
    BY <1>2, <1>4, <1>5 DEF CallerOrder
  <2>3. P(2)
    BY <1>2, <1>4, <1>6, <2>1 DEF Numbered
  <2>4. P(3)
    BY <1>2, <1>4, <1>7, <2>1 DEF Numbered
  <2>5. P(4)
    BY <1>2, <1>3, <1>4, <2>1 DEF Numbered
  <2>6. \A i \in 1 .. 4 : i = 1 \/ i = 2 \/ i = 3 \/ i = 4
    OBVIOUS
  <2>7. \A i \in 1 .. 4 : P(i)
    <3> HIDE DEF P
    <3> QED BY <2>2, <2>3, <2>4, <2>5, <2>6
  <2> QED BY <2>7 DEF Numbered
<1>11. Unmatched'
  BY <1>5, <1>6 DEF Unmatched
<1>12. OrdersRouted'
  <2>1. stages'[2].valid => Routed(stages[2])'
    <3> SUFFICES ASSUME stages'[2].valid PROVE Routed(stages[2])'
      OBVIOUS
    <3>1. stages[1].valid /\ base_price' = Base(stages[1].order.price)
      BY <1>2, <1>6
    <3>2. base_price' \in Nat
      BY <1>4, <3>1, BaseIs DEF Stage, AnyOrder
    <3> QED BY <1>6, <3>1, <3>2 DEF Routed
  <2>2. stages'[3].valid => Routed(stages[3])'
    <3> SUFFICES ASSUME stages'[3].valid PROVE Routed(stages[3])'
      OBVIOUS
    <3>1. stages[2].valid /\ Routed(stages[2])
      BY <1>7 DEF IInv, OrdersRouted
    <3>2. base_price' = base_price
      BY <1>2, <3>1, UnsetAssumption DEF Routed, Base
    <3> QED BY <1>7, <3>1, <3>2 DEF Routed
  <2> QED BY <2>1, <2>2 DEF OrdersRouted
<1>13. DecisionStillHolds'
  BY <1>3, <1>7 DEF DecisionStillHolds
<1>14. FixedLatency'
  <2>1. stages[4].result # NoMatch => stages[4].result.incoming = cycles - 4 + 1
    BY DEF IInv, Numbered
  <2> QED BY <1>2, <1>4, <2>1 DEF FixedLatency
<1>15. \A i \in 1 .. 3 : stages'[i + 1].valid => stages[i].valid
  <2>1. \A i \in 1 .. 3 : i = 1 \/ i = 2 \/ i = 3
    OBVIOUS
  <2>2. stages'[1 + 1].valid => stages[1].valid
    BY <1>6
  <2>3. stages'[2 + 1].valid => stages[2].valid
    BY <1>7
  <2>4. stages'[3 + 1].valid => stages[3].valid
    BY <1>3
  <2> QED BY <2>1, <2>2, <2>3, <2>4
<1> QED BY <1>1, <1>5, <1>9, <1>10, <1>11, <1>12, <1>13, <1>14, <1>15

\* What each caller of clock gives it.
LEMMA CallersOrders ==
  ASSUME IInv
  PROVE  /\ CallerOrder(NoOrder, FALSE)
         /\ \A s \in Side, p \in Prices, q \in Qtys :
              cycles < MaxCycles => CallerOrder(Order(cycles + 1, s, p, q), TRUE)
<1>1. cycles \in Nat
  BY DEF IInv, Typed
<1>2. CallerOrder(NoOrder, FALSE)
  BY DEF CallerOrder, NoOrder, Order, AnyOrder, Sides
<1>3. ASSUME NEW s \in Side, NEW p \in Prices, NEW q \in Qtys, cycles < MaxCycles
      PROVE  CallerOrder(Order(cycles + 1, s, p, q), TRUE)
  <2>1. s \in Sides /\ p \in Nat /\ q \in Nat /\ cycles + 1 \in 1 .. MaxCycles
        /\ cycles + 1 \in Nat
    BY <1>1, <1>3, SideAssumption, PricesAssumption, QtysAssumption, CyclesAssumption
       DEF Sides
  <2> QED BY <2>1 DEF CallerOrder, Order, AnyOrder
<1> QED BY <1>2, <1>3

\* One more bubble: the registers behind it are empty.
LEMMA BubbleDrains ==
  ASSUME NEW st, NEW st1, NEW f \in Nat, NEW f1 \in Nat,
         ~ st1[1].valid, \A i \in 1 .. 3 : st1[i + 1].valid => st[i].valid,
         \/ f > 0 /\ f1 = f - 1 /\ \A i \in 1 .. 4 : i <= 5 - f => ~ st[i].valid
         \/ f1 = 4
  PROVE  \A i \in 1 .. 4 : i <= 5 - f1 => ~ st1[i].valid
<1> SUFFICES ASSUME NEW i \in 1 .. 4, i <= 5 - f1 PROVE ~ st1[i].valid
  OBVIOUS
<1>1. CASE i = 1
  BY <1>1
<1>2. CASE i # 1
  <2>1. i - 1 \in 1 .. 3 /\ (i - 1) + 1 = i /\ i - 1 \in 1 .. 4
    BY <1>2
  <2>2. f > 0 /\ f1 = f - 1 /\ ~ st[i - 1].valid
    BY <2>1
  <2> QED BY <2>1, <2>2
<1> QED BY <1>1, <1>2

\* Every cycle keeps the invariant.
LEMMA NextIInv == IInv /\ [Next]_vars => IInv'
<1> SUFFICES ASSUME IInv, [Next]_vars PROVE IInv'
  OBVIOUS
<1>0. flushing \in Nat /\ Draining
  BY DEF IInv, Typed
<1>1. ASSUME NEW s \in Side, NEW p \in Prices, NEW q \in Qtys, Clock(s, p, q)
      PROVE  IInv'
  <2>1. flushing' = 0 /\ clock(Order(cycles + 1, s, p, q), TRUE) /\ cycles < MaxCycles
    BY <1>1 DEF Clock, clock
  <2>2. CallerOrder(Order(cycles + 1, s, p, q), TRUE)
    BY <2>1, CallersOrders
  <2>3. Draining'
    BY <2>1 DEF Draining
  <2> QED BY <2>1, <2>2, <2>3, ClockKeeps DEF IInv
<1>2. CASE Idle
  <2>1. flushing' = 0 /\ clock(NoOrder, FALSE)
    BY <1>2 DEF Idle
  <2>2. Draining'
    BY <2>1 DEF Draining
  <2> QED BY <2>1, <2>2, CallersOrders, ClockKeeps DEF IInv
<1>3. CASE flush \/ FlushStep
  <2>1. /\ clock(NoOrder, FALSE) /\ flushing' \in Nat
        /\ flushing' = 4 \/ (flushing > 0 /\ flushing' = flushing - 1)
    <3>1. clock(NoOrder, FALSE)
      BY <1>3 DEF flush, FlushStep
    <3>2. flushing' = NUM_STAGES - 1 \/ (flushing > 0 /\ flushing' = flushing - 1)
      BY <1>3 DEF flush, FlushStep
    <3>3. /\ flushing' \in Nat
          /\ flushing' = 4 \/ (flushing > 0 /\ flushing' = flushing - 1)
      BY <1>0, <3>2, LadderAssumption
    <3> QED BY <3>1, <3>3
  <2>2. /\ Typed' /\ Numbered' /\ Unmatched' /\ OrdersRouted'
        /\ BitsMarkLevels' /\ DecisionStillHolds' /\ FixedLatency'
        /\ ~ stages'[1].valid /\ \A i \in 1 .. 3 : stages'[i + 1].valid => stages[i].valid
    BY <2>1, CallersOrders, ClockKeeps
  <2>3. flushing > 0 => \A i \in 1 .. 4 : i <= 5 - flushing => ~ stages[i].valid
    BY <1>0, LadderAssumption DEF Draining
  <2>4. \A i \in 1 .. 4 : i <= 5 - flushing' => ~ stages'[i].valid
    BY <1>0, <2>1, <2>2, <2>3, BubbleDrains
  <2>5. Draining'
    BY <2>4, LadderAssumption DEF Draining
  <2> QED BY <2>2, <2>5 DEF IInv
<1>4. CASE UNCHANGED vars
  <2>1. /\ stages' = stages /\ levels' = levels /\ bits' = bits /\ base_price' = base_price
        /\ cycles' = cycles /\ output' = output /\ flushing' = flushing
    BY <1>4 DEF vars
  <2>2. Typed' /\ Numbered' /\ Unmatched' /\ OrdersRouted' /\ Draining'
    BY <2>1 DEF IInv, Typed, Numbered, Unmatched, OrdersRouted, Routed, Draining
  <2>3. BitsMarkLevels' /\ DecisionStillHolds' /\ FixedLatency'
    BY <2>1 DEF IInv, BitsMarkLevels, DecisionStillHolds, FixedLatency
  <2> QED BY <2>2, <2>3 DEF IInv
<1> QED BY <1>1, <1>2, <1>3, <1>4 DEF Next

\* The pipeline's state keeps its type and its invariant.
THEOREM PipelineInvariant == Spec => []IInv
BY InitIInv, NextIInv, PTL DEF Spec

\* The occupancy bitmap says exactly which levels of the ladder have orders.
THEOREM BitmapIsExact == Spec => []BitsMarkLevels
<1>1. IInv => BitsMarkLevels
  BY DEF IInv
<1> QED BY <1>1, PipelineInvariant, PTL

\* Stage 4 may act on what stage 3 decided a cycle earlier.
THEOREM DecisionHolds == Spec => []DecisionStillHolds
<1>1. IInv => DecisionStillHolds
  BY DEF IInv
<1> QED BY <1>1, PipelineInvariant, PTL

\* A result comes out in the fifth cycle, whatever travels with it.
THEOREM LatencyIsFixed == Spec => []FixedLatency
<1>1. IInv => FixedLatency
  BY DEF IInv
<1> QED BY <1>1, PipelineInvariant, PTL

\* When flush returns no order is left in a register.
THEOREM FlushEmpties == Spec => FlushDrains
<1>1. IInv /\ IInv' /\ [Next]_vars
        => [flushing = 1 /\ flushing' = 0 => \A i \in 1 .. 4 : ~ stages'[i].valid]_vars
  <2> SUFFICES ASSUME IInv, Next, flushing = 1, flushing' = 0
               PROVE  \A i \in 1 .. 4 : ~ stages'[i].valid
    OBVIOUS
  <2>1. clock(NoOrder, FALSE)
    <3>1. ASSUME NEW s \in Side, NEW p \in Prices, NEW q \in Qtys, Clock(s, p, q)
          PROVE  FALSE
      BY <3>1 DEF Clock
    <3> QED BY <3>1 DEF Next, Idle, flush, FlushStep
  <2>2. ~ stages'[1].valid /\ \A i \in 1 .. 3 : stages'[i + 1].valid => stages[i].valid
    BY <2>1, CallersOrders, ClockKeeps
  <2>3. \A i \in 1 .. 4 : i <= 5 - 1 => ~ stages[i].valid
    BY LadderAssumption DEF IInv, Draining
  <2>4. \A i \in 1 .. 4 : i <= 5 - 0 => ~ stages'[i].valid
    BY <2>2, <2>3, BubbleDrains
  <2> QED BY <2>4
<1> QED BY <1>1, PipelineInvariant, PTL DEF Spec, FlushDrains

----------------------------------------------------------------------------
(* The ladder as a map from prices to queues *)

\* One side of the ladder, given its slots and its bitmap.
LadderFn(lad, b) ==
  [p \in {lad[i].price : i \in b} |-> lad[CHOOSE i \in b : lad[i].price = p].orders]

\* The prices of the slots in use.
PricesOf(lad, b) == {lad[i].price : i \in b}

\* Different slots have different prices.
OnePrice(lad, b) == \A i, j \in b : lad[i].price = lad[j].price => i = j

\* When no two slots share a price, the ladder is a function from prices to queues.
LEMMA LadderFnIs ==
  ASSUME NEW lad, NEW b, OnePrice(lad, b)
  PROVE  /\ DOMAIN LadderFn(lad, b) = PricesOf(lad, b)
         /\ \A i \in b : LadderFn(lad, b)[lad[i].price] = lad[i].orders
<1>1. DOMAIN LadderFn(lad, b) = PricesOf(lad, b)
  BY DEF LadderFn, PricesOf
<1>2. ASSUME NEW i \in b PROVE LadderFn(lad, b)[lad[i].price] = lad[i].orders
  <2> DEFINE p == lad[i].price
             c == CHOOSE j \in b : lad[j].price = p
  <2>1. c \in b /\ lad[c].price = p
    OBVIOUS
  <2>2. LadderFn(lad, b)[p] = lad[c].orders
    BY DEF LadderFn
  <2> HIDE DEF c
  <2>3. c = i
    BY <2>1 DEF OnePrice
  <2> QED BY <2>2, <2>3
<1> QED BY <1>1, <1>2

\* One slot, with price p, now has the queue t; the others are as before.
SlotChange(lad, b, lad1, b1, slot, p, t) ==
  /\ b \in SUBSET Slots /\ b1 \in SUBSET Slots /\ slot \in Slots
  /\ OnePrice(lad, b) /\ OnePrice(lad1, b1)
  /\ \A i \in Slots : i # slot => /\ i \in b1 <=> i \in b
                                  /\ i \in b => lad1[i] = lad[i]
  /\ slot \in b1 <=> t # << >>
  /\ slot \in b1 => lad1[slot].price = p /\ lad1[slot].orders = t
  /\ slot \in b => lad[slot].price = p
  /\ \A i \in b : i # slot => lad[i].price # p

\* A change of one slot is a change of one level of the map.
LEMMA SlotIsLevel ==
  ASSUME NEW lad, NEW lad1, NEW b, NEW b1, NEW slot, NEW p, NEW t,
         SlotChange(lad, b, lad1, b1, slot, p, t)
  PROVE  LadderFn(lad1, b1) = SetLevel(LadderFn(lad, b), p, t)
<1> DEFINE f == LadderFn(lad, b)
           g == LadderFn(lad1, b1)
<1> USE DEF SlotChange
<1>1. /\ DOMAIN f = {lad[i].price : i \in b} /\ \A i \in b : f[lad[i].price] = lad[i].orders
      /\ DOMAIN g = {lad1[i].price : i \in b1}
      /\ \A i \in b1 : g[lad1[i].price] = lad1[i].orders
  <2>1. /\ DOMAIN f = PricesOf(lad, b)
        /\ \A i \in b : f[lad[i].price] = lad[i].orders
    BY LadderFnIs
  <2>2. /\ DOMAIN g = PricesOf(lad1, b1)
        /\ \A i \in b1 : g[lad1[i].price] = lad1[i].orders
    BY LadderFnIs
  <2> HIDE DEF f, g
  <2> QED BY <2>1, <2>2 DEF PricesOf
<1>2. g = [x \in DOMAIN g |-> g[x]]
  BY DEF LadderFn
<1> HIDE DEF f, g
<1>3. CASE t = << >>
  <2>1. DOMAIN g = DOMAIN f \ {p}
    BY <1>1, <1>3
  <2>2. \A x \in DOMAIN g : g[x] = f[x]
    BY <1>1, <1>3
  <2>3. SetLevel(f, p, t) = [x \in DOMAIN f \ {p} |-> f[x]]
    BY <1>3 DEF SetLevel
  <2> QED BY <1>2, <2>1, <2>2, <2>3 DEF f, g
<1>4. CASE t # << >>
  <2>1. DOMAIN g = DOMAIN f \cup {p}
    <3>1. ASSUME NEW x \in DOMAIN g PROVE x \in DOMAIN f \cup {p}
      BY <1>1, <1>4, <3>1
    <3>2. ASSUME NEW x \in DOMAIN f PROVE x \in DOMAIN g
      <4>1. PICK i \in b : x = lad[i].price
        BY <1>1
      <4>2. i \in b1 /\ lad1[i].price = x
        BY <1>4, <4>1
      <4> QED BY <1>1, <4>2
    <3>3. p \in DOMAIN g
      BY <1>1, <1>4
    <3> QED BY <3>1, <3>2, <3>3
  <2>2. g[p] = t
    BY <1>1, <1>4
  <2>3. ASSUME NEW x \in DOMAIN g, x # p PROVE g[x] = f[x]
    <3>1. PICK i \in b1 : x = lad1[i].price
      BY <1>1
    <3>2. i # slot /\ i \in b /\ lad1[i] = lad[i]
      BY <2>3, <3>1
    <3> QED BY <1>1, <3>1, <3>2
  <2>4. SetLevel(f, p, t) = [x \in DOMAIN f \cup {p} |-> IF x = p THEN t ELSE f[x]]
    BY <1>4 DEF SetLevel
  <2> HIDE DEF SetLevel
  <2>5. g = [x \in DOMAIN f \cup {p} |-> IF x = p THEN t ELSE f[x]]
    BY <1>2, <2>1, <2>2, <2>3
  <2> QED BY <2>4, <2>5 DEF f, g
<1> QED BY <1>3, <1>4

----------------------------------------------------------------------------
(* Prices on the tick grid *)

\* Every price callers use is on the tick grid.
OnGrid == \A p \in Prices : p % TICK = 0

\* p is a multiple of the tick, without division.
Multiple(p) == \E k \in Nat : p = k * TICK

\* A price with no remainder is a multiple of the tick.
LEMMA GridIs ==
  ASSUME NEW p \in Nat, p % TICK = 0
  PROVE  Multiple(p)
<1>1. p \div TICK \in Nat /\ p = (p \div TICK) * TICK
  BY LadderAssumption
<1> QED BY <1>1 DEF Multiple

\* On the grid, a slot stands for one price.
LEMMA SlotIsPrice ==
  ASSUME NEW p \in Nat, NEW b \in Nat, Multiple(p), Multiple(b), p >= b
  PROVE  p = b + ((p - b) \div TICK) * TICK
<1>1. PICK k \in Nat : p = k * TICK
  BY DEF Multiple
<1>2. PICK j \in Nat : b = j * TICK
  BY DEF Multiple
<1>3. p - b = (k - j) * TICK
  BY <1>1, <1>2, LadderAssumption
<1>4. k - j \in Nat
  <2>1. CASE k < j
    <3>1. k * TICK < j * TICK
      BY <2>1, LadderAssumption
    <3> QED BY <1>1, <1>2, <3>1
  <2>2. CASE ~ (k < j)
    BY <2>2
  <2> QED BY <2>1, <2>2
<1>5. ((k - j) * TICK) \div TICK = k - j
  BY <1>4, LadderAssumption
<1> QED BY <1>3, <1>5

\* A higher slot is a higher price.
LEMMA SlotOrder ==
  ASSUME NEW i \in Nat, NEW j \in Nat, NEW b \in Nat
  PROVE  /\ b + i * TICK \in Nat
         /\ i <= j <=> b + i * TICK <= b + j * TICK
         /\ b + i * TICK = b + j * TICK => i = j
BY LadderAssumption

\* Every level in use has the price of its slot.
PricedBySlot(b, lvs, bts) ==
  \A s \in Sides : \A i \in bts[s] : b \in Nat /\ lvs[s][i].price = b + i * TICK

\* The second invariant: window, orders in flight and levels are on the grid.
Gridded ==
  /\ base_price \in Nat => Multiple(base_price)
  /\ PricedBySlot(base_price, levels, bits)

\* Every step that is not a stutter is one call of clock.
LEMMA NextIsClock ==
  ASSUME Next
  PROVE  /\ stage4_execute(stages[3])
         /\ base_price' = IF stages[1].valid THEN Base(stages[1].order.price)
                          ELSE base_price
<1>1. ASSUME NEW order, NEW valid, clock(order, valid)
      PROVE  /\ stage4_execute(stages[3])
             /\ base_price' = IF stages[1].valid THEN Base(stages[1].order.price)
                              ELSE base_price
  BY <1>1 DEF clock, Advance
<1>2. ASSUME NEW s \in Side, NEW p \in Prices, NEW q \in Qtys, Clock(s, p, q)
      PROVE  \E order, valid : clock(order, valid)
  BY <1>2 DEF Clock
<1>3. ASSUME Idle \/ flush \/ FlushStep PROVE \E order, valid : clock(order, valid)
  BY <1>3 DEF Idle, flush, FlushStep
<1>4. \E order, valid : clock(order, valid)
  BY <1>2, <1>3 DEF Next
<1> QED BY <1>1, <1>4

\* The window's base is a multiple of the tick, and does not move once set.
LEMMA BaseOnGrid ==
  ASSUME OnGrid, IInv, Gridded,
         base_price' = IF stages[1].valid THEN Base(stages[1].order.price) ELSE base_price
  PROVE  /\ base_price' \in Nat => Multiple(base_price')
         /\ base_price \in Nat => base_price' = base_price
<1>1. CASE ~ stages[1].valid
  BY <1>1 DEF Gridded
<1>2. CASE stages[1].valid /\ base_price \in Nat
  <2>1. base_price' = base_price
    BY <1>2, UnsetAssumption DEF Base
  <2> QED BY <1>2, <2>1 DEF Gridded
<1>3. CASE stages[1].valid /\ base_price \notin Nat
  <2> DEFINE p == stages[1].order.price
             h == LADDER_SLOTS \div 2
             half == h * TICK
  <2>1. base_price = Unset
    BY <1>3 DEF IInv, Typed
  <2>2. p \in Nat /\ p % TICK = 0
    <3>1. p \in Prices
      BY <1>3 DEF IInv, Numbered
    <3> QED BY <3>1, PricesAssumption DEF OnGrid
  <2>3. base_price' = IF p > half THEN p - half ELSE 0
    BY <1>3, <2>1 DEF Base
  <2> HIDE DEF p
  <2>4. PICK k \in Nat : p = k * TICK
    BY <2>2, GridIs DEF Multiple
  <2>5. h \in Nat
    BY LadderAssumption
  <2> HIDE DEF h
  <2>6. CASE p > half
    <3>1. k - h \in Nat
      <4>1. CASE k < h
        <5>1. k * TICK < h * TICK
          BY <2>5, <4>1, LadderAssumption
        <5> QED BY <2>4, <2>6, <5>1, <2>2, <2>5, LadderAssumption
      <4>2. CASE ~ (k < h)
        BY <2>5, <4>2
      <4> QED BY <4>1, <4>2
    <3>2. base_price' = (k - h) * TICK
      BY <2>3, <2>4, <2>5, <2>6, LadderAssumption
    <3> QED BY <1>3, <3>1, <3>2 DEF Multiple
  <2>7. CASE ~ (p > half)
    <3>1. base_price' = 0 * TICK
      BY <2>3, <2>7, LadderAssumption
    <3> QED BY <1>3, <3>1 DEF Multiple
  <2> QED BY <2>6, <2>7
<1> QED BY <1>1, <1>2, <1>3

\* An order rests at the slot of its price.
LEMMA RestsAtItsPrice ==
  ASSUME OnGrid, IInv, Gridded, stages[3].valid
  PROVE  /\ base_price \in Nat
         /\ stages[3].level_index \in Slots
         /\ stages[3].order.price = base_price + stages[3].level_index * TICK
<1> DEFINE p == stages[3].order.price
<1>1. p \in Nat /\ p % TICK = 0
  <2>1. p \in Prices
    BY DEF IInv, Numbered
  <2> HIDE DEF p
  <2> QED BY <2>1, PricesAssumption DEF OnGrid
<1>2. /\ base_price \in Nat /\ p >= base_price /\ stages[3].level_index \in Slots
      /\ stages[3].level_index = (p - base_price) \div TICK
  BY DEF IInv, OrdersRouted, Routed
<1>3. Multiple(p) /\ Multiple(base_price)
  BY <1>1, <1>2, GridIs DEF Gridded
<1> HIDE DEF p
<1>4. p = base_price + ((p - base_price) \div TICK) * TICK
  BY <1>1, <1>2, <1>3, SlotIsPrice
<1> QED BY <1>2, <1>4 DEF p

\* Stage 4 keeps the price of every slot in use.
LEMMA ExecuteOnGrid ==
  ASSUME OnGrid, IInv, Gridded, stage4_execute(stages[3]), Typed',
         base_price \in Nat => base_price' = base_price
  PROVE  PricedBySlot(base_price, levels, bits)'
<1> DEFINE r == stages[3]
<1>1. /\ levels \in [Sides -> [Slots -> LadderLevel]] /\ bits \in [Sides -> SUBSET Slots]
      /\ r \in Stage /\ PricedBySlot(base_price, levels, bits)
  BY DEF IInv, Typed, Gridded
<1>3. CASE ~ r.valid
  BY <1>1, <1>3 DEF stage4_execute, PricedBySlot
<1>4. CASE r.valid /\ r.result # NoMatch
  <2> DEFINE s == Opposite(r.order.side)
             slot == BestSlot(bits, s)
             t == TakeFront(levels[s][slot].orders, r.result.qty)
  <2>1. s \in Sides /\ slot \in Slots /\ slot \in bits[s]
    BY <1>4, DecisionIs DEF IsBest
  <2>3. /\ levels' = [levels EXCEPT ![s][slot].orders = t]
        /\ bits' = IF t = << >> THEN [bits EXCEPT ![s] = @ \ {slot}] ELSE bits
    BY <1>4 DEF stage4_execute, ExecuteMatch
  <2> HIDE DEF t, slot, s
  <2>4. \A x \in Sides : \A i \in Slots : levels'[x][i].price = levels[x][i].price
    BY <1>1, <2>1, <2>3 DEF LadderLevel
  <2>5. \A x \in Sides : bits'[x] \subseteq bits[x]
    BY <1>1, <2>1, <2>3
  <2> QED BY <1>1, <2>4, <2>5 DEF PricedBySlot
<1>5. CASE r.valid /\ r.result = NoMatch
  <2> DEFINE s == r.order.side
             slot == r.level_index
             v == [price |-> r.order.price, orders |->
                     Append(levels[s][slot].orders, [ref |-> r.order.ref, qty |-> r.order.qty])]
  <2>1. s \in Sides
    BY <1>1 DEF Stage, AnyOrder
  <2>2. base_price \in Nat /\ slot \in Slots /\ r.order.price = base_price + slot * TICK
    BY <1>5, RestsAtItsPrice
  <2>3. \/ /\ levels' = [levels EXCEPT ![s][slot] = v]
           /\ bits' = [bits EXCEPT ![s] = @ \cup {slot}]
        \/ levels' = levels /\ bits' = bits
    BY <1>5 DEF stage4_execute, ExecuteRest
  <2>4. v.price = base_price + slot * TICK
    BY <2>2
  <2> HIDE DEF s, slot, v
  <2>5. \A x \in Sides : \A i \in bits'[x] :
          \/ i \in bits[x] /\ levels'[x][i] = levels[x][i]
          \/ i = slot /\ levels'[x][i].price = v.price
    BY <1>1, <2>1, <2>2, <2>3
  <2>6. base_price' = base_price
    BY <2>2
  <2> QED BY <1>1, <2>2, <2>4, <2>5, <2>6 DEF PricedBySlot
<1> QED BY <1>3, <1>4, <1>5

\* The second invariant holds before the first cycle.
LEMMA InitGridded == Init => Gridded
<1> SUFFICES ASSUME Init PROVE Gridded
  OBVIOUS
<1>1. base_price \notin Nat
  BY UnsetAssumption DEF Init
<1>2. PricedBySlot(base_price, levels, bits)
  BY DEF Init, PricedBySlot
<1> QED BY <1>1, <1>2 DEF Gridded

\* Every cycle keeps the second invariant, on the tick grid.
LEMMA NextGridded ==
  ASSUME OnGrid, IInv, IInv', Gridded, [Next]_vars
  PROVE  Gridded'
<1>1. CASE Next
  <2>1. /\ stage4_execute(stages[3])
        /\ base_price' = IF stages[1].valid THEN Base(stages[1].order.price) ELSE base_price
    BY <1>1, NextIsClock
  <2>2. /\ base_price' \in Nat => Multiple(base_price')
        /\ base_price \in Nat => base_price' = base_price
    BY <2>1, BaseOnGrid
  <2>3. PricedBySlot(base_price, levels, bits)'
    BY <2>1, <2>2, ExecuteOnGrid DEF IInv
  <2> QED BY <2>2, <2>3 DEF Gridded
<1>2. CASE UNCHANGED vars
  BY <1>2 DEF vars, Gridded, PricedBySlot
<1> QED BY <1>1, <1>2

----------------------------------------------------------------------------
(* The ladder as the engine sees it *)

LEMMA OnePriceEach ==
  ASSUME NEW b, NEW lvs, NEW bts \in [Sides -> SUBSET Slots], PricedBySlot(b, lvs, bts),
         NEW s \in Sides
  PROVE  OnePrice(lvs[s], bts[s])
<1> SUFFICES ASSUME NEW i \in bts[s], NEW j \in bts[s],
                    lvs[s][i].price = lvs[s][j].price
             PROVE  i = j
  BY DEF OnePrice
<1>1. i \in Nat /\ j \in Nat
  BY LadderAssumption DEF Slots
<1>2. b \in Nat /\ b + i * TICK = b + j * TICK
  BY DEF PricedBySlot
<1> QED BY <1>1, <1>2, SlotOrder

\* The best slot has the best price.
LEMMA TopIs ==
  ASSUME NEW b, NEW lvs, NEW bts \in [Sides -> SUBSET Slots], PricedBySlot(b, lvs, bts),
         NEW s \in Sides, bts[s] # {}
  PROVE  Best(s, PricesOf(lvs[s], bts[s])) = lvs[s][Best(s, bts[s])].price
<1> DEFINE slot == Best(s, bts[s])
           ps == PricesOf(lvs[s], bts[s])
<1>1. IsBest(s, bts[s], slot)
  BY BestExists
<1> HIDE DEF slot
<1>2. \A i \in bts[s] : i \in Nat /\ b \in Nat /\ lvs[s][i].price = b + i * TICK
                        /\ b + i * TICK \in Nat
  <2>1. \A i \in bts[s] : i \in Nat
    BY LadderAssumption DEF Slots
  <2>2. \A i \in bts[s] : b \in Nat /\ lvs[s][i].price = b + i * TICK
    BY DEF PricedBySlot
  <2>3. \A i \in bts[s] : b + i * TICK \in Nat
    BY <2>1, <2>2, SlotOrder
  <2> QED BY <2>1, <2>2, <2>3
<1>3. ps \in SUBSET Nat
  BY <1>2 DEF PricesOf
<1>4. lvs[s][slot].price \in ps
  BY <1>1 DEF IsBest, PricesOf
<1>5. ASSUME NEW x \in ps
      PROVE  IF s = "Buy" THEN x <= lvs[s][slot].price ELSE x >= lvs[s][slot].price
  <2>1. PICK i \in bts[s] : x = lvs[s][i].price
    BY DEF PricesOf
  <2>2. /\ i \in Nat /\ slot \in Nat /\ b \in Nat
        /\ x = b + i * TICK /\ lvs[s][slot].price = b + slot * TICK
    BY <1>1, <1>2, <2>1 DEF IsBest
  <2>3. IF s = "Buy" THEN i <= slot ELSE slot <= i
    BY <1>1, <2>2 DEF IsBest
  <2>4. /\ i <= slot <=> b + i * TICK <= b + slot * TICK
        /\ slot <= i <=> b + slot * TICK <= b + i * TICK
    BY <2>2, SlotOrder
  <2>5. b + i * TICK \in Nat /\ b + slot * TICK \in Nat
    BY <2>2, SlotOrder
  <2> QED BY <2>2, <2>3, <2>4, <2>5
<1>6. IsBest(s, ps, lvs[s][slot].price)
  BY <1>4, <1>5 DEF IsBest
<1> HIDE DEF ps
<1> QED BY <1>3, <1>6, BestUnique DEF slot, ps

\* Taking what the front order has at most is the engine's way of shrinking it.
LEMMA ShrinkIsTake ==
  ASSUME NEW q \in Seq(QueueEntry), q # << >>, NEW n \in Nat, n <= q[1].qty
  PROVE  Shrink(q, 1, n) = TakeFront(q, n)
<1>1. q[1] \in QueueEntry /\ q[1].qty \in Nat
  <2>1. q[1] \in QueueEntry
    OBVIOUS
  <2> QED BY <2>1 DEF QueueEntry
<1>2. q[1].qty <= n <=> q[1].qty = n
  BY <1>1
<1>3. RemoveAt(q, 1) = Tail(q)
  <2>1. RemoveAt(q, 1) = SubSeq(q, 1, 0) \o SubSeq(q, 2, Len(q))
    BY DEF RemoveAt
  <2>2. SubSeq(q, 1, 0) = << >> /\ SubSeq(q, 2, Len(q)) \in Seq(QueueEntry)
    OBVIOUS
  <2>3. SubSeq(q, 2, Len(q)) = Tail(q)
    OBVIOUS
  <2>4. \A t \in Seq(QueueEntry) : << >> \o t = t
    OBVIOUS
  <2> QED BY <2>1, <2>2, <2>3, <2>4
<1> QED BY <1>2, <1>3 DEF Shrink, TakeFront

\* The engine's state, given the ladder, its bitmap and the last price.
BookOf(lvs, bts, lp) ==
  [Buy |-> LadderFn(lvs["Buy"], bts["Buy"]), Sell |-> LadderFn(lvs["Sell"], bts["Sell"]),
   orphan_ops |-> 0, last_price |-> lp]

\* The engine's state that the pipeline stands for.
Book == BookOf(levels, bits, last_price)

\* A side of the engine's book is a side of the ladder.
LEMMA BookSide ==
  ASSUME NEW lvs, NEW bts, NEW lp, NEW s \in Sides
  PROVE  BookOf(lvs, bts, lp)[s] = LadderFn(lvs[s], bts[s])
<1>1. CASE s = "Buy"
  BY <1>1 DEF BookOf
<1>2. CASE s = "Sell"
  BY <1>2 DEF BookOf
<1> QED BY <1>1, <1>2 DEF Sides

\* The level at the price of a slot is the queue of the slot.
LEMMA LevelIs ==
  ASSUME IInv, Gridded, NEW s \in Sides, NEW slot \in Slots, base_price \in Nat
  PROVE  /\ Level(LadderFn(levels[s], bits[s]), base_price + slot * TICK)
              = levels[s][slot].orders
         /\ slot \in bits[s] => levels[s][slot].price = base_price + slot * TICK
         /\ \A i \in bits[s] : i # slot => levels[s][i].price # base_price + slot * TICK
<1> DEFINE lad == levels[s]
           b == bits[s]
           p == base_price + slot * TICK
<1>1. /\ bits \in [Sides -> SUBSET Slots] /\ PricedBySlot(base_price, levels, bits)
      /\ b \in SUBSET Slots
  BY DEF IInv, Typed, Gridded
<1>2. OnePrice(lad, b)
  BY <1>1, OnePriceEach
<1>3. /\ DOMAIN LadderFn(lad, b) = PricesOf(lad, b)
      /\ \A i \in b : LadderFn(lad, b)[lad[i].price] = lad[i].orders
  BY <1>2, LadderFnIs
<1>4. \A i \in b : lad[i].price = base_price + i * TICK
  BY <1>1 DEF PricedBySlot
<1>5. \A i \in Slots : i \in Nat
  BY LadderAssumption DEF Slots
<1>6. \A i \in b : i # slot => lad[i].price # p
  BY <1>1, <1>4, <1>5, SlotOrder
<1>7. slot \in b <=> lad[slot].orders # << >>
  BY DEF IInv, BitsMarkLevels
<1>8. slot \in b => lad[slot].price = p
  BY <1>4
<1> HIDE DEF lad, b, p
<1>9. p \in PricesOf(lad, b) <=> slot \in b
  BY <1>6, <1>8 DEF PricesOf
<1>10. Level(LadderFn(lad, b), p) = lad[slot].orders
  BY <1>3, <1>7, <1>8, <1>9 DEF Level
<1> QED BY <1>6, <1>8, <1>10 DEF lad, b, p

\* The engine crosses the order that stage 3 matched, with the same result.
LEMMA CrossesIsMarketable ==
  ASSUME IInv, Gridded, stages[3].valid
  PROVE  /\ Crosses(Book, stages[3].order) <=> stages[3].result # NoMatch
         /\ stages[3].result # NoMatch => Match(Book, stages[3].order) = stages[3].result
<1> DEFINE o    == stages[3].order
           s    == Opposite(o.side)
           lad  == levels[s]
           b    == bits[s]
           slot == BestSlot(bits, s)
           f    == LadderFn(lad, b)
<1>1. /\ bits \in [Sides -> SUBSET Slots] /\ PricedBySlot(base_price, levels, bits)
      /\ o \in AnyOrder
  BY DEF IInv, Typed, Gridded, Stage
<1>2. s \in Sides /\ b \in SUBSET Slots
  BY <1>1, OppositeIs DEF AnyOrder
<1>3. Book[s] = f
  BY <1>2, BookSide DEF Book
<1>4. OnePrice(lad, b)
  BY <1>1, <1>2, OnePriceEach
<1>5. DOMAIN f = PricesOf(lad, b) /\ \A i \in b : f[lad[i].price] = lad[i].orders
  BY <1>4, LadderFnIs
<1>6. PricesOf(lad, b) = {} <=> b = {}
  BY DEF PricesOf
<1>7. b # {} => Best(s, PricesOf(lad, b)) = lad[slot].price
  BY <1>1, <1>2, TopIs DEF BestSlot
<1>8. b # {} => slot \in b
  BY <1>2, BestExists DEF BestSlot, IsBest
<1>9. b # {} => lad[slot].orders # << >>
  BY <1>2, <1>8 DEF IInv, BitsMarkLevels
<1>10. OppositeLevel(levels, bits, o) = lad[slot]
  BY DEF OppositeLevel
<1>11. Crosses(Book, o) <=> /\ DOMAIN Book[s] # {}
                            /\ IF o.side = "Buy" THEN Best(s, DOMAIN Book[s]) <= o.price
                               ELSE Best(s, DOMAIN Book[s]) >= o.price
  BY DEF Crosses
<1>12. Marketable(levels, bits, o) <=>
         /\ b # {} /\ lad[slot].orders # << >>
         /\ IF o.side = "Buy" THEN lad[slot].price <= o.price ELSE lad[slot].price >= o.price
  BY <1>10 DEF Marketable
<1>13. Match(Book, o) =
         LET top == Best(s, DOMAIN Book[s]) IN
         [price |-> top, qty |-> Smaller(o.qty, Head(Book[s][top]).qty),
          resting |-> Head(Book[s][top]).ref, incoming |-> o.ref]
  BY DEF Match
<1>14. stages[3].result # NoMatch =>
         LET q == lad[slot].orders IN
         /\ Marketable(levels, bits, o)
         /\ q \in Seq(QueueEntry) /\ q # << >>
         /\ stages[3].result = [price |-> lad[slot].price, qty |-> Smaller(o.qty, q[1].qty),
                                resting |-> q[1].ref, incoming |-> o.ref]
  BY DecisionIs
<1>15. stages[3].result = NoMatch => ~ Marketable(levels, bits, o)
  BY DecisionIs
<1>16. o.price \in Nat
  BY <1>1 DEF AnyOrder
<1> HIDE DEF o, s, lad, b, slot, f
<1>17. Crosses(Book, o) <=> Marketable(levels, bits, o)
  BY <1>3, <1>5, <1>6, <1>7, <1>9, <1>11, <1>12
<1>18. ASSUME stages[3].result # NoMatch PROVE Match(Book, o) = stages[3].result
  <2>1. b # {} /\ slot \in b
    BY <1>8, <1>12, <1>14, <1>18
  <2>2. Best(s, DOMAIN Book[s]) = lad[slot].price /\ Book[s][lad[slot].price] = lad[slot].orders
    BY <1>3, <1>5, <1>7, <2>1
  <2>3. Head(lad[slot].orders) = lad[slot].orders[1]
    BY <1>14, <1>18
  <2> QED BY <1>13, <1>14, <1>18, <2>2, <2>3
<1> QED BY <1>14, <1>15, <1>17, <1>18 DEF o

\* One side of the ladder is now f, the other as before.
SideChange(lvs, bts, lvs1, bts1, s, f) ==
  /\ LadderFn(lvs1[s], bts1[s]) = f
  /\ \A x \in Sides : x # s => LadderFn(lvs1[x], bts1[x]) = LadderFn(lvs[x], bts[x])

\* The engine's state as a record, with one side set or with a print.
LEMMA RecordUpdate ==
  ASSUME NEW b, NEW a, NEW l, NEW f, NEW e,
         e = [Buy |-> b, Sell |-> a, orphan_ops |-> 0, last_price |-> l]
  PROVE  /\ [e EXCEPT !["Buy"] = f] = [Buy |-> f, Sell |-> a, orphan_ops |-> 0, last_price |-> l]
         /\ [e EXCEPT !["Sell"] = f] = [Buy |-> b, Sell |-> f, orphan_ops |-> 0, last_price |-> l]
<1>1. [e EXCEPT !["Buy"] = f] = [Buy |-> f, Sell |-> a, orphan_ops |-> 0, last_price |-> l]
  OBVIOUS
<1>2. [e EXCEPT !["Sell"] = f] = [Buy |-> b, Sell |-> f, orphan_ops |-> 0, last_price |-> l]
  OBVIOUS
<1> QED BY <1>1, <1>2

\* A match prints its price and leaves the two sides.
LEMMA RecordPrint ==
  ASSUME NEW b, NEW a, NEW l, NEW e, NEW m,
         e = [Buy |-> b, Sell |-> a, orphan_ops |-> 0, last_price |-> l]
  PROVE  Printed(e, m) = [Buy |-> b, Sell |-> a, orphan_ops |-> 0, last_price |-> m.price]
<1>1. Printed(e, m) = [e EXCEPT !.last_price = m.price]
  BY DEF Printed
<1>2. [e EXCEPT !.last_price = m.price]
        = [Buy |-> b, Sell |-> a, orphan_ops |-> 0, last_price |-> m.price]
  OBVIOUS
<1> QED BY <1>1, <1>2

\* An engine's state with one side replaced.
SetSide(e, s, f) == [e EXCEPT ![s] = f]

\* Setting one side of the engine's state, with and without a print.
LEMMA BookUpdate ==
  ASSUME NEW lvs, NEW bts, NEW l, NEW lvs1, NEW bts1, NEW l1, NEW s \in Sides, NEW f,
         NEW m, SideChange(lvs, bts, lvs1, bts1, s, f)
  PROVE  /\ l1 = l
              => BookOf(lvs1, bts1, l1) = SetSide(BookOf(lvs, bts, l), s, f)
         /\ l1 = m.price
              => BookOf(lvs1, bts1, l1) = Printed(SetSide(BookOf(lvs, bts, l), s, f), m)
<1> DEFINE b == LadderFn(lvs["Buy"], bts["Buy"])
           a == LadderFn(lvs["Sell"], bts["Sell"])
           b1 == LadderFn(lvs1["Buy"], bts1["Buy"])
           a1 == LadderFn(lvs1["Sell"], bts1["Sell"])
           e == BookOf(lvs, bts, l)
           e1 == BookOf(lvs1, bts1, l1)
           g == [e EXCEPT ![s] = f]
<1>1. /\ e = [Buy |-> b, Sell |-> a, orphan_ops |-> 0, last_price |-> l]
      /\ e1 = [Buy |-> b1, Sell |-> a1, orphan_ops |-> 0, last_price |-> l1]
  BY DEF BookOf
<1>2. \/ s = "Buy" /\ b1 = f /\ a1 = a
      \/ s = "Sell" /\ a1 = f /\ b1 = b
  BY DEF SideChange, Sides
<1> HIDE DEF a, b, a1, b1, e, e1
<1>3. g = [Buy |-> b1, Sell |-> a1, orphan_ops |-> 0, last_price |-> l]
  <2>1. CASE s = "Buy" /\ b1 = f /\ a1 = a
    BY <1>1, <2>1, RecordUpdate
  <2>2. CASE s = "Sell" /\ a1 = f /\ b1 = b
    BY <1>1, <2>2, RecordUpdate
  <2> QED BY <1>2, <2>1, <2>2
<1> HIDE DEF g
<1>4. l1 = l => e1 = g
  BY <1>1, <1>3
<1>5. Printed(g, m) = [Buy |-> b1, Sell |-> a1, orphan_ops |-> 0, last_price |-> m.price]
  BY <1>3, RecordPrint
<1>6. l1 = m.price => e1 = Printed(g, m)
  BY <1>1, <1>5
<1> QED BY <1>4, <1>6 DEF e, e1, g, SetSide

\* Stage 4 does to the ladder what submit does to the engine.
LEMMA MatchIsSubmit ==
  ASSUME OnGrid, IInv, IInv', Gridded, Gridded', stage4_execute(stages[3]),
         stages[3].valid, stages[3].result # NoMatch
  PROVE  Book' = submit(Book, stages[3].order)
<1> DEFINE o    == stages[3].order
           m    == stages[3].result
           s    == Opposite(o.side)
           slot == BestSlot(bits, s)
           q    == levels[s][slot].orders
           t    == TakeFront(q, m.qty)
           p    == levels[s][slot].price
           ls   == levels'
           bs   == bits'
           lp   == last_price'
<1>1. /\ levels \in [Sides -> [Slots -> LadderLevel]] /\ bits \in [Sides -> SUBSET Slots]
      /\ bs \in [Sides -> SUBSET Slots]
      /\ PricedBySlot(base_price, levels, bits) /\ PricedBySlot(base_price', ls, bs)
      /\ m \in MatchResult
  <2>1. stages[3] \in Stage
    BY DEF IInv, Typed
  <2>2. m \in MatchResult
    BY <2>1 DEF Stage
  <2>3. levels \in [Sides -> [Slots -> LadderLevel]] /\ bits \in [Sides -> SUBSET Slots]
    BY DEF IInv, Typed
  <2>4. bs \in [Sides -> SUBSET Slots]
    BY DEF IInv, Typed
  <2> QED BY <2>2, <2>3, <2>4 DEF Gridded
<1>2. /\ s \in Sides /\ slot \in Slots /\ slot \in bits[s]
      /\ q \in Seq(QueueEntry) /\ q # << >> /\ m.qty \in Nat /\ m.qty <= q[1].qty
      /\ m.price = p
  <2>1. /\ s \in Sides /\ slot \in Slots /\ IsBest(s, bits[s], slot)
        /\ q \in Seq(QueueEntry) /\ q # << >> /\ m.qty \in Nat /\ m.qty <= q[1].qty
        /\ m = [price |-> p, qty |-> Smaller(o.qty, q[1].qty),
                resting |-> q[1].ref, incoming |-> o.ref]
    BY DecisionIs
  <2> HIDE DEF m, s, slot, q, o, p
  <2> QED BY <2>1 DEF IsBest
<1>3. /\ ls = [levels EXCEPT ![s][slot].orders = t]
      /\ bs = IF t = << >> THEN [bits EXCEPT ![s] = @ \ {slot}] ELSE bits
      /\ lp = m.price
  BY DEF stage4_execute, ExecuteMatch
<1>4. Shrink(q, 1, m.qty) = t
  BY <1>2, ShrinkIsTake
<1>5. base_price \in Nat /\ p = base_price + slot * TICK
  BY <1>1, <1>2 DEF PricedBySlot
<1>6. /\ Level(LadderFn(levels[s], bits[s]), p) = q
      /\ \A i \in bits[s] : i # slot => levels[s][i].price # p
  BY <1>2, <1>5, LevelIs
<1>7. OnePrice(levels[s], bits[s]) /\ OnePrice(ls[s], bs[s])
  <2>1. OnePrice(levels[s], bits[s])
    BY <1>1, <1>2, OnePriceEach
  <2> DEFINE b1 == base_price'
  <2>2. PricedBySlot(b1, ls, bs)
    BY <1>1
  <2> HIDE DEF b1, ls, bs, s
  <2>3. OnePrice(ls[s], bs[s])
    BY <1>1, <1>2, <2>2, OnePriceEach
  <2> QED BY <2>1, <2>3
<1>8. /\ Crosses(Book, o) /\ Match(Book, o) = m
  BY CrossesIsMarketable
<1>9. lp = m.price
  BY <1>3
<1>10. Book = BookOf(levels, bits, last_price) /\ Book' = BookOf(ls, bs, lp)
       /\ Book[s] = LadderFn(levels[s], bits[s])
  BY <1>2, BookSide DEF Book
<1>11. submit(Book, o) = Printed([Book EXCEPT ![s] =
          SetLevel(Book[s], m.price, Shrink(Level(Book[s], m.price), 1, m.qty))], m)
  BY <1>8 DEF submit
<1> HIDE DEF o, m, s, slot, q, t, p, ls, bs, lp
<1>12. /\ \A x \in Sides, i \in Slots :
            /\ ls[x][i].price = levels[x][i].price
            /\ ~ (x = s /\ i = slot) => ls[x][i] = levels[x][i]
       /\ ls[s][slot].orders = t
       /\ \A x \in Sides : x # s => ls[x] = levels[x]
  <2>1. levels[s][slot] \in LadderLevel
    BY <1>1, <1>2
  <2> QED BY <1>1, <1>2, <1>3, <2>1 DEF LadderLevel
<1>13. /\ \A x \in Sides : bs[x] = IF x = s /\ t = << >> THEN bits[x] \ {slot} ELSE bits[x]
  BY <1>1, <1>2, <1>3
<1>14. LadderFn(ls[s], bs[s]) = SetLevel(LadderFn(levels[s], bits[s]), p, t)
  <2> DEFINE lad == levels[s]
             lad1 == ls[s]
             b == bits[s]
             b1 == bs[s]
  <2>1. SlotChange(lad, b, lad1, b1, slot, p, t)
    <3>1. b \in SUBSET Slots /\ b1 \in SUBSET Slots /\ lad[slot].price = p
      BY <1>1, <1>2 DEF p
    <3>2. \A i \in Slots : i # slot => (i \in b1 <=> i \in b) /\ lad1[i] = lad[i]
      BY <1>2, <1>12, <1>13
    <3>3. slot \in b1 <=> t # << >>
      BY <1>2, <1>13
    <3>4. lad1[slot].price = p /\ lad1[slot].orders = t
      BY <1>2, <1>12, <3>1
    <3> QED BY <1>2, <1>6, <1>7, <3>1, <3>2, <3>3, <3>4 DEF SlotChange
  <2> HIDE DEF lad, lad1, b, b1
  <2>2. LadderFn(lad1, b1) = SetLevel(LadderFn(lad, b), p, t)
    BY <2>1, SlotIsLevel
  <2> QED BY <2>2 DEF lad, lad1, b, b1
<1>15. \A x \in Sides : x # s => LadderFn(ls[x], bs[x]) = LadderFn(levels[x], bits[x])
  BY <1>12, <1>13
<1> DEFINE f == SetLevel(LadderFn(levels[s], bits[s]), p, t)
<1>16. submit(Book, o) = Printed(SetSide(Book, s, f), m)
  BY <1>2, <1>4, <1>6, <1>10, <1>11 DEF SetSide
<1> HIDE DEF f
<1>17. BookOf(ls, bs, lp) = Printed(SetSide(BookOf(levels, bits, last_price), s, f), m)
  <2>1. SideChange(levels, bits, ls, bs, s, f)
    BY <1>14, <1>15 DEF SideChange, f
  <2>2. s \in Sides
    BY <1>2
  <2>3. lp = m.price
          => BookOf(ls, bs, lp) = Printed(SetSide(BookOf(levels, bits, last_price), s, f), m)
    BY <2>1, <2>2, BookUpdate
  <2> QED BY <1>9, <2>3
<1> QED BY <1>10, <1>16, <1>17 DEF o

\* An order that stage 4 rests is an order submitted, unless its level is full.
LEMMA RestIsSubmit ==
  ASSUME OnGrid, IInv, IInv', Gridded, Gridded', stage4_execute(stages[3]),
         stages[3].valid, stages[3].result = NoMatch
  PROVE  Book' = IF Len(Level(Book[stages[3].order.side], stages[3].order.price))
                      >= MAX_ORDERS
                   THEN Book ELSE submit(Book, stages[3].order)
<1> DEFINE o    == stages[3].order
           s    == o.side
           slot == stages[3].level_index
           q    == levels[s][slot].orders
           p    == o.price
           t    == Append(q, [ref |-> o.ref, qty |-> o.qty])
           v    == [price |-> p, orders |-> t]
           ls   == levels'
           bs   == bits'
           lp   == last_price'
<1>1. /\ levels \in [Sides -> [Slots -> LadderLevel]] /\ bits \in [Sides -> SUBSET Slots]
      /\ bs \in [Sides -> SUBSET Slots]
      /\ PricedBySlot(base_price, levels, bits) /\ PricedBySlot(base_price', ls, bs)
      /\ s \in Sides
  <2>1. stages[3] \in Stage
    BY DEF IInv, Typed
  <2>2. s \in Sides
    BY <2>1 DEF Stage, AnyOrder
  <2>3. levels \in [Sides -> [Slots -> LadderLevel]] /\ bits \in [Sides -> SUBSET Slots]
    BY DEF IInv, Typed
  <2>4. bs \in [Sides -> SUBSET Slots]
    BY DEF IInv, Typed
  <2> QED BY <2>2, <2>3, <2>4 DEF Gridded
<1>2. base_price \in Nat /\ slot \in Slots /\ p = base_price + slot * TICK
  BY RestsAtItsPrice
<1>3. /\ lp = last_price
      /\ IF Len(q) < MAX_ORDERS
           THEN ls = [levels EXCEPT ![s][slot] = v] /\ bs = [bits EXCEPT ![s] = @ \cup {slot}]
           ELSE ls = levels /\ bs = bits
  BY DEF stage4_execute, ExecuteRest
<1>4. /\ Level(LadderFn(levels[s], bits[s]), p) = q
      /\ slot \in bits[s] => levels[s][slot].price = p
      /\ \A i \in bits[s] : i # slot => levels[s][i].price # p
  BY <1>1, <1>2, LevelIs
<1>5. OnePrice(levels[s], bits[s]) /\ OnePrice(ls[s], bs[s])
  <2>1. OnePrice(levels[s], bits[s])
    BY <1>1, OnePriceEach
  <2> DEFINE b1 == base_price'
  <2>2. PricedBySlot(b1, ls, bs)
    BY <1>1
  <2> HIDE DEF b1, ls, bs, s
  <2>3. OnePrice(ls[s], bs[s])
    BY <1>1, <2>2, OnePriceEach
  <2> QED BY <2>1, <2>3
<1>6. ~ Crosses(Book, o)
  BY CrossesIsMarketable
<1>7. lp = last_price
  BY <1>3
<1>8. /\ Book = BookOf(levels, bits, last_price) /\ Book' = BookOf(ls, bs, lp)
      /\ Book[s] = LadderFn(levels[s], bits[s])
  BY <1>1, BookSide DEF Book
<1>9. submit(Book, o) = SetSide(Book, s, SetLevel(Book[s], p, Append(Level(Book[s], p),
                                          [ref |-> o.ref, qty |-> o.qty])))
  BY <1>6 DEF submit, SetSide
<1>10. Len(q) \in Nat /\ MAX_ORDERS \in Nat /\ q \in Seq(QueueEntry)
  <2>1. levels[s][slot] \in LadderLevel
    BY <1>1, <1>2
  <2> HIDE DEF slot, s
  <2>2. q \in Seq(QueueEntry)
    BY <2>1 DEF LadderLevel
  <2> HIDE DEF q
  <2> QED BY <2>2, LadderAssumption
<1>11. v.price = p /\ v.orders = t
  OBVIOUS
<1> DEFINE f == SetLevel(LadderFn(levels[s], bits[s]), p, t)
<1>12. submit(Book, o) = SetSide(Book, s, f)
  BY <1>4, <1>8, <1>9
<1>13. t # << >>
  <2> DEFINE x == [ref |-> o.ref, qty |-> o.qty]
  <2> HIDE DEF x, q
  <2>1. Append(q, x) # << >>
    BY <1>10
  <2> QED BY <2>1 DEF x
<1> HIDE DEF o, s, slot, q, p, t, v, ls, bs, lp
<1>14. CASE Len(q) < MAX_ORDERS
  <2>1. ls = [levels EXCEPT ![s][slot] = v] /\ bs = [bits EXCEPT ![s] = @ \cup {slot}]
    BY <1>3, <1>14
  <2>2. /\ \A i \in Slots : i # slot => ls[s][i] = levels[s][i]
        /\ ls[s][slot] = v
        /\ \A x \in Sides : x # s => ls[x] = levels[x]
    BY <1>1, <1>2, <2>1
  <2>3. \A x \in Sides : bs[x] = IF x = s THEN bits[x] \cup {slot} ELSE bits[x]
    BY <1>1, <2>1
  <2>4. LadderFn(ls[s], bs[s]) = SetLevel(LadderFn(levels[s], bits[s]), p, t)
    <3> DEFINE lad == levels[s]
               lad1 == ls[s]
               b == bits[s]
               b1 == bs[s]
    <3>1. SlotChange(lad, b, lad1, b1, slot, p, t)
      <4>1. b \in SUBSET Slots /\ b1 \in SUBSET Slots
        BY <1>1
      <4>2. \A i \in Slots : i # slot => (i \in b1 <=> i \in b) /\ lad1[i] = lad[i]
        BY <1>1, <2>2, <2>3
      <4>3. slot \in b1 /\ lad1[slot].price = p /\ lad1[slot].orders = t
        BY <1>1, <1>11, <2>2, <2>3
      <4> QED BY <1>2, <1>4, <1>5, <1>13, <4>1, <4>2, <4>3 DEF SlotChange
    <3> HIDE DEF lad, lad1, b, b1
    <3>2. LadderFn(lad1, b1) = SetLevel(LadderFn(lad, b), p, t)
      BY <3>1, SlotIsLevel
    <3> QED BY <3>2 DEF lad, lad1, b, b1
  <2>5. \A x \in Sides : x # s => LadderFn(ls[x], bs[x]) = LadderFn(levels[x], bits[x])
    BY <2>2, <2>3
  <2> HIDE DEF f
  <2>6. SideChange(levels, bits, ls, bs, s, f)
    BY <2>4, <2>5 DEF SideChange, f
  <2>7. s \in Sides
    BY <1>1
  <2>8. lp = last_price
          => BookOf(ls, bs, lp) = SetSide(BookOf(levels, bits, last_price), s, f)
    BY <2>6, <2>7, BookUpdate
  <2>9. Book' = submit(Book, o)
    BY <1>7, <1>8, <1>12, <2>8
  <2>10. ~ (Len(Level(Book[s], p)) >= MAX_ORDERS)
    BY <1>4, <1>8, <1>10, <1>14
  <2> QED BY <2>9, <2>10 DEF o, s, p
<1>15. CASE ~ (Len(q) < MAX_ORDERS)
  <2>1. ls = levels /\ bs = bits
    BY <1>3, <1>15
  <2>2. Book' = Book
    BY <1>7, <1>8, <2>1 DEF BookOf
  <2>3. Len(Level(Book[s], p)) >= MAX_ORDERS
    BY <1>4, <1>8, <1>10, <1>15
  <2> QED BY <2>2, <2>3 DEF o, s, p
<1> QED BY <1>14, <1>15

----------------------------------------------------------------------------
(* Orders on their way *)

\* An order a caller may put in.
Given == [ref : Refs, side : Side, price : Prices, qty : Qtys]

\* Whether a price is in the window that opens at b.
Within(b, p) == p >= b /\ (p - b) \div TICK < LADDER_SLOTS

\* The third invariant: a register has the order clock was given, a valid one
\* has an order, and past stage 1 an order is valid if it is in the window.
Judged ==
  /\ input = stages[1].order
  /\ \A i \in 1 .. 3 : stages[i].order \in Given \cup {NoOrder}
  /\ stages[1].valid <=> stages[1].order # NoOrder
  /\ \A i \in {2, 3} :
       /\ stages[i].valid => stages[i].order # NoOrder
       /\ stages[i].order # NoOrder =>
            /\ base_price \in Nat
            /\ stages[i].valid <=> Within(base_price, stages[i].order.price)
  /\ stages[3].valid \/ stages[3].result = NoMatch

\* A step calls clock with an order or with none.
LEMMA NextGives ==
  ASSUME IInv, Next
  PROVE  \E order \in Given \cup {NoOrder} : clock(order, order # NoOrder)
<1>1. ASSUME NEW s \in Side, NEW p \in Prices, NEW q \in Qtys, Clock(s, p, q)
      PROVE  \E order \in Given \cup {NoOrder} : clock(order, order # NoOrder)
  <2> DEFINE o == Order(cycles + 1, s, p, q)
  <2>1. clock(o, TRUE) /\ cycles < MaxCycles /\ cycles \in Nat
    BY <1>1 DEF Clock, clock, IInv, Typed
  <2>2. cycles + 1 \in Refs /\ cycles + 1 # 0
    BY <2>1, CyclesAssumption
  <2>3. o \in Given
    BY <2>2 DEF Given, Order
  <2>4. o.ref = cycles + 1 /\ NoOrder.ref = 0
    BY DEF Order, NoOrder
  <2>5. o # NoOrder
    BY <2>2, <2>4
  <2> HIDE DEF o
  <2>6. (o # NoOrder) = TRUE
    BY <2>5
  <2> QED BY <2>1, <2>3, <2>6
<1>2. ASSUME Idle \/ flush \/ FlushStep
      PROVE  \E order \in Given \cup {NoOrder} : clock(order, order # NoOrder)
  <2>1. clock(NoOrder, FALSE)
    BY <1>2 DEF Idle, flush, FlushStep
  <2>2. (NoOrder # NoOrder) = FALSE
    OBVIOUS
  <2> QED BY <2>1, <2>2
<1> QED BY <1>1, <1>2 DEF Next

\* What one call of clock does to the registers and the window.
LEMMA ClockMoves ==
  ASSUME IInv, IInv', NEW order, NEW valid, clock(order, valid)
  PROVE  /\ input' = order
         /\ stages'[1].order = order /\ stages'[1].valid = valid
         /\ stages'[2].order = stages[1].order
         /\ stages'[2].valid <=> stages[1].valid /\ InWindow(stages[1].order.price)
         /\ stages'[3].order = stages[2].order /\ stages'[3].valid = stages[2].valid
         /\ stages[2].valid \/ stages'[3].result = NoMatch
         /\ stages'[4] = stages[3]
         /\ base_price' = NextBase
         /\ stage4_execute(stages[3])
<1>1. /\ levels' \in [Sides -> [Slots -> LadderLevel]] /\ bits' \in [Sides -> SUBSET Slots]
      /\ Typed /\ stages[1] \in Stage /\ stages[2] \in Stage /\ stages[2].result = NoMatch
  BY DEF IInv, Typed, Unmatched
<1>2. /\ stages'[1] = stage1_decode(order, valid)
      /\ stages'[2] = stage2_route(stages[1])
      /\ stages'[3] = stage3_match(levels', bits', stages[2])
      /\ stages'[4] = stages[3]
      /\ stage4_execute(stages[3])
      /\ input' = order
      /\ base_price' = NextBase
  BY DEF clock, Advance, NextBase
<1>3. stages'[1].order = order /\ stages'[1].valid = valid
  BY <1>2 DEF stage1_decode, Register
<1>4. stages'[2].order = stages[1].order
  BY <1>1, <1>2, RouteIs
<1>5. stages'[2].valid <=> stages[1].valid /\ InWindow(stages[1].order.price)
  <2> DEFINE r == stages[1]
  <2>1. /\ [r EXCEPT !.valid = FALSE].valid = FALSE
        /\ [r EXCEPT !.level_index = slot_of(r.order.price)].valid = r.valid
    BY <1>1 DEF Stage
  <2> QED BY <1>2, <2>1 DEF stage2_route, Missed
<1>6. /\ stages'[3].order = stages[2].order /\ stages'[3].valid = stages[2].valid
      /\ stages[2].valid \/ stages'[3].result = NoMatch
  <2> DEFINE ls == levels'
             bs == bits'
             r  == stages[2]
             m  == stage3_match(ls, bs, r)
  <2>1. ls \in [Sides -> [Slots -> LadderLevel]] /\ bs \in [Sides -> SUBSET Slots]
        /\ r \in Stage /\ r.result = NoMatch
    BY <1>1
  <2>2. stages'[3] = m
    BY <1>2
  <2> HIDE DEF ls, bs, r
  <2>3. m.order = r.order /\ m.valid = r.valid /\ (m.result # NoMatch => r.valid)
    BY <2>1, MatchIs
  <2> QED BY <2>2, <2>3 DEF r
<1> QED BY <1>2, <1>3, <1>4, <1>5, <1>6

\* The base the next cycle will have, for an order in stage 1 and behind it.
LEMMA NextBaseIs ==
  ASSUME IInv
  PROVE  /\ base_price \in Nat => NextBase = base_price
         /\ stages[1].valid =>
              /\ NextBase \in Nat
              /\ InWindow(stages[1].order.price) <=> Within(NextBase, stages[1].order.price)
<1>1. base_price \in Nat => \A p : Base(p) = base_price
  BY UnsetAssumption DEF Base
<1>2. base_price \in Nat => NextBase = base_price
  BY <1>1 DEF NextBase
<1>3. ASSUME stages[1].valid
      PROVE  /\ NextBase \in Nat
             /\ InWindow(stages[1].order.price) <=> Within(NextBase, stages[1].order.price)
  <2>1. Typed /\ stages[1].order.price \in Nat
    BY DEF IInv, Typed, Stage, AnyOrder
  <2>2. NextBase = Base(stages[1].order.price)
    BY <1>3 DEF NextBase
  <2>3. NextBase \in Nat
    BY <2>1, <2>2, BaseIs
  <2> QED BY <2>2, <2>3 DEF InWindow, slot_of, Within
<1> QED BY <1>2, <1>3

\* The third invariant holds before the first cycle, and every cycle keeps it.
LEMMA InitJudged == Init => Judged
<1> SUFFICES ASSUME Init PROVE Judged
  OBVIOUS
<1>1. \A i \in 1 .. 4 : stages[i] = Bubble
  BY DEF Init
<1>2. Bubble.order = NoOrder /\ ~ Bubble.valid /\ Bubble.result = NoMatch
  BY DEF Bubble, Register
<1>3. input = NoOrder
  BY DEF Init
<1> QED BY <1>1, <1>2, <1>3 DEF Judged

LEMMA NextJudged ==
  ASSUME IInv, IInv', Judged, [Next]_vars
  PROVE  Judged'
<1>1. CASE Next
  <2>1. PICK order \in Given \cup {NoOrder} : clock(order, order # NoOrder)
    BY <1>1, NextGives
  <2>2. /\ input' = order
        /\ stages'[1].order = order /\ stages'[1].valid = (order # NoOrder)
        /\ stages'[2].order = stages[1].order
        /\ stages'[2].valid <=> stages[1].valid /\ InWindow(stages[1].order.price)
        /\ stages'[3].order = stages[2].order /\ stages'[3].valid = stages[2].valid
        /\ stages[2].valid \/ stages'[3].result = NoMatch
        /\ base_price' = NextBase
    BY <2>1, ClockMoves
  <2>3. (\A i \in 1 .. 3 : stages[i].order \in Given \cup {NoOrder})'
    BY <2>2 DEF Judged
  <2>4. (/\ stages[2].valid => stages[2].order # NoOrder
         /\ stages[2].order # NoOrder =>
              /\ base_price \in Nat
              /\ stages[2].valid <=> Within(base_price, stages[2].order.price))'
    BY <2>2, NextBaseIs DEF Judged
  <2>5. (/\ stages[3].valid => stages[3].order # NoOrder
         /\ stages[3].order # NoOrder =>
              /\ base_price \in Nat
              /\ stages[3].valid <=> Within(base_price, stages[3].order.price))'
    BY <2>2, NextBaseIs DEF Judged
  <2> QED BY <2>2, <2>3, <2>4, <2>5 DEF Judged
<1>2. CASE UNCHANGED vars
  BY <1>2 DEF vars, Judged
<1> QED BY <1>1, <1>2

----------------------------------------------------------------------------
(* The refinement *)

\* The instance's operators on ladders are this module's.
LEMMA SameEngine ==
  /\ Engine!NewEngine = NewEngine
  /\ Engine!Incoming = Given
  /\ \A b, p : Engine!Level(b, p) = Level(b, p)
  /\ \A o : Engine!One(o) = One(o)
  /\ \A e, o : /\ Engine!Crosses(e, o) = Crosses(e, o)
               /\ Engine!Match(e, o) = Match(e, o)
               /\ Engine!submit(e, o) = submit(e, o)
<1>1. Engine!NewEngine = NewEngine
  BY DEF Engine!NewEngine, NewEngine, Engine!EmptyLadder, EmptyLadder
<1>2. Engine!Incoming = Given /\ \A o : Engine!One(o) = One(o)
  BY DEF Engine!Incoming, Given, Engine!One, One
<1>3. ASSUME NEW b, NEW p PROVE Engine!Level(b, p) = Level(b, p)
  BY DEF Engine!Level, Level
<1>4. ASSUME NEW e, NEW o PROVE Engine!Crosses(e, o) = Crosses(e, o)
  BY DEF Engine!Crosses, Crosses, Engine!Best, Best, Engine!Opposite, Opposite
<1>5. ASSUME NEW e, NEW o PROVE Engine!Match(e, o) = Match(e, o)
  BY DEF Engine!Match, Match, Engine!Best, Best, Engine!Opposite, Opposite,
         Engine!Smaller, Smaller
<1>6. ASSUME NEW e, NEW o PROVE Engine!submit(e, o) = submit(e, o)
  <2>1. ASSUME NEW b, NEW p, NEW q PROVE Engine!SetLevel(b, p, q) = SetLevel(b, p, q)
    BY DEF Engine!SetLevel, SetLevel
  <2>2. ASSUME NEW q, NEW i, NEW n PROVE Engine!Shrink(q, i, n) = Shrink(q, i, n)
    BY DEF Engine!Shrink, Shrink, Engine!RemoveAt, RemoveAt
  <2>3. ASSUME NEW m, NEW x PROVE Engine!Printed(x, m) = Printed(x, m)
    BY DEF Engine!Printed, Printed
  <2>4. ASSUME NEW x PROVE Engine!Opposite(x) = Opposite(x)
    BY DEF Engine!Opposite, Opposite
  <2> QED BY <1>3, <1>4, <1>5, <2>1, <2>2, <2>3, <2>4 DEF Engine!submit, submit
<1> QED BY <1>1, <1>2, <1>3, <1>4, <1>5, <1>6

\* The mapped state of the engine, now and after the step.
LEMMA EngineState ==
  /\ [Buy |-> Ladder("Buy"), Sell |-> Ladder("Sell"), orphan_ops |-> 0,
      last_price |-> last_price] = Book
  /\ [Buy |-> Ladder("Buy"), Sell |-> Ladder("Sell"), orphan_ops |-> 0,
      last_price |-> last_price]' = Book'
BY DEF Book, BookOf, Ladder, LadderFn

\* Three registers' orders, as InFlight lists them.
Row(a, b, c) == One(a) \o One(b) \o One(c)

LEMMA OnesAreSequences ==
  ASSUME NEW T, NEW a \in T PROVE One(a) \in Seq(T)
BY DEF One

LEMMA RowNotEmpty ==
  ASSUME NEW a, NEW b, NEW c, a # NoOrder
  PROVE  Row(a, b, c) # << >>
<1> DEFINE T == {a, b, c}
           S == Seq(T)
           t == One(b) \o One(c)
<1>1. One(a) = <<a>>
  BY DEF One
<1>2. One(a) \in S /\ One(b) \in S /\ One(c) \in S
  <2>1. a \in T /\ b \in T /\ c \in T
    OBVIOUS
  <2> HIDE DEF T
  <2> QED BY <2>1, OnesAreSequences
<1>3. Row(a, b, c) = One(a) \o t
  BY <1>2, ConcatAssociative DEF Row
<1>4. t \in S
  BY <1>2
<1> HIDE DEF t
<1>5. Len(<<a>> \o t) = 1 + Len(t) /\ Len(t) \in Nat
  BY <1>4
<1> QED BY <1>1, <1>3, <1>5

\* The orders in flight before and after a cycle that takes in a new one.
LEMMA InFlightMoves ==
  \A a, b, c, d :
    /\ a = NoOrder => Row(b, c, d) = Row(a, b, c) \o One(d)
    /\ a # NoOrder => /\ Row(a, b, c) # << >> /\ Head(Row(a, b, c)) = a
                      /\ Row(b, c, d) = Tail(Row(a, b, c)) \o One(d)
<1> TAKE a, b, c, d
<1> DEFINE T == {a, b, c}
           S == Seq(T)
           t == One(b) \o One(c)
<1>1. One(a) \in S /\ One(b) \in S /\ One(c) \in S
  <2>1. a \in T /\ b \in T /\ c \in T
    OBVIOUS
  <2> HIDE DEF T
  <2> QED BY <2>1, OnesAreSequences
<1>2. Row(a, b, c) = One(a) \o t /\ Row(b, c, d) = t \o One(d)
  BY <1>1, ConcatAssociative DEF Row
<1>3. t \in S
  BY <1>1
<1>4. ASSUME a = NoOrder PROVE One(a) \o t = t
  BY <1>3, <1>4 DEF One
<1>5. ASSUME a # NoOrder
      PROVE  One(a) \o t # << >> /\ Head(One(a) \o t) = a /\ Tail(One(a) \o t) = t
  <2>1. One(a) = <<a>>
    BY <1>5 DEF One
  <2> HIDE DEF t
  <2> QED BY <1>3, <2>1
<1> QED BY <1>2, <1>4, <1>5

\* The empty pipeline is an engine with an empty book and no orders.
LEMMA InitEngine == Init => Engine!Init
<1> SUFFICES ASSUME Init PROVE Engine!Init
  OBVIOUS
<1>1. ASSUME NEW s \in Sides PROVE Ladder(s) = EmptyLadder
  BY DEF Init, Ladder, EmptyLadder
<1>2. Ladder("Buy") = EmptyLadder /\ Ladder("Sell") = EmptyLadder
  BY <1>1 DEF Sides
<1>3. last_price = 0 /\ input = NoOrder /\ base_price = Unset
  BY DEF Init
<1>4. \A i \in 1 .. 4 : stages[i].order = NoOrder /\ ~ stages[i].valid
                        /\ stages[i].result = NoMatch
  BY DEF Init, Bubble, Register
<1>5. InFlight = << >> /\ NextBase = Unset
  BY <1>3, <1>4 DEF InFlight, NextBase, One
<1> QED BY <1>2, <1>3, <1>4, <1>5, SameEngine DEF Engine!Init, NewEngine, Engine!Nothing

\* Every call of clock takes in an order or none, and answers the oldest of
\* the orders in flight or none.
LEMMA NextEngine ==
  ASSUME OnGrid, IInv, IInv', Gridded, Gridded', Judged, Judged', [Next]_vars
  PROVE  [Engine!Next]_(Engine!vars)
<1>1. CASE UNCHANGED vars
  BY <1>1 DEF vars, Engine!vars, Ladder, InFlight, NextBase, Base
<1>2. CASE Next
  <2> DEFINE o == stages[3].order
  <2>1. PICK order \in Given \cup {NoOrder} : clock(order, order # NoOrder)
    BY <1>2, NextGives
  <2>2. /\ input' = order /\ stages'[1].order = order /\ stages'[1].valid = (order # NoOrder)
        /\ stages'[2].order = stages[1].order /\ stages'[3].order = stages[2].order
        /\ stages'[4] = stages[3] /\ base_price' = NextBase
        /\ stage4_execute(stages[3])
    BY <2>1, ClockMoves
  <2>4. /\ o = NoOrder => InFlight' = InFlight \o One(order)
        /\ o # NoOrder => /\ InFlight # << >> /\ Head(InFlight) = o
                          /\ InFlight' = Tail(InFlight) \o One(order)
    <3> DEFINE a == stages[3].order
               b == stages[2].order
               c == stages[1].order
    <3>2. /\ InFlight = Row(a, b, c)
          /\ InFlight' = Row(b, c, order)
      BY <2>2 DEF InFlight, Row
    <3> HIDE DEF a, b, c
    <3>3. /\ a = NoOrder => InFlight' = InFlight \o One(order)
          /\ a # NoOrder => /\ InFlight # << >> /\ Head(InFlight) = a
                            /\ InFlight' = Tail(InFlight) \o One(order)
      <4>1. a = NoOrder => Row(b, c, order) = Row(a, b, c) \o One(order)
        BY InFlightMoves
      <4>2. a # NoOrder => Row(a, b, c) # << >>
        BY RowNotEmpty
      <4>4. a # NoOrder => Head(Row(a, b, c)) = a
        BY InFlightMoves
      <4>3. a # NoOrder => Row(b, c, order) = Tail(Row(a, b, c)) \o One(order)
        BY InFlightMoves
      <4> QED BY <3>2, <4>1, <4>2, <4>3, <4>4
    <3> QED BY <3>3 DEF a
  <2>5. NextBase' = IF NextBase = Unset /\ order # NoOrder
                      THEN Engine!CentredOn(order.price) ELSE NextBase
    BY <2>2 DEF NextBase, Base, Engine!CentredOn
  <2>6. order \in Engine!Incoming \cup {NoOrder}
    BY SameEngine
  <2>7. CASE o = NoOrder
    <3>1. ~ stages[3].valid /\ stages[3].result = NoMatch
      BY <2>7 DEF Judged
    <3>2. UNCHANGED <<levels, bits, last_price>>
      BY <2>2, <3>1 DEF stage4_execute
    <3>3. Engine!Rest
      BY <2>2, <2>7, <3>1, <3>2 DEF Engine!Rest, Engine!Nothing, Ladder
    <3>4. Engine!Take(InFlight)
      BY <2>2, <2>4, <2>5, <2>6, <2>7, SameEngine DEF Engine!Take
    <3> QED BY <3>3, <3>4 DEF Engine!Next
  <2>8. CASE o # NoOrder
    <3>1. /\ base_price \in Nat
          /\ stages[3].valid <=> Within(base_price, o.price)
          /\ stages[3].valid \/ stages[3].result = NoMatch
      BY <2>8 DEF Judged
    <3>2. Engine!Tradable(o) <=> stages[3].valid
      <4>1. NextBase = base_price
        BY <3>1, NextBaseIs
      <4>2. Engine!Tradable(o) <=> Within(NextBase, o.price)
        BY DEF Engine!Tradable, Within
      <4> QED BY <3>1, <4>1, <4>2
    <3>3. stages[3].result =
            IF stages[3].valid /\ Crosses(Book, o) THEN Match(Book, o) ELSE NoMatch
      BY <3>1, CrossesIsMarketable
    <3>4. ~ stages[3].valid => Book' = Book
      BY <2>2, EngineState DEF stage4_execute, Book, BookOf
    <3>5. stages[3].valid =>
            Book' = IF ~ Crosses(Book, o) /\ Len(Level(Book[o.side], o.price)) >= MAX_ORDERS
                      THEN Book ELSE submit(Book, o)
      <4>1. CASE stages[3].valid /\ stages[3].result = NoMatch
        BY <2>2, <4>1, CrossesIsMarketable, RestIsSubmit
      <4>2. CASE stages[3].valid /\ stages[3].result # NoMatch
        BY <2>2, <4>2, CrossesIsMarketable, MatchIsSubmit
      <4> QED BY <4>1, <4>2
    <3>6. /\ stages'[4].order = o /\ stages'[4].result = stages[3].result
      BY <2>2
    <3> HIDE DEF o
    <3>7. Engine!Serve
      BY <2>4, <2>8, <3>2, <3>3, <3>4, <3>5, <3>6, EngineState, SameEngine
         DEF Engine!Serve, Engine!Response, Engine!Full
    <3>8. Engine!Take(Tail(InFlight))
      BY <2>2, <2>4, <2>5, <2>6, <2>8, SameEngine DEF Engine!Take
    <3> QED BY <3>7, <3>8 DEF Engine!Next
  <2> QED BY <2>7, <2>8
<1> QED BY <1>1, <1>2

\* Overlapping orders in five stages changes nothing: on the tick grid, each
\* order given to clock leaves stage 4 once and in turn, with the result the
\* STL engine gives it after the orders before it, and the ladder is that
\* engine's book; an order outside the window gets no match and changes
\* nothing, and one that finds its level full is not rested.
THEOREM PipelineIsEngine == ASSUME OnGrid PROVE Spec => ImplementsEngine
<1>1. Init => Gridded /\ Judged /\ Engine!Init
  BY InitGridded, InitJudged, InitEngine
<1>2. IInv /\ IInv' /\ Gridded /\ Judged /\ [Next]_vars => Gridded' /\ Judged'
  BY NextGridded, NextJudged
<1>3. /\ IInv /\ IInv' /\ Gridded /\ Gridded' /\ Judged /\ Judged' /\ [Next]_vars
      => [Engine!Next]_(Engine!vars)
  BY NextEngine
<1> QED BY <1>1, <1>2, <1>3, PipelineInvariant, PTL DEF Spec, ImplementsEngine, Engine!Spec
=============================================================================
