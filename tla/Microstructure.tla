--------------------------- MODULE Microstructure ---------------------------
(***************************************************************************)
(* The fixed-point analytics (microstructure.cpp) as operators on their    *)
(* state.  Prices are in ticks, the scales of the outputs are parameters:  *)
(* the code's are 10^4, 10^12, 10^3 and 5 * 10^7 and 64 root digits.       *)
(***************************************************************************)
EXTENDS Integers

CONSTANTS PriceScale,   \* microprice and mid per unit of price
          LogScale,     \* unit of the log returns
          VolScale,     \* what the reported volatility drops of that unit
          ImpactScale,  \* Kyle's lambda per unit of doubled price
          RootBits      \* digits the integer square root computes

ASSUME ScaleAssumption ==
  /\ PriceScale \in Nat \ {0} /\ PriceScale % 2 = 0
  /\ {LogScale, VolScale, ImpactScale, RootBits} \subseteq Nat \ {0}

\* Integer division of C++, for a positive divisor: towards zero.
Quot(a, b) == IF a < 0 THEN -((-a) \div b) ELSE a \div b

\* log(1 + x), four terms of the series, every power divided as it is formed.
log1p(x) ==
  LET x2 == Quot(x * x, LogScale)
      x3 == Quot(x2 * x, LogScale)
      x4 == Quot(x3 * x, LogScale)
  IN  x - Quot(x2, 2) + Quot(x3, 3) - Quot(x4, 4)

\* v without its last i pairs of bits.
Shifted(v) ==
  LET shifted[i \in 0 .. RootBits] == IF i = 0 THEN v ELSE shifted[i - 1] \div 4
  IN  shifted

\* Mutant: the comparison is not strict.
isqrt_Greedy(v) ==
  LET step[i \in 0 .. RootBits] ==
        IF i = 0 THEN [rem |-> 0, root |-> 0]
        ELSE LET root == 2 * step[i - 1].root
                 rem  == 4 * step[i - 1].rem + (Shifted(v)[RootBits - i] % 4)
             IN  IF rem >= root THEN [rem |-> rem - (root + 1), root |-> root + 2]
                 ELSE [rem |-> rem, root |-> root]
  IN  step[RootBits].root \div 2

\* Square root, two bits of v and one of the root at a time.  root is even, so
\* that root | 1 and root | 2 are sums.
isqrt(v) ==
  LET step[i \in 0 .. RootBits] ==
        IF i = 0 THEN [rem |-> 0, root |-> 0]
        ELSE LET root == 2 * step[i - 1].root
                 rem  == 4 * step[i - 1].rem + (Shifted(v)[RootBits - i] % 4)
             IN  IF rem > root THEN [rem |-> rem - (root + 1), root |-> root + 2]
                 ELSE [rem |-> rem, root |-> root]
  IN  step[RootBits].root \div 2

reset ==
  [microprice |-> 0, mid |-> 0, micro_minus_mid |-> 0, ofi |-> 0,
   effective_spread_sum |-> 0, effective_spread_n |-> 0, realized_vol |-> 0,
   return_samples |-> 0, kyle_lambda |-> 0, book_updates |-> 0, trades |-> 0,
   degenerate_books |-> 0,
   pb |-> 0, qb |-> 0, pa |-> 0, qa |-> 0, have_prev |-> FALSE,
   sum_sq_ret |-> 0, sum_dp_v |-> 0, sum_v_sq |-> 0,
   prev_mid_x2 |-> 0, prev_trade_mid_x2 |-> 0]

----------------------------------------------------------------------------
(* on_book.  A quote is [bp, bq, ap, aq]. *)

\* Mutant: a quote that did not move counts on one side of the comparison only.
OrderFlow_Strict(s, q) ==
  (IF q.bp > s.pb THEN q.bq ELSE 0) - (IF q.bp <= s.pb THEN s.qb ELSE 0)
    - (IF q.ap < s.pa THEN q.aq ELSE 0) + (IF q.ap >= s.pa THEN s.qa ELSE 0)

OrderFlow(s, q) ==
  (IF q.bp >= s.pb THEN q.bq ELSE 0) - (IF q.bp <= s.pb THEN s.qb ELSE 0)
    - (IF q.ap <= s.pa THEN q.aq ELSE 0) + (IF q.ap >= s.pa THEN s.qa ELSE 0)

\* The log return from one doubled mid to another.
Return(from, to) == log1p(Quot((to - from) * LogScale, from))

\* A move of the mid adds its squared return to the volatility.
Moved(s, mid_x2) ==
  IF s.prev_mid_x2 = 0 \/ mid_x2 = s.prev_mid_x2 THEN s
  ELSE LET r   == Return(s.prev_mid_x2, mid_x2)
           sum == s.sum_sq_ret + r * r
       IN  [s EXCEPT !.sum_sq_ret = sum, !.return_samples = @ + 1,
                     !.realized_vol = isqrt(sum) \div VolScale]

Priced(s, q) ==
  LET micro == ((q.bp * q.aq + q.ap * q.bq) * PriceScale) \div (q.bq + q.aq)
      mid   == (q.bp + q.ap) * (PriceScale \div 2)
  IN  [s EXCEPT !.book_updates = @ + 1, !.microprice = micro, !.mid = mid,
                !.micro_minus_mid = micro - mid]

Remember(s, q) ==
  [s EXCEPT !.pb = q.bp, !.qb = q.bq, !.pa = q.ap, !.qa = q.aq,
            !.prev_mid_x2 = q.bp + q.ap, !.have_prev = TRUE]

on_book(s, q) ==
  IF 0 \in {q.bp, q.bq, q.ap, q.aq} THEN s
  ELSE IF q.bp >= q.ap THEN [s EXCEPT !.degenerate_books = @ + 1]
  ELSE LET priced == Priced(s, q)
           flowed == [priced EXCEPT !.ofi = @ + OrderFlow(s, q)]
       IN  Remember(IF s.have_prev THEN Moved(flowed, q.bp + q.ap) ELSE priced, q)

----------------------------------------------------------------------------
(* on_trade *)

Abs(x) == IF x < 0 THEN -x ELSE x

\* Kyle's regression, of the mid's move since the last trade on signed volume.
Regressed(s, dp_x2, v) ==
  LET dpv == s.sum_dp_v + dp_x2 * v
      vv  == s.sum_v_sq + v * v
  IN  [s EXCEPT !.sum_dp_v = dpv, !.sum_v_sq = vv,
                !.kyle_lambda = IF vv > 0 THEN Quot(dpv * ImpactScale, vv) ELSE @]

\* Mutant: the mid of the last book update stands for that of the last trade.
on_trade_LastUpdate(s, px, qty, buyer_initiated) ==
  IF ~ s.have_prev \/ s.pb = 0 \/ s.pa = 0 THEN s
  ELSE LET mid_x2   == s.pb + s.pa
           v        == IF buyer_initiated THEN qty ELSE -qty
           measured == [s EXCEPT !.trades = @ + 1, !.effective_spread_n = @ + 1,
                                 !.effective_spread_sum = @ + Abs(2 * px - mid_x2)]
       IN  [(IF s.prev_trade_mid_x2 > 0
               THEN Regressed(measured, mid_x2 - s.prev_mid_x2, v) ELSE measured)
              EXCEPT !.prev_trade_mid_x2 = mid_x2]

on_trade(s, px, qty, buyer_initiated) ==
  IF ~ s.have_prev \/ s.pb = 0 \/ s.pa = 0 THEN s
  ELSE LET mid_x2   == s.pb + s.pa
           v        == IF buyer_initiated THEN qty ELSE -qty
           measured == [s EXCEPT !.trades = @ + 1, !.effective_spread_n = @ + 1,
                                 !.effective_spread_sum = @ + Abs(2 * px - mid_x2)]
       IN  [(IF s.prev_trade_mid_x2 > 0
               THEN Regressed(measured, mid_x2 - s.prev_trade_mid_x2, v) ELSE measured)
              EXCEPT !.prev_trade_mid_x2 = mid_x2]
=============================================================================
