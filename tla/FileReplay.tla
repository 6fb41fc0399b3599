---------------------------- MODULE FileReplay ----------------------------
(***************************************************************************)
(* The file replay consumer (main.cpp, on_message): every message of the   *)
(* day is resolved, its operations are applied to the engine, trades and   *)
(* moves of the top of the book go to the analytics, and the first message *)
(* at or after the closing bell is preceded by a snapshot.                 *)
(*                                                                         *)
(* The feed is external.  Its clock does not go back; it gives out a live  *)
(* reference again only with the messages in Repeats.                      *)
(***************************************************************************)
EXTENDS BookFeed, Microstructure

CONSTANTS Repeats,      \* messages that may come although their reference is live
          MARKET_CLOSE,
          MaxTime,      \* bound on the feed's clock
          MaxMessages   \* bound on the length of the day

ASSUME RepeatsAssumption == Repeats \subseteq Feed
ASSUME TimeAssumption ==
         MaxTime \in Nat /\ MARKET_CLOSE \in 0 .. MaxTime /\ MaxMessages \in Nat

VARIABLES micro,        \* the analytics
          last,         \* last_bp .. last_aq: the quote last passed on
          close_taken,
          close,        \* the snapshot, once taken
          time,         \* the feed's clock
          msgs,         \* history: messages so far
          bell,         \* history: what a snapshot after the last message
                        \* before the bell would have been
          tops,         \* history: the tops of the book, two-sided and uncrossed
          prints,       \* history: the trades after the first top, with its mid
          reused        \* history: references given out again while live

history == <<msgs, bell, tops, prints, reused>>
vars == <<book, ops, engine, micro, last, close_taken, close, time, history>>

Quote(b, a) == [bp |-> b.px, bq |-> b.qty, ap |-> a.px, aq |-> a.qty]

Top(e) == Quote(best(e, "Buy"), best(e, "Sell"))

TwoSided(e) == DOMAIN e.Buy # {} /\ DOMAIN e.Sell # {}

\* Shares traded, another counter of the report, is left out.
Snapshot(e, mi) ==
  [digest |-> book_digest(e), top |-> Top(e), last_price |-> e.last_price,
   levels |-> <<Cardinality(DOMAIN e.Buy), Cardinality(DOMAIN e.Sell)>>, micro |-> mi]

Init == /\ BookInit
        /\ micro = reset
        /\ last = [bp |-> 0, bq |-> 0, ap |-> 0, aq |-> 0]
        /\ close_taken = FALSE /\ close = None
        /\ time = 0
        /\ msgs = 0 /\ tops = << >> /\ prints = << >> /\ reused = {}
        /\ bell = Snapshot(NewEngine, reset)

\* A printed execution is a trade; the aggressor is opposite the resting order.
IsTrade(op) == op.action \in {"Execute", "Trade"} /\ op.match # 0

\* One pass of the loop over the operations: apply, then on_trade.
Handle(s, op) ==
  [engine |-> apply(s.engine, op),
   micro  |-> IF IsTrade(op) THEN on_trade(s.micro, op.price, op.qty, op.side = "Sell")
              ELSE s.micro]

\* Mutant: a top with the prices of the last one is not passed on.
Passes_PriceOnly(e, q) == TwoSided(e) /\ <<q.bp, q.ap>> # <<last.bp, last.ap>>

\* Whether the top of the book is passed on to the analytics.
Passes(e, q) == TwoSided(e) /\ q # last

\* Mutant: every message after the bell takes the snapshot again.
TakesClose_Again(ts) == ts >= MARKET_CLOSE

TakesClose(ts) == ~ close_taken /\ ts >= MARKET_CLOSE

\* Twice the mid of a quote.
MidX2(q) == q.bp + q.ap

\* What a trade adds to the history: its price, its signed volume and the mid
\* before it.
Recorded(p, op) ==
  IF IsTrade(op) /\ tops # << >>
    THEN Append(p, [px  |-> op.price, v |-> IF op.side = "Sell" THEN op.qty ELSE -op.qty,
                    mid |-> MidX2(tops[Len(tops)])])
    ELSE p

on_message(m, ts) ==
  /\ msgs < MaxMessages
  /\ Reuses(m) => m \in Repeats
  /\ resolve(m)
  /\ close_taken' = (close_taken \/ TakesClose(ts))
  /\ close' = IF TakesClose(ts) THEN Snapshot(engine, micro) ELSE close
  /\ \E s \in {ForEachOp(Handle, [engine |-> engine, micro |-> micro], ops')} :
       \E q \in {Top(s.engine)} :
         /\ engine' = s.engine
         /\ IF ops' # << >> /\ Passes(s.engine, q)
              THEN micro' = on_book(s.micro, q) /\ last' = q
              ELSE micro' = s.micro /\ UNCHANGED last
  /\ time' = ts
  /\ msgs' = msgs + 1
  /\ bell' = IF ts < MARKET_CLOSE THEN Snapshot(engine', micro') ELSE bell
  /\ tops' = LET q == Top(engine')
             IN  IF TwoSided(engine') /\ q.bp < q.ap /\ (tops = << >> \/ q # tops[Len(tops)])
                   THEN Append(tops, q) ELSE tops
  /\ prints' = ForEachOp(Recorded, prints, ops')
  /\ reused' = IF Reuses(m)
                 THEN reused \cup {IF m.action = "Add" THEN m.ref ELSE m.new_ref} ELSE reused

\* The end of the day.
Done == msgs = MaxMessages /\ UNCHANGED vars

Next == (\E m \in Feed, ts \in time .. MaxTime : on_message(m, ts)) \/ Done

Spec == Init /\ [][Next]_vars

----------------------------------------------------------------------------
\* BookState and the engine keep the same book: what rests in the ladders is
\* what the reference table holds, with the same side, price and remaining
\* shares and nothing twice, but for orders of no shares, which the engine does
\* not rest, and references given out again while live, whose first order
\* nothing can remove: the damage stays with those.
Mirror ==
  /\ {o \in Resting(engine) : o.ref \notin reused} = {o \in Live(book) : o.ref \notin reused}
  /\ RestsOnce(engine, Refs \ reused)

\* Quantities of a price scale: the mid is exact, the microprice is the quote's
\* prices weighted with the other side's sizes, rounded down once, it stays within
\* the quote, and it is on the ask's side of the mid exactly when the bid is the
\* heavier side: the rounding never turns the sign "that carries information".
FairValue(s, q) ==
  LET d == q.bq + q.aq
      n == (q.bp * q.aq + q.ap * q.bq) * PriceScale
  IN  /\ 2 * s.mid = MidX2(q) * PriceScale
      /\ s.microprice * d <= n /\ n < (s.microprice + 1) * d
      /\ q.bp * PriceScale <= s.microprice /\ s.microprice < q.ap * PriceScale
      /\ s.micro_minus_mid = s.microprice - s.mid
      /\ s.micro_minus_mid >= 0 <=> q.bq >= q.aq

\* "call on every top-of-book change": the analytics' quote is the last top of
\* the book that was two-sided and uncrossed, through messages that empty a
\* side, cross the book or put it back as it was, and the mid and the microprice
\* reported are that quote's, not an older one's.
QuoteIsLastTop ==
  IF tops = << >> THEN ~ micro.have_prev
  ELSE LET q == tops[Len(tops)]
       IN  /\ [bp |-> micro.pb, bq |-> micro.qb, ap |-> micro.pa, aq |-> micro.qa] = q
           /\ FairValue(micro, q)

\* The snapshot is what the last message before the bell left behind: not the
\* message that triggers it, which may resolve to nothing, and none after it.
CloseIsBell == close_taken => close = bell

----------------------------------------------------------------------------
(* The metrics against their definitions over the history of the book. *)

Sum(s) ==
  LET upto[i \in 0 .. Len(s)] == IF i = 0 THEN 0 ELSE upto[i - 1] + s[i]
  IN  upto[Len(s)]

\* Cont-Kukanov-Stoikov by cases, from one top to the next: size added while the
\* price stays, the whole queue gained when it improves, lost when it gives way.
BidFlow(a, c) ==
  CASE c.bp > a.bp -> c.bq [] c.bp = a.bp -> c.bq - a.bq [] c.bp < a.bp -> -a.bq

AskFlow(a, c) ==
  CASE c.ap < a.ap -> c.aq [] c.ap = a.ap -> c.aq - a.aq [] c.ap > a.ap -> -a.aq

Flows(t) ==
  [i \in DOMAIN t |-> IF i = 1 THEN 0 ELSE BidFlow(t[i - 1], t[i]) - AskFlow(t[i - 1], t[i])]

\* Order flow imbalance is the sum over consecutive tops of the book, none
\* missed and none counted twice across empty sides and crossed books.
OfiIsImbalance == micro.ofi = Sum(Flows(tops))

\* The squared log returns of the mid's moves.
SquaredReturn(from, to) ==
  IF from = to THEN 0 ELSE Return(from, to) * Return(from, to)

Squares(t) ==
  [i \in DOMAIN t |-> IF i = 1 THEN 0 ELSE SquaredReturn(MidX2(t[i - 1]), MidX2(t[i]))]

\* "sqrt(sum of squared log returns)": the reported volatility is that root
\* rounded down, exact to its last digit, after every move of the mid.
VolIsRoot ==
  LET squares == Sum(Squares(tops))
      low     == micro.realized_vol * VolScale
      high    == (micro.realized_vol + 1) * VolScale
  IN  low * low <= squares /\ squares < high * high

\* The terms of the sums over trades: of the spread, of the regression's two.
Spreads(p) == [i \in DOMAIN p |-> Abs(2 * p[i].px - p[i].mid)]

Impacts(p) == [i \in DOMAIN p |-> IF i = 1 THEN 0 ELSE (p[i].mid - p[i - 1].mid) * p[i].v]

Volumes(p) == [i \in DOMAIN p |-> IF i = 1 THEN 0 ELSE p[i].v * p[i].v]

\* Every trade after the first top is measured against the top before it, and
\* Kyle's lambda is the slope of the mid's moves between trades on their signed
\* volume, rounded once.
TradesMeasured ==
  LET dpv == Sum(Impacts(prints))
      vv  == Sum(Volumes(prints))
  IN  /\ micro.trades = Len(prints)
      /\ micro.effective_spread_sum = Sum(Spreads(prints))
      /\ micro.kyle_lambda = IF vv = 0 THEN 0 ELSE Quot(dpv * ImpactScale, vv)
=============================================================================
