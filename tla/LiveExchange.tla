---------------------------- MODULE LiveExchange ----------------------------
(***************************************************************************)
(* The live consumer (live_exchange_main.cpp, on_order): every message is  *)
(* resolved, every Add among the operations is put through the risk engine *)
(* and the write-ahead log, and what passes is applied to the engine.      *)
(*                                                                         *)
(* Of the log, the last entry of every order that rests is kept, in the    *)
(* order of the file; WriteAheadLog models the file itself.  Rendering and *)
(* the counters of the final report are left out.  The feed is external: a *)
(* doubled or late datagram gives out a reference that is still live.      *)
(***************************************************************************)
EXTENDS BookFeed, RiskEngine

CONSTANTS Stock,        \* the one subscribed symbol
          RefPrice,     \* its reference price, set by main
          MaxResting,   \* bound on the orders the engine holds
          MaxDoubled,   \* bound on references given out again while live
          MaxUnlogged   \* bound on resting orders whose append failed

ASSUME LiveBounds == MaxResting \in Nat /\ MaxDoubled \in Nat /\ MaxUnlogged \in Nat

VARIABLES risk,         \* the risk engine's table
          wal,          \* last entry of every resting order, oldest first
          refused,      \* history: live references whose Add risk rejected
          unlogged,     \* history: resting orders whose append failed
          doubled       \* history: references in use that were given out again
                        \* while live

liveVars == <<book, ops, engine, risk, wal, refused, unlogged, doubled>>

LiveInit ==
  /\ BookInit
  /\ risk = set_reference_price(<< >>, Stock, RefPrice)
  /\ wal = << >>
  /\ refused = {} /\ unlogged = {}
  /\ doubled = {}

Entry(type, op) == [type |-> type, ref |-> op.ref, side |-> op.side,
                    price |-> op.price, qty |-> op.qty]

\* The order handed to the risk engine and to the log.
ProbeOf(op) == [stock |-> Stock, side |-> op.side, price |-> op.price, qty |-> op.qty]

Accepts(op) == check(risk, ProbeOf(op)) = "Accepted"

\* The entries of the orders in refs, in the order they have in the log.
Kept(w, refs) ==
  LET upto[i \in 0 .. Len(w)] ==
        IF i = 0 THEN << >>
        ELSE IF w[i].ref \in refs THEN Append(upto[i - 1], w[i]) ELSE upto[i - 1]
  IN  upto[Len(w)]

\* The log after append, which writes nothing when it fails.  on_order does
\* not look at what it returns.
append(w, e, written) == IF written THEN Append(Kept(w, Refs \ {e.ref}), e) ELSE w

\* Mutant: every operation goes through the risk check, not the Adds alone.
Admit_GatesAll(s, op, written) ==
  IF ~ Accepts(op)
    THEN [s EXCEPT !.wal = append(@, Entry("OrderRejected", op), written),
                   !.refused = IF op.action = "Add" THEN @ \cup {op.ref} ELSE @]
  ELSE [s EXCEPT !.wal = append(@, Entry("OrderSubmitted", op), written),
                 !.engine = apply(@, op),
                 !.refused = @ \ {op.ref}]

\* Mutant: nothing goes through it.
Admit_Ungated(s, op, written) ==
  IF op.action # "Add" THEN [s EXCEPT !.engine = apply(@, op)]
  ELSE [s EXCEPT !.wal = append(@, Entry("OrderSubmitted", op), written),
                 !.engine = apply(@, op)]

\* Mutant: only rejections are logged.
Admit_Unlogged(s, op, written) ==
  IF op.action # "Add" THEN [s EXCEPT !.engine = apply(@, op)]
  ELSE IF ~ Accepts(op)
    THEN [s EXCEPT !.wal = append(@, Entry("OrderRejected", op), written),
                   !.refused = @ \cup {op.ref}]
  ELSE [s EXCEPT !.engine = apply(@, op), !.refused = @ \ {op.ref}]

\* One pass of the loop over the resolved operations, on the state s.
Admit(s, op, written) ==
  IF op.action # "Add"
    THEN [s EXCEPT !.engine = apply(@, op)]
  ELSE IF ~ Accepts(op)
    THEN [s EXCEPT !.wal = append(@, Entry("OrderRejected", op), written),
                   !.refused = @ \cup {op.ref}]
  ELSE [s EXCEPT !.wal = append(@, Entry("OrderSubmitted", op), written),
                 !.engine = apply(@, op),
                 !.refused = @ \ {op.ref}]

Added == {ops'[i].ref : i \in {j \in DOMAIN ops' : ops'[j].action = "Add"}}

LiveRefs == {r \in Refs : book[r] # None}

RestingRefs(e) == {o.ref : o \in Resting(e)}

\* With a reference given out again the engine's orders have no bound.
Bounded == /\ Cardinality(Places(engine)) <= MaxResting
           /\ Cardinality(doubled) <= MaxDoubled
           /\ Cardinality(unlogged) <= MaxUnlogged

on_order(m, written) ==
  /\ resolve(m)
  /\ Added = {} => written
  /\ \E s \in {ForEachOp(LAMBDA st, op : Admit(st, op, written),
                         [engine |-> engine, wal |-> wal, refused |-> refused], ops')} :
       \E resting \in {RestingRefs(s.engine)} :
         /\ engine' = s.engine
         /\ wal' = Kept(s.wal, resting)
         /\ refused' = s.refused \cap LiveRefs'
         /\ unlogged' = resting \cap (IF written THEN unlogged \ Added ELSE unlogged \cup Added)
         /\ doubled' = (LiveRefs' \cup resting)
                         \cap (IF Reuses(m) THEN doubled \cup Added ELSE doubled)
  /\ risk' = IF Added # {} THEN Checked(risk, ProbeOf(ops'[Len(ops')])) ELSE risk
  /\ Bounded'

LiveNext == \E m \in Feed, written \in BOOLEAN : on_order(m, written)

LiveSpec == LiveInit /\ [][LiveNext]_liveVars

----------------------------------------------------------------------------
\* Order x rests at y's side and price with all of y's shares or more.
Covers(x, y) == <<x.ref, x.side, x.price>> = <<y.ref, y.side, y.price>> /\ x.qty >= y.qty

\* The engine's book is BookState's book without the orders risk rejected,
\* each once: rejecting an Add after the table has stored it strands nothing
\* else.  A reference given out again while live leaves its first order behind
\* in the engine, where nothing removes it; the damage stays with that
\* reference, and the order the table has for it rests with its shares.
MirrorsAccepted ==
  /\ {o \in Resting(engine) : o.ref \notin doubled}
       = {o \in Live(book) : o.ref \notin refused \cup doubled}
  /\ RestsOnce(engine, Refs \ doubled)
  /\ \A o \in Live(book) : o.ref \notin refused => \E x \in Resting(engine) : Covers(x, o)

\* Only an operation on an order that risk rejected finds nothing to do in the
\* engine and is counted as an orphan; an execution that prints away from its
\* order's level finds the order, and so does any operation on a reference that
\* was given out again.
OrphansAreRefused ==
  [][engine'.orphan_ops # engine.orphan_ops
       => ops' # << >> /\ ops'[1].action # "Add" /\ ops'[1].ref \in refused]_liveVars

\* No order the risk engine would reject ever rests in the engine, even when
\* the order it replaces was rejected or its price came from a Replace.
RestingPassesRisk == \A o \in Resting(engine) : Accepts(o)

\* Where in the log the submission of a resting order is; 0 if it is not there.
Logged(o) ==
  SelectInSeq(wal, LAMBDA e : /\ e.type = "OrderSubmitted"
                              /\ <<e.ref, e.side, e.price>> = <<o.ref, o.side, o.price>>
                              /\ o.qty <= e.qty)

\* "every order goes through here before hitting the pipeline": an order rests
\* in the engine only if its submission is in the log, unless that append
\* failed; and at every level the log has the orders in the order in which the
\* engine will fill them, whatever was reduced, removed or replaced between.
\* Orders whose reference was given out again while live are left out: of those
\* this model of the log has the last submission only, the engine all orders.
LogIsAhead ==
  LET known == {o \in Resting(engine) : o.ref \notin unlogged \cup doubled}
  IN  /\ \A o \in known : Logged(o) # 0
      /\ \A x, y \in known :
           (/\ <<x.side, x.price>> = <<y.side, y.price>>
            /\ IndexOf(engine[x.side][x.price], x.ref) < IndexOf(engine[y.side][y.price], y.ref))
             => Logged(x) < Logged(y)
=============================================================================
