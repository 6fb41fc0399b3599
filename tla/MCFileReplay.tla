---------------------------- MODULE MCFileReplay ----------------------------
(* A day of five messages, picked so that the top moves, empties, locks,   *)
(* crosses and comes back, trades print on both sides, an execution prints *)
(* away from its level, an order has no shares and a reference comes twice.*)
EXTENDS FileReplay

Add(r, s, p, q)     == [action |-> "Add", ref |-> r, side |-> s, price |-> p, qty |-> q]
Execute(r, p, q, k) == [action |-> "Execute", ref |-> r, price |-> p, qty |-> q, match |-> k]
Cancel(r, q)        == [action |-> "Cancel", ref |-> r, qty |-> q]
Delete(r)           == [action |-> "Delete", ref |-> r]
Replace(r, n, p, q) == [action |-> "Replace", ref |-> r, new_ref |-> n, price |-> p, qty |-> q]
Trade(s, p, q)      == [action |-> "Trade", ref |-> 1, side |-> s, price |-> p, qty |-> q,
                        match |-> 1]

MCRepeats == {Add(1, "Buy", 22, 1)}

MCFeed ==
  MCRepeats \cup
  {Add(1, "Buy", 20, 2), Add(2, "Buy", 20, 1), Add(3, "Sell", 22, 3), Add(4, "Sell", 21, 2),
   Add(4, "Sell", 20, 1), Add(2, "Buy", 21, 0),
   Execute(1, 0, 1, 1), Execute(3, 0, 2, 1), Execute(3, 21, 3, 1), Execute(3, 21, 1, 0),
   Cancel(1, 1), Cancel(2, 1), Delete(1), Delete(3), Delete(4),
   Replace(1, 1, 21, 2), Replace(3, 4, 23, 1), Trade("Buy", 20, 2), Trade("Sell", 22, 1)}

\* ops is the output of a step and is read by none.
StateView == <<book, engine, micro, last, close_taken, close, time, history>>
=============================================================================
