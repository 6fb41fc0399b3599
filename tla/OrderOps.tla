------------------------------ MODULE OrderOps ------------------------------
(***************************************************************************)
(* The vocabulary the book components share: the parsed messages BookState *)
(* receives, the resting orders it remembers and the fully detailed        *)
(* operations it hands to the engine.  Ticker, timestamp and locate ride   *)
(* along unchanged and are left out.                                       *)
(***************************************************************************)
EXTENDS Integers, Sequences

CONSTANTS Refs,         \* order references
          Side,         \* {"Buy", "Sell"}, or one of them alone
          Prices,       \* prices other than 0
          Qtys          \* share counts a message may carry

ASSUME SideAssumption   == Side \subseteq {"Buy", "Sell"}
ASSUME PricesAssumption == Prices \subseteq Nat \ {0}
ASSUME QtysAssumption   == Qtys \subseteq Nat

RestingOrder == [ref : Refs, side : Side, price : Prices, qty : Nat]

\* An E message carries no price (0), a C message its own; match is 0 when a
\* C message is not printable.
AddMsg     == [action : {"Add"}, ref : Refs, side : Side, price : Prices, qty : Qtys]
ExecuteMsg == [action : {"Execute"}, ref : Refs, price : Prices \cup {0},
               qty : Qtys, match : {0, 1}]
CancelMsg  == [action : {"Cancel"}, ref : Refs, qty : Qtys]
DeleteMsg  == [action : {"Delete"}, ref : Refs]
ReplaceMsg == [action : {"Replace"}, ref : Refs, new_ref : Refs, price : Prices,
               qty : Qtys]
TradeMsg   == [action : {"Trade"}, ref : Refs, side : Side, price : Prices,
               qty : Qtys, match : {0, 1}]

Message == AddMsg \cup ExecuteMsg \cup CancelMsg \cup DeleteMsg \cup ReplaceMsg
             \cup TradeMsg

ResolvedOp == [action : {"Add", "Execute", "Cancel", "Delete", "Trade"}, ref : Refs,
               side : Side, price : Prices, qty : Nat, match : {0, 1}]

Op(action, ref, side, price, qty, match) ==
  [action |-> action, ref |-> ref, side |-> side, price |-> price, qty |-> qty,
   match |-> match]

Smaller(a, b) == IF a < b THEN a ELSE b

----------------------------------------------------------------------------
(* What each message becomes, given the resting order `ro` it names. *)

AddedOrder(m) == [ref |-> m.ref, side |-> m.side, price |-> m.price, qty |-> m.qty]

ReplacingOrder(m, ro) ==
  [ref |-> m.new_ref, side |-> ro.side, price |-> m.price, qty |-> m.qty]

AddOp(ro) == Op("Add", ro.ref, ro.side, ro.price, ro.qty, 0)

\* The shares a message takes off an order, never more than it has left.
Taken(m, ro) == Smaller(m.qty, ro.qty)

ExecuteOp(m, ro) ==
  Op("Execute", m.ref, ro.side, IF m.price # 0 THEN m.price ELSE ro.price,
     Taken(m, ro), m.match)

CancelOp(m, ro) == Op("Cancel", m.ref, ro.side, ro.price, Taken(m, ro), 0)

DeleteOp(m, ro) == Op("Delete", m.ref, ro.side, ro.price, ro.qty, 0)

TradeOp(m) == Op("Trade", m.ref, m.side, m.price, m.qty, m.match)
=============================================================================
