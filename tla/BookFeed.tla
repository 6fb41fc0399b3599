------------------------------ MODULE BookFeed ------------------------------
(***************************************************************************)
(* What the two consumers of the feed share: the reference table BookState *)
(* (here in its abstract form OrderMap), the engine, and the messages the  *)
(* parser hands over.                                                      *)
(***************************************************************************)
EXTENDS SoftwareEngine, FiniteSets

CONSTANTS None,
          Feed          \* the messages the exchange may send

ASSUME FeedAssumption == Feed \subseteq Message
ASSUME NoneAssumption == None \notin RestingOrder

VARIABLES book, ops,    \* BookState
          engine

Book == INSTANCE OrderMap

BookInit == Book!Init /\ engine = NewEngine

\* The message gives a live reference to a new order.  The exchange does not
\* do that; a doubled or late datagram does.
Reuses(m) ==
  \/ m.action = "Add" /\ book[m.ref] # None
  \/ /\ m.action = "Replace" /\ book[m.ref] # None
     /\ m.new_ref # m.ref /\ book[m.new_ref] # None

resolve(m) ==
  CASE m.action = "Add"     -> Book!Add(m) \/ Book!NoRoom(m)
    [] m.action = "Execute" -> Book!Execute(m) \/ Book!Unresolved(m)
    [] m.action = "Cancel"  -> Book!Cancel(m) \/ Book!Unresolved(m)
    [] m.action = "Delete"  -> Book!Delete(m) \/ Book!Unresolved(m)
    [] m.action = "Replace" -> Book!Replace(m) \/ Book!ReplaceNoRoom(m) \/ Book!Unresolved(m)
    [] m.action = "Trade"   -> Book!Trade(m)

\* The loop of a consumer over the operations of one message, of which there
\* are never more than two.
ForEachOp(Body(_, _), s, q) ==
  CASE Len(q) = 0 -> s
    [] Len(q) = 1 -> Body(s, q[1])
    [] Len(q) = 2 -> Body(Body(s, q[1]), q[2])

----------------------------------------------------------------------------
\* Where the engine holds orders: side, price and place in the queue.
Places(e) ==
  UNION {UNION {{<<s, p, i>> : i \in DOMAIN e[s][p]} : p \in DOMAIN e[s]} : s \in Side}

OrderAt(e, x) == e[x[1]][x[2]][x[3]]

\* What the engine holds, as a set of resting orders.
Resting(e) ==
  {[ref |-> OrderAt(e, x).ref, side |-> x[1], price |-> x[2], qty |-> OrderAt(e, x).qty] :
     x \in Places(e)}

\* The orders of the table that have shares; the engine rests no other.
Live(b) == {b[r] : r \in {x \in Refs : b[x] # None /\ b[x].qty > 0}}

\* No reference rests twice.
RestsOnce(e, refs) ==
  \A x, y \in Places(e) :
    OrderAt(e, x).ref \in refs /\ OrderAt(e, x).ref = OrderAt(e, y).ref => x = y
=============================================================================
