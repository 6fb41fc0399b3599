------------------------------ MODULE OrderMap ------------------------------
(***************************************************************************)
(* What BookState promises: a partial map from order references to resting *)
(* orders, and for every message the operations it resolves into.  How     *)
(* orders are stored, and when there is no room for one, is left open.     *)
(***************************************************************************)
EXTENDS OrderOps

CONSTANT None           \* no order rests under this reference

VARIABLES book,         \* the order resting under each reference
          ops           \* the operations the last message resolved into

vars == <<book, ops>>

Init == book = [r \in Refs |-> None] /\ ops = << >>

Reset == book' = [r \in Refs |-> None] /\ UNCHANGED ops

\* Under a reference that is live already, an Add takes the order's place.
Add(m) == /\ book' = [book EXCEPT ![m.ref] = AddedOrder(m)]
          /\ ops' = <<AddOp(AddedOrder(m))>>

NoRoom(m) == /\ book[m.ref] = None
             /\ ops' = << >>
             /\ UNCHANGED book

Unresolved(m) == /\ book[m.ref] = None
                 /\ ops' = << >>
                 /\ UNCHANGED book

\* Take n shares off the order under ref; an order with none left is gone.
Reduce(ref, n) ==
  book' = [book EXCEPT ![ref] = IF @.qty = n THEN None
                                ELSE [@ EXCEPT !.qty = book[ref].qty - n]]

Execute(m) == /\ book[m.ref] # None
              /\ Reduce(m.ref, Taken(m, book[m.ref]))
              /\ ops' = <<ExecuteOp(m, book[m.ref])>>

Cancel(m) == /\ book[m.ref] # None
             /\ Reduce(m.ref, Taken(m, book[m.ref]))
             /\ ops' = <<CancelOp(m, book[m.ref])>>

Delete(m) == /\ book[m.ref] # None
             /\ book' = [book EXCEPT ![m.ref] = None]
             /\ ops' = <<DeleteOp(m, book[m.ref])>>

Replace(m) ==
  /\ book[m.ref] # None
  /\ LET ro  == book[m.ref]
         nro == ReplacingOrder(m, ro)
     IN  /\ book' = [book EXCEPT ![m.ref] = None, ![m.new_ref] = nro]
         /\ ops' = <<DeleteOp(m, ro), AddOp(nro)>>

\* The replacement finds no room: the old order is gone all the same.
ReplaceNoRoom(m) ==
  /\ book[m.ref] # None
  /\ m.new_ref = m.ref \/ book[m.new_ref] = None
  /\ book' = [book EXCEPT ![m.ref] = None]
  /\ ops' = <<DeleteOp(m, book[m.ref])>>

Trade(m) == ops' = <<TradeOp(m)>> /\ UNCHANGED book

Next == \/ Reset
        \/ \E m \in AddMsg : Add(m) \/ NoRoom(m)
        \/ \E m \in ExecuteMsg : Execute(m) \/ Unresolved(m)
        \/ \E m \in CancelMsg : Cancel(m) \/ Unresolved(m)
        \/ \E m \in DeleteMsg : Delete(m) \/ Unresolved(m)
        \/ \E m \in ReplaceMsg : Replace(m) \/ ReplaceNoRoom(m) \/ Unresolved(m)
        \/ \E m \in TradeMsg : Trade(m)

Spec == Init /\ [][Next]_vars
=============================================================================
