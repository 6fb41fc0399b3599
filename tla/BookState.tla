----------------------------- MODULE BookState -----------------------------
(***************************************************************************)
(* Order reference resolution (book_state.cpp): an open-addressing table   *)
(* with linear probing and tombstones.  A slot is EMPTY, TOMBSTONE, or the *)
(* order it holds.  One action per message type of resolve_impl.           *)
(*                                                                         *)
(* Of the counters in Stats, `live`, `peak_live` and `max_probe` are kept; *)
(* of the monotone ones, `counted` keeps which one the last call bumped.   *)
(***************************************************************************)
EXTENDS OrderOps, FiniteSets

CONSTANTS Capacity,     \* slots in the table
          Hash,         \* hash_ref & mask_, for every reference
          EMPTY, TOMBSTONE, None

ASSUME CapacityAssumption == Capacity \in Nat \ {0}
ASSUME HashAssumption == Hash \in [Refs -> 0 .. Capacity - 1]
ASSUME SlotAssumption ==
         EMPTY # TOMBSTONE /\ {EMPTY, TOMBSTONE, None} \cap RestingOrder = {}

VARIABLES slots, live, peak_live, max_probe,
          counted,      \* the counter the last message was counted under
          ops           \* the operations it resolved into

stats == <<live, peak_live, max_probe, counted>>
vars == <<slots, stats, ops>>

Slots == 0 .. Capacity - 1
Larger(a, b) == IF a < b THEN b ELSE a

----------------------------------------------------------------------------
(* Probing *)

\* The slot looked at after k steps.
Probe(ref, k) == (Hash[ref] + k) % Capacity

Holds(s, ref, i) == s[i] \notin {EMPTY, TOMBSTONE} /\ s[i].ref = ref

Stops(s, ref, k) == s[Probe(ref, k)] = EMPTY \/ Holds(s, ref, Probe(ref, k))

\* k is where the loop of find, insert and erase ends; Capacity stands for
\* having gone round the whole table.
ScanEnds(s, ref, k) ==
  /\ \A j \in 0 .. Capacity - 1 : j < k => ~ Stops(s, ref, j)
  /\ k < Capacity => Stops(s, ref, k)

Scan(s, ref) == CHOOSE k \in 0 .. Capacity : ScanEnds(s, ref, k)

\* find, and the slot it returns.
Found(s, ref) ==
  Scan(s, ref) < Capacity /\ Holds(s, ref, Probe(ref, Scan(s, ref)))

At(s, ref) == Probe(ref, Scan(s, ref))

\* Mutant: the slot is emptied outright.
erase_Empty(s, ref) == [s EXCEPT ![At(s, ref)] = EMPTY]

erase(s, ref) == [s EXCEPT ![At(s, ref)] = TOMBSTONE]

\* The first tombstone on the way, if the scan steps over one.
Reusable(s, ref, k) ==
  /\ s[Probe(ref, k)] = TOMBSTONE
  /\ \A j \in 0 .. k - 1 : s[Probe(ref, j)] # TOMBSTONE

InsertAt(s, ref) ==
  IF \E k \in 0 .. Scan(s, ref) - 1 : Reusable(s, ref, k)
    THEN Probe(ref, CHOOSE k \in 0 .. Scan(s, ref) - 1 : Reusable(s, ref, k))
    ELSE At(s, ref)

\* Mutant: a tombstone on the way is taken although the order is further on.
insert_Eager(s, ro) ==
  IF Scan(s, ro.ref) = Capacity THEN [ok |-> FALSE, new |-> FALSE, slots |-> s]
  ELSE [ok |-> TRUE, new |-> ~ Found(s, ro.ref),
        slots |-> [s EXCEPT ![InsertAt(s, ro.ref)] = ro]]

\* What insert does to the table and what it returns: `ok`, and whether the
\* order is a new one or takes the place of a live one.
insert(s, ro) ==
  LET k == Scan(s, ro.ref)
  IN  IF k = Capacity THEN [ok |-> FALSE, new |-> FALSE, slots |-> s]
      ELSE IF Found(s, ro.ref)
        THEN [ok |-> TRUE, new |-> FALSE,
              slots |-> [s EXCEPT ![At(s, ro.ref)] = ro]]
      ELSE [ok |-> TRUE, new |-> TRUE,
            slots |-> [s EXCEPT ![InsertAt(s, ro.ref)] = ro]]

----------------------------------------------------------------------------
Init == /\ slots = [i \in Slots |-> EMPTY]
        /\ live = 0 /\ peak_live = 0 /\ max_probe = 0
        /\ counted = "none"
        /\ ops = << >>

Reset == /\ slots' = [i \in Slots |-> EMPTY]
         /\ live' = 0 /\ peak_live' = 0 /\ max_probe' = 0
         /\ counted' = "none"
         /\ UNCHANGED ops

\* The statistics insert keeps: r is its result, s and n the table and the
\* number of live orders it started from, probed the longest probe before it.
Inserted(s, ref, r, n, probed) ==
  /\ slots' = r.slots
  /\ live' = IF r.new THEN n + 1 ELSE n
  /\ peak_live' = IF r.new THEN Larger(peak_live, n + 1) ELSE peak_live
  /\ max_probe' = IF r.new THEN Larger(probed, Scan(s, ref)) ELSE probed

Add(m) ==
  LET r == insert(slots, AddedOrder(m))
  IN  /\ Inserted(slots, m.ref, r, live, max_probe)
      /\ ops' = IF r.ok THEN <<AddOp(AddedOrder(m))>> ELSE << >>
      /\ counted' = IF r.ok THEN "adds" ELSE "table_full"

Unresolved(m) ==
  /\ ~ Found(slots, m.ref)
  /\ counted' = "unresolved"
  /\ ops' = << >>
  /\ UNCHANGED <<slots, live, peak_live, max_probe>>

Probed(ref) == Larger(max_probe, Scan(slots, ref))

\* Take n shares off the order under ref, and erase it when none are left.
Reduce(ref, n) ==
  LET i == At(slots, ref)
  IN  /\ IF slots[i].qty = n
           THEN slots' = erase(slots, ref) /\ live' = live - 1
           ELSE /\ slots' = [slots EXCEPT ![i] = [@ EXCEPT !.qty = slots[i].qty - n]]
                /\ UNCHANGED live
      /\ max_probe' = Probed(ref)
      /\ UNCHANGED peak_live

Execute(m) ==
  /\ Found(slots, m.ref)
  /\ LET ro == slots[At(slots, m.ref)]
     IN  /\ Reduce(m.ref, Taken(m, ro))
         /\ ops' = <<ExecuteOp(m, ro)>>
  /\ counted' = "executes"

Cancel(m) ==
  /\ Found(slots, m.ref)
  /\ LET ro == slots[At(slots, m.ref)]
     IN  /\ Reduce(m.ref, Taken(m, ro))
         /\ ops' = <<CancelOp(m, ro)>>
  /\ counted' = "cancels"

Delete(m) ==
  /\ Found(slots, m.ref)
  /\ ops' = <<DeleteOp(m, slots[At(slots, m.ref)])>>
  /\ slots' = erase(slots, m.ref)
  /\ live' = live - 1
  /\ max_probe' = Probed(m.ref)
  /\ counted' = "deletes"
  /\ UNCHANGED peak_live

\* Mutant: the replaced order stays in the table.
Replace_Leaks(m) ==
  /\ Found(slots, m.ref)
  /\ LET ro  == slots[At(slots, m.ref)]
         nro == ReplacingOrder(m, ro)
         r   == insert(slots, nro)
     IN  /\ Inserted(slots, m.new_ref, r, live, Probed(m.ref))
         /\ ops' = IF r.ok THEN <<DeleteOp(m, ro), AddOp(nro)>>
                   ELSE <<DeleteOp(m, ro)>>
         /\ counted' = IF r.ok THEN "replaces" ELSE "table_full"

Replace(m) ==
  /\ Found(slots, m.ref)
  /\ LET ro     == slots[At(slots, m.ref)]
         nro    == ReplacingOrder(m, ro)
         erased == erase(slots, m.ref)
         r      == insert(erased, nro)
     IN  /\ Inserted(erased, m.new_ref, r, live - 1, Probed(m.ref))
         /\ ops' = IF r.ok THEN <<DeleteOp(m, ro), AddOp(nro)>>
                   ELSE <<DeleteOp(m, ro)>>
         /\ counted' = IF r.ok THEN "replaces" ELSE "table_full"

Trade(m) ==
  /\ ops' = <<TradeOp(m)>>
  /\ counted' = "trades"
  /\ UNCHANGED <<slots, live, peak_live, max_probe>>

Next == \/ Reset
        \/ \E m \in AddMsg : Add(m)
        \/ \E m \in ExecuteMsg : Execute(m)
        \/ \E m \in CancelMsg : Cancel(m)
        \/ \E m \in DeleteMsg : Delete(m)
        \/ \E m \in ReplaceMsg : Replace(m)
        \/ \E m \in TradeMsg : Trade(m)
        \/ \E m \in ExecuteMsg \cup CancelMsg \cup DeleteMsg \cup ReplaceMsg :
             Unresolved(m)

Spec == Init /\ [][Next]_vars

----------------------------------------------------------------------------
Occupied == {i \in Slots : slots[i] \in RestingOrder}

\* "erasing never breaks the chain for keys inserted behind it": from its home
\* slot to the slot it is in, an order's probe sequence meets no EMPTY slot.
Chain ==
  \A i \in Occupied : \A k \in 0 .. Capacity - 1 :
    Probe(slots[i].ref, k) = i =>
      \A j \in 0 .. k - 1 : slots[Probe(slots[i].ref, j)] # EMPTY

\* A reference is in the table at most once, although insert may put an order
\* into a tombstone in front of the place where the scan ended.
Unique ==
  \A i, j \in Occupied : slots[i].ref = slots[j].ref => i = j

Book == [r \in Refs |-> IF \E i \in Occupied : slots[i].ref = r
                          THEN slots[CHOOSE i \in Occupied : slots[i].ref = r]
                          ELSE None]

Map == INSTANCE OrderMap WITH book <- Book

\* The table is a map: whatever has been inserted and erased before, every
\* message resolves against the order last stored under its reference.
ImplementsMap == Map!Spec

\* An order is refused only when the table really is full of live orders.
FullMeansFull == counted = "table_full" => live = Capacity
=============================================================================
