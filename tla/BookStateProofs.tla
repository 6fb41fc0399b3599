-------------------------- MODULE BookStateProofs --------------------------
(***************************************************************************)
(* Proofs about the table of BookState, for every capacity, every hash     *)
(* function and every set of references.  First linear probing: from any   *)
(* home slot it visits every slot once, and the scan ends.  Then what a    *)
(* well-formed table is and that erase, insert and an update in place keep *)
(* it so, and what each of them does to the map the table stands for.      *)
(***************************************************************************)
EXTENDS BookState, TLAPS, WellFoundedInduction

(* Probing *)

\* A set of natural numbers that is not empty has a least element.
LEMMA LeastNatural ==
  ASSUME NEW S \in SUBSET Nat, S # {}
  PROVE  \E n \in S : \A m \in S : n <= m
<1> DEFINE R == {ss \in Nat \X Nat : ss[1] < ss[2]}
<1>1. IsWellFoundedOn(R, Nat)
  BY NatLessThanWellFounded DEF OpToRel
<1> HIDE DEF R
<1>2. PICK n \in S : \A m \in S : ~ (<<m, n>> \in R)
  BY <1>1, WFMin
<1>3. \A m \in S : ~ (m < n)
  BY <1>2 DEF R
<1> QED BY <1>3

\* A step of the probe sequence without the modulus.
LEMMA ProbeIs ==
  ASSUME NEW ref \in Refs, NEW k \in 0 .. Capacity - 1
  PROVE  /\ Hash[ref] \in 0 .. Capacity - 1
         /\ Probe(ref, k) = IF Hash[ref] + k < Capacity THEN Hash[ref] + k
                            ELSE Hash[ref] + k - Capacity
         /\ Probe(ref, k) \in Slots
<1>1. Hash[ref] \in 0 .. Capacity - 1
  BY HashAssumption
<1> DEFINE h == Hash[ref]
<1> HIDE DEF h
<1>2. h \in 0 .. Capacity - 1 /\ Capacity \in Nat \ {0}
  BY <1>1, CapacityAssumption DEF h
<1>3. (h + k) % Capacity = IF h + k < Capacity THEN h + k ELSE h + k - Capacity
  BY <1>2
<1> QED BY <1>1, <1>2, <1>3 DEF Probe, Slots, h

\* From any home slot the probe sequence reaches every slot.
LEMMA ProbeReaches ==
  ASSUME NEW ref \in Refs, NEW i \in Slots
  PROVE  \E k \in 0 .. Capacity - 1 : Probe(ref, k) = i
<1>1. Hash[ref] \in 0 .. Capacity - 1 /\ Capacity \in Nat \ {0} /\ i \in 0 .. Capacity - 1
  BY HashAssumption, CapacityAssumption DEF Slots
<1> DEFINE k == IF i >= Hash[ref] THEN i - Hash[ref] ELSE i - Hash[ref] + Capacity
<1>2. k \in 0 .. Capacity - 1
  BY <1>1
<1>3. Probe(ref, k) = i
  BY <1>1, <1>2, ProbeIs
<1> QED BY <1>2, <1>3

\* It meets no slot twice.
LEMMA ProbeInjective ==
  ASSUME NEW ref \in Refs, NEW j \in 0 .. Capacity - 1, NEW k \in 0 .. Capacity - 1,
         Probe(ref, j) = Probe(ref, k)
  PROVE  j = k
BY ProbeIs, CapacityAssumption

\* The loop of find, insert and erase has an end.
LEMMA ScanHasEnd ==
  ASSUME NEW s, NEW ref
  PROVE  \E k \in 0 .. Capacity : ScanEnds(s, ref, k)
<1> DEFINE T == {k \in 0 .. Capacity - 1 : Stops(s, ref, k)}
<1>1. Capacity \in Nat \ {0}
  BY CapacityAssumption
<1>2. CASE T = {}
  <2>1. ScanEnds(s, ref, Capacity)
    BY <1>1, <1>2 DEF ScanEnds
  <2> QED BY <1>1, <2>1
<1>3. CASE T # {}
  <2>0. T \in SUBSET Nat
    BY <1>1
  <2>1. PICK n \in T : \A m \in T : n <= m
    <3> HIDE DEF T
    <3> QED BY <1>3, <2>0, LeastNatural
  <2>2. ScanEnds(s, ref, n)
    BY <1>1, <2>1 DEF ScanEnds
  <2> QED BY <1>1, <2>1, <2>2
<1> QED BY <1>2, <1>3

\* The probe of a table ends within Capacity steps, where ScanEnds says.
LEMMA ScanIs ==
  ASSUME NEW s, NEW ref
  PROVE  Scan(s, ref) \in 0 .. Capacity /\ ScanEnds(s, ref, Scan(s, ref))
BY ScanHasEnd DEF Scan

----------------------------------------------------------------------------
(* Well-formed tables *)

\* Every slot is an order, EMPTY or TOMBSTONE.
Typed(s) == s \in [Slots -> RestingOrder \cup {EMPTY, TOMBSTONE}]

\* Unique and Chain of a table that need not be the current one.
UniqueIn(s) ==
  \A i, j \in Slots :
    s[i] \in RestingOrder /\ s[j] \in RestingOrder /\ s[i].ref = s[j].ref => i = j

\* A search for ref gets to slot i: nothing between its home and i is EMPTY.
Reachable(s, ref, i) ==
  \A k \in 0 .. Capacity - 1 :
    Probe(ref, k) = i => \A j \in 0 .. k - 1 : s[Probe(ref, j)] # EMPTY

ChainIn(s) == \A i \in Slots : s[i] \in RestingOrder => Reachable(s, s[i].ref, i)

\* The inductive invariant.
WellFormed(s) == Typed(s) /\ UniqueIn(s) /\ ChainIn(s)

\* A slot holds a reference when there is an order of it there.
LEMMA HoldsIs ==
  ASSUME NEW s, Typed(s), NEW ref, NEW i \in Slots
  PROVE  Holds(s, ref, i) <=> s[i] \in RestingOrder /\ s[i].ref = ref
BY SlotAssumption DEF Typed, Holds

\* find finds an order exactly if the table holds it, and returns its slot.
LEMMA FindIsExact ==
  ASSUME NEW s, WellFormed(s), NEW ref \in Refs
  PROVE  /\ Found(s, ref) => /\ At(s, ref) \in Slots
                             /\ s[At(s, ref)] \in RestingOrder
                             /\ s[At(s, ref)].ref = ref
         /\ ~ Found(s, ref) => \A i \in Slots : ~ (s[i] \in RestingOrder /\ s[i].ref = ref)
<1> DEFINE n == Scan(s, ref)
<1>1. n \in 0 .. Capacity /\ ScanEnds(s, ref, n)
  BY ScanIs
<1>2. Capacity \in Nat \ {0} /\ Typed(s) /\ ChainIn(s)
  BY CapacityAssumption DEF WellFormed
<1>3. Found(s, ref) <=> n < Capacity /\ Holds(s, ref, Probe(ref, n))
  BY DEF Found
<1> HIDE DEF n
<1>4. ASSUME Found(s, ref)
      PROVE  /\ At(s, ref) \in Slots
             /\ s[At(s, ref)] \in RestingOrder
             /\ s[At(s, ref)].ref = ref
  <2>1. At(s, ref) = Probe(ref, n)
    BY DEF At, n
  <2>2. Probe(ref, n) \in Slots
    BY <1>1, <1>2, <1>3, <1>4, ProbeIs
  <2> QED BY <1>2, <1>3, <1>4, <2>1, <2>2, HoldsIs
<1>5. ASSUME ~ Found(s, ref), NEW i \in Slots, s[i] \in RestingOrder, s[i].ref = ref
      PROVE  FALSE
  <2>1. PICK k \in 0 .. Capacity - 1 : Probe(ref, k) = i
    BY ProbeReaches
  <2>2. Stops(s, ref, k)
    BY <1>2, <1>5, <2>1, HoldsIs DEF Stops
  <2>3. n <= k
    BY <1>1, <1>2, <2>2 DEF ScanEnds
  <2>4. n < Capacity /\ Stops(s, ref, n)
    BY <1>1, <1>2, <2>3 DEF ScanEnds
  <2>5. s[Probe(ref, n)] = EMPTY
    BY <1>3, <1>5, <2>4 DEF Stops
  <2>6. n # k
    BY <1>5, <2>1, <2>5, SlotAssumption
  <2>7. Reachable(s, ref, i)
    BY <1>2, <1>5 DEF ChainIn
  <2> QED BY <1>1, <1>2, <2>1, <2>3, <2>5, <2>6, <2>7 DEF Reachable
<1> QED BY <1>4, <1>5

\* A tombstone keeps the chains that lead over it.
LEMMA EraseKeeps ==
  ASSUME NEW s, WellFormed(s), NEW ref \in Refs, Found(s, ref)
  PROVE  WellFormed(erase(s, ref))
<1> DEFINE i == At(s, ref)
           t == erase(s, ref)
<1>1. i \in Slots /\ Typed(s) /\ UniqueIn(s) /\ ChainIn(s)
  BY FindIsExact DEF WellFormed
<1> HIDE DEF i
<1>2. t = [s EXCEPT ![i] = TOMBSTONE]
  BY DEF erase, i
<1>3. \A j \in Slots : t[j] = IF j = i THEN TOMBSTONE ELSE s[j]
  BY <1>1, <1>2 DEF Typed
<1>4. Typed(t)
  BY <1>1, <1>2 DEF Typed
<1> HIDE DEF t
<1>5. \A j \in Slots : t[j] \in RestingOrder => s[j] \in RestingOrder /\ t[j] = s[j]
  BY <1>3, SlotAssumption
<1>6. UniqueIn(t)
  BY <1>1, <1>5 DEF UniqueIn
<1>7. ChainIn(t)
  <2> SUFFICES ASSUME NEW j \in Slots, t[j] \in RestingOrder,
                      NEW k \in 0 .. Capacity - 1, Probe(t[j].ref, k) = j,
                      NEW l \in 0 .. k - 1
               PROVE  t[Probe(t[j].ref, l)] # EMPTY
    BY DEF ChainIn, Reachable
  <2>1. s[j] \in RestingOrder /\ t[j] = s[j]
    BY <1>5
  <2>2. s[Probe(s[j].ref, l)] # EMPTY
    BY <1>1, <2>1 DEF ChainIn, Reachable
  <2>3. Probe(s[j].ref, l) \in Slots
    BY <2>1, ProbeIs, CapacityAssumption DEF RestingOrder
  <2> QED BY <1>3, <2>1, <2>2, <2>3, SlotAssumption
<1> QED BY <1>4, <1>6, <1>7 DEF WellFormed, t

\* An order may be put where it was, or, if the table does not have its
\* reference, into a free slot that its probe sequence reaches.
LEMMA StoreKeeps ==
  ASSUME NEW s, WellFormed(s), NEW ro \in RestingOrder, NEW i \in Slots,
         \A j \in Slots : s[j] \in RestingOrder /\ s[j].ref = ro.ref => j = i,
         Reachable(s, ro.ref, i)
  PROVE  WellFormed([s EXCEPT ![i] = ro])
<1> DEFINE t == [s EXCEPT ![i] = ro]
<1>1. Typed(s) /\ UniqueIn(s) /\ ChainIn(s)
  BY DEF WellFormed
<1>2. Typed(t)
  BY <1>1 DEF Typed
<1>3. \A j \in Slots : t[j] = IF j = i THEN ro ELSE s[j]
  BY <1>1 DEF Typed
<1> HIDE DEF t
<1>4. UniqueIn(t)
  BY <1>1, <1>3 DEF UniqueIn
<1>5. ChainIn(t)
  <2> SUFFICES ASSUME NEW j \in Slots, t[j] \in RestingOrder,
                      NEW k \in 0 .. Capacity - 1, Probe(t[j].ref, k) = j,
                      NEW l \in 0 .. k - 1
               PROVE  t[Probe(t[j].ref, l)] # EMPTY
    BY DEF ChainIn, Reachable
  <2>1. s[Probe(t[j].ref, l)] # EMPTY
    <3>1. CASE j = i
      BY <1>3, <3>1 DEF Reachable
    <3>2. CASE j # i
      BY <1>1, <1>3, <3>2 DEF ChainIn, Reachable
    <3> QED BY <3>1, <3>2
  <2>2. Probe(t[j].ref, l) \in Slots
    BY ProbeIs, CapacityAssumption DEF RestingOrder
  <2> QED BY <1>3, <2>1, <2>2, SlotAssumption
<1> QED BY <1>2, <1>4, <1>5 DEF WellFormed, t

\* Where insert puts a new order: a free slot that its probe sequence reaches,
\* whether the scan stepped over a tombstone or not.
LEMMA InsertReaches ==
  ASSUME NEW s, WellFormed(s), NEW ref \in Refs, ~ Found(s, ref),
         Scan(s, ref) # Capacity
  PROVE  /\ InsertAt(s, ref) \in Slots
         /\ s[InsertAt(s, ref)] \in {EMPTY, TOMBSTONE}
         /\ Reachable(s, ref, InsertAt(s, ref))
<1> DEFINE n == Scan(s, ref)
           i == InsertAt(s, ref)
<1>1. n \in 0 .. Capacity - 1 /\ ScanEnds(s, ref, n) /\ Capacity \in Nat \ {0}
  BY ScanIs, CapacityAssumption
<1>2. s[Probe(ref, n)] = EMPTY
  BY <1>1 DEF ScanEnds, Stops, Found
<1>3. i = IF \E k \in 0 .. n - 1 : Reusable(s, ref, k)
            THEN Probe(ref, CHOOSE k \in 0 .. n - 1 : Reusable(s, ref, k))
            ELSE Probe(ref, n)
  BY DEF InsertAt, At
<1> HIDE DEF n, i
<1>4. PICK k \in 0 .. n : i = Probe(ref, k) /\ s[i] \in {EMPTY, TOMBSTONE}
  <2>1. CASE \E k \in 0 .. n - 1 : Reusable(s, ref, k)
    <3> DEFINE k == CHOOSE k \in 0 .. n - 1 : Reusable(s, ref, k)
    <3>1. k \in 0 .. n - 1 /\ Reusable(s, ref, k)
      BY <2>1
    <3>2. i = Probe(ref, k)
      BY <1>3, <2>1
    <3> HIDE DEF k
    <3>3. k \in 0 .. n /\ s[i] = TOMBSTONE
      BY <1>1, <3>1, <3>2 DEF Reusable
    <3> QED BY <3>2, <3>3
  <2>2. CASE ~ \E k \in 0 .. n - 1 : Reusable(s, ref, k)
    BY <1>1, <1>2, <1>3, <2>2
  <2> QED BY <2>1, <2>2
<1>5. k \in 0 .. Capacity - 1
  BY <1>1
<1>6. i \in Slots
  BY <1>4, <1>5, ProbeIs
<1>7. Reachable(s, ref, i)
  <2> SUFFICES ASSUME NEW l \in 0 .. Capacity - 1, Probe(ref, l) = i, NEW j \in 0 .. l - 1
               PROVE  s[Probe(ref, j)] # EMPTY
    BY DEF Reachable
  <2>1. l = k
    BY <1>4, <1>5, ProbeInjective
  <2>2. j \in 0 .. Capacity - 1 /\ j < n
    BY <1>1, <2>1
  <2> QED BY <1>1, <2>2 DEF ScanEnds, Stops
<1> QED BY <1>4, <1>6, <1>7 DEF i

\* insert stores the order, under its reference and nowhere else, or finds the
\* reference not in the table and every slot looked at taken.
LEMMA InsertStores ==
  ASSUME NEW s, WellFormed(s), NEW ro \in RestingOrder
  PROVE  \/ /\ insert(s, ro).ok
            /\ \E i \in Slots :
                 /\ insert(s, ro).slots = [s EXCEPT ![i] = ro]
                 /\ \A j \in Slots : s[j] \in RestingOrder /\ s[j].ref = ro.ref => j = i
                 /\ s[i] \in RestingOrder => s[i].ref = ro.ref
                 /\ Reachable(s, ro.ref, i)
         \/ /\ ~ insert(s, ro).ok
            /\ insert(s, ro).slots = s
            /\ \A j \in Slots : ~ (s[j] \in RestingOrder /\ s[j].ref = ro.ref)
<1>1. ro.ref \in Refs
  BY DEF RestingOrder
<1>2. CASE Scan(s, ro.ref) = Capacity
  <2>1. ~ Found(s, ro.ref)
    BY <1>2, CapacityAssumption DEF Found
  <2> QED BY <1>1, <1>2, <2>1, FindIsExact DEF insert
<1>3. CASE Scan(s, ro.ref) # Capacity /\ Found(s, ro.ref)
  <2> DEFINE i == At(s, ro.ref)
  <2>1. insert(s, ro).ok /\ insert(s, ro).slots = [s EXCEPT ![i] = ro]
    BY <1>3 DEF insert
  <2>2. i \in Slots /\ s[i] \in RestingOrder /\ s[i].ref = ro.ref
    BY <1>1, <1>3, FindIsExact
  <2> HIDE DEF i
  <2>3. \A j \in Slots : s[j] \in RestingOrder /\ s[j].ref = ro.ref => j = i
    BY <2>2 DEF WellFormed, UniqueIn
  <2>4. Reachable(s, ro.ref, i)
    BY <2>2 DEF WellFormed, ChainIn
  <2> QED BY <2>1, <2>2, <2>3, <2>4
<1>4. CASE Scan(s, ro.ref) # Capacity /\ ~ Found(s, ro.ref)
  <2> DEFINE i == InsertAt(s, ro.ref)
  <2>1. insert(s, ro).ok /\ insert(s, ro).slots = [s EXCEPT ![i] = ro]
    BY <1>4 DEF insert
  <2>2. i \in Slots /\ s[i] \in {EMPTY, TOMBSTONE} /\ Reachable(s, ro.ref, i)
    BY <1>1, <1>4, InsertReaches
  <2>3. \A j \in Slots : ~ (s[j] \in RestingOrder /\ s[j].ref = ro.ref)
    BY <1>1, <1>4, FindIsExact
  <2> HIDE DEF i
  <2> QED BY <2>1, <2>2, <2>3, SlotAssumption
<1> QED BY <1>2, <1>3, <1>4

----------------------------------------------------------------------------
(* The map a table stands for *)

\* Book of a table that need not be the current one.
OccupiedIn(s) == {i \in Slots : s[i] \in RestingOrder}

\* The map a table stands for.
BookOf(s) == [r \in Refs |-> IF \E i \in OccupiedIn(s) : s[i].ref = r
                               THEN s[CHOOSE i \in OccupiedIn(s) : s[i].ref = r]
                               ELSE None]

\* The map has an order under its reference if and only if some slot holds it.
LEMMA BookIs ==
  ASSUME NEW s, WellFormed(s)
  PROVE  /\ BookOf(s) \in [Refs -> RestingOrder \cup {None}]
         /\ \A i \in Slots : s[i] \in RestingOrder => BookOf(s)[s[i].ref] = s[i]
         /\ \A r \in Refs :
              (\A i \in Slots : ~ (s[i] \in RestingOrder /\ s[i].ref = r))
                <=> BookOf(s)[r] = None
<1>1. ASSUME NEW i \in Slots, s[i] \in RestingOrder
      PROVE  BookOf(s)[s[i].ref] = s[i]
  <2> DEFINE r == s[i].ref
             c == CHOOSE j \in OccupiedIn(s) : s[j].ref = r
  <2>1. r \in Refs
    BY <1>1 DEF RestingOrder
  <2>2. i \in OccupiedIn(s)
    BY <1>1 DEF OccupiedIn
  <2>3. c \in OccupiedIn(s) /\ s[c].ref = r
    BY <2>2
  <2>4. BookOf(s)[r] = s[c]
    BY <2>1, <2>2 DEF BookOf
  <2> HIDE DEF c
  <2>5. c = i
    BY <1>1, <2>3 DEF OccupiedIn, WellFormed, UniqueIn
  <2> QED BY <2>4, <2>5
<1>2. ASSUME NEW r \in Refs, \A i \in Slots : ~ (s[i] \in RestingOrder /\ s[i].ref = r)
      PROVE  BookOf(s)[r] = None
  BY <1>2 DEF BookOf, OccupiedIn
<1>3. BookOf(s) = [r \in Refs |-> BookOf(s)[r]]
  BY DEF BookOf
<1>4. \A r \in Refs : BookOf(s)[r] \in RestingOrder \cup {None}
  BY <1>1, <1>2
<1>5. BookOf(s) \in [Refs -> RestingOrder \cup {None}]
  BY <1>3, <1>4
<1> QED BY <1>1, <1>2, <1>5, SlotAssumption

\* find returns the order the map has, and nothing if it has none.
LEMMA FindIsLookup ==
  ASSUME NEW s, WellFormed(s), NEW ref \in Refs
  PROVE  /\ Found(s, ref) <=> BookOf(s)[ref] # None
         /\ Found(s, ref) => s[At(s, ref)] = BookOf(s)[ref]
<1>1. CASE Found(s, ref)
  BY <1>1, FindIsExact, BookIs, SlotAssumption
<1>2. CASE ~ Found(s, ref)
  BY <1>2, FindIsExact, BookIs
<1> QED BY <1>1, <1>2

\* Two maps are equal if they agree on every reference.
LEMMA SameBook ==
  ASSUME NEW X, NEW Y, NEW f \in [Refs -> X], NEW g \in [Refs -> Y],
         \A r \in Refs : f[r] = g[r]
  PROVE  f = g
OBVIOUS

\* Erasing takes the one order out of the map and no other.
LEMMA EraseInBook ==
  ASSUME NEW s, WellFormed(s), NEW ref \in Refs, Found(s, ref)
  PROVE  BookOf(erase(s, ref)) = [BookOf(s) EXCEPT ![ref] = None]
<1> DEFINE t == erase(s, ref)
           i == At(s, ref)
           b == [BookOf(s) EXCEPT ![ref] = None]
<1>1. WellFormed(t)
  BY EraseKeeps
<1>2. i \in Slots /\ s[i] \in RestingOrder /\ s[i].ref = ref
  BY FindIsExact
<1>3. \A j \in Slots : t[j] = IF j = i THEN TOMBSTONE ELSE s[j]
  BY <1>2 DEF erase, WellFormed, Typed
<1> HIDE DEF t, i
<1>4. \A j \in Slots : s[j] \in RestingOrder /\ s[j].ref = ref => j = i
  BY <1>2 DEF WellFormed, UniqueIn
<1>5. ASSUME NEW r \in Refs PROVE BookOf(t)[r] = b[r]
  <2>1. CASE r = ref
    <3>1. \A j \in Slots : ~ (t[j] \in RestingOrder /\ t[j].ref = r)
      BY <1>3, <1>4, <2>1, SlotAssumption
    <3> QED BY <1>1, <2>1, <3>1, BookIs
  <2>2. CASE r # ref /\ \E j \in Slots : s[j] \in RestingOrder /\ s[j].ref = r
    <3>1. PICK j \in Slots : s[j] \in RestingOrder /\ s[j].ref = r
      BY <2>2
    <3>2. t[j] = s[j]
      BY <1>2, <1>3, <2>2, <3>1
    <3> QED BY <1>1, <2>2, <3>1, <3>2, BookIs
  <2>3. CASE r # ref /\ ~ \E j \in Slots : s[j] \in RestingOrder /\ s[j].ref = r
    <3>1. \A j \in Slots : ~ (t[j] \in RestingOrder /\ t[j].ref = r)
      BY <1>3, <2>3, SlotAssumption
    <3> QED BY <1>1, <2>3, <3>1, BookIs
  <2> QED BY <2>1, <2>2, <2>3
<1>6. BookOf(t) \in [Refs -> RestingOrder \cup {None}]
  BY <1>1, BookIs
<1>7. b \in [Refs -> RestingOrder \cup {None}]
  BY BookIs
<1> HIDE DEF b
<1>8. BookOf(t) = b
  BY <1>5, <1>6, <1>7, SameBook
<1> QED BY <1>8 DEF t, b

\* Storing changes the map under the order's own reference and no other: the
\* slot it goes to holds no order, or an earlier one of that reference.
LEMMA StoreInBook ==
  ASSUME NEW s, WellFormed(s), NEW ro \in RestingOrder, NEW i \in Slots,
         \A j \in Slots : s[j] \in RestingOrder /\ s[j].ref = ro.ref => j = i,
         s[i] \in RestingOrder => s[i].ref = ro.ref,
         Reachable(s, ro.ref, i)
  PROVE  BookOf([s EXCEPT ![i] = ro]) = [BookOf(s) EXCEPT ![ro.ref] = ro]
<1> DEFINE t == [s EXCEPT ![i] = ro]
           b == [BookOf(s) EXCEPT ![ro.ref] = ro]
<1>1. WellFormed(t)
  BY StoreKeeps
<1>2. ro.ref \in Refs
  BY DEF RestingOrder
<1>3. \A j \in Slots : t[j] = IF j = i THEN ro ELSE s[j]
  BY DEF WellFormed, Typed
<1> HIDE DEF t
<1>4. ASSUME NEW r \in Refs PROVE BookOf(t)[r] = b[r]
  <2>1. CASE r = ro.ref
    BY <1>1, <1>2, <1>3, <2>1, BookIs
  <2>2. CASE r # ro.ref /\ \E j \in Slots : s[j] \in RestingOrder /\ s[j].ref = r
    <3>1. PICK j \in Slots : s[j] \in RestingOrder /\ s[j].ref = r
      BY <2>2
    <3>2. t[j] = s[j]
      BY <1>3, <2>2, <3>1
    <3> QED BY <1>1, <2>2, <3>1, <3>2, BookIs
  <2>3. CASE r # ro.ref /\ ~ \E j \in Slots : s[j] \in RestingOrder /\ s[j].ref = r
    <3>1. \A j \in Slots : ~ (t[j] \in RestingOrder /\ t[j].ref = r)
      BY <1>3, <2>3
    <3> QED BY <1>1, <2>3, <3>1, BookIs
  <2> QED BY <2>1, <2>2, <2>3
<1>5. BookOf(t) \in [Refs -> RestingOrder \cup {None}]
  BY <1>1, BookIs
<1>6. b \in [Refs -> RestingOrder \cup {None}]
  BY <1>2, BookIs
<1> HIDE DEF b
<1>7. BookOf(t) = b
  BY <1>4, <1>5, <1>6, SameBook
<1> QED BY <1>7 DEF t, b

\* insert, on the table and on the map.
LEMMA InsertInBook ==
  ASSUME NEW s, WellFormed(s), NEW ro \in RestingOrder
  PROVE  /\ WellFormed(insert(s, ro).slots)
         /\ insert(s, ro).ok
              => BookOf(insert(s, ro).slots) = [BookOf(s) EXCEPT ![ro.ref] = ro]
         /\ ~ insert(s, ro).ok
              => BookOf(insert(s, ro).slots) = BookOf(s) /\ BookOf(s)[ro.ref] = None
<1>1. ro.ref \in Refs
  BY DEF RestingOrder
<1>2. CASE insert(s, ro).ok
  <2>1. PICK i \in Slots :
               /\ insert(s, ro).slots = [s EXCEPT ![i] = ro]
               /\ \A j \in Slots : s[j] \in RestingOrder /\ s[j].ref = ro.ref => j = i
               /\ s[i] \in RestingOrder => s[i].ref = ro.ref
               /\ Reachable(s, ro.ref, i)
    BY <1>2, InsertStores
  <2>2. WellFormed([s EXCEPT ![i] = ro])
    BY <2>1, StoreKeeps
  <2>3. BookOf([s EXCEPT ![i] = ro]) = [BookOf(s) EXCEPT ![ro.ref] = ro]
    BY <2>1, StoreInBook
  <2> QED BY <1>2, <2>1, <2>2, <2>3
<1>3. CASE ~ insert(s, ro).ok
  <2>1. /\ insert(s, ro).slots = s
        /\ \A j \in Slots : ~ (s[j] \in RestingOrder /\ s[j].ref = ro.ref)
    BY <1>3, InsertStores
  <2> QED BY <1>1, <1>3, <2>1, BookIs
<1> QED BY <1>2, <1>3

\* Taking shares off an order, and the order off the table with the last one.
LEMMA ReduceInBook ==
  ASSUME WellFormed(slots), NEW ref \in Refs, Found(slots, ref), NEW n \in Nat,
         n <= slots[At(slots, ref)].qty, Reduce(ref, n)
  PROVE  /\ WellFormed(slots')
         /\ BookOf(slots') =
              [BookOf(slots) EXCEPT ![ref] = IF @.qty = n THEN None
                                    ELSE [@ EXCEPT !.qty = BookOf(slots)[ref].qty - n]]
<1> DEFINE i  == At(slots, ref)
           ro == slots[i]
           nro == [ro EXCEPT !.qty = ro.qty - n]
<1>1. i \in Slots /\ ro \in RestingOrder /\ ro.ref = ref
  BY FindIsExact
<1>2. BookOf(slots)[ref] = ro
  BY FindIsLookup
<1>3. BookOf(slots) \in [Refs -> RestingOrder \cup {None}]
  BY BookIs
<1>4. CASE ro.qty = n
  <2>1. slots' = erase(slots, ref)
    BY <1>4 DEF Reduce
  <2> QED BY <1>2, <1>3, <1>4, <2>1, EraseKeeps, EraseInBook
<1>5. CASE ro.qty # n
  <2>1. slots' = [slots EXCEPT ![i] = nro]
    BY <1>1, <1>5 DEF Reduce
  <2>2. nro \in RestingOrder /\ nro.ref = ref
    BY <1>1 DEF RestingOrder
  <2> HIDE DEF i
  <2>3. \A j \in Slots : slots[j] \in RestingOrder /\ slots[j].ref = ref => j = i
    BY <1>1 DEF WellFormed, UniqueIn
  <2>4. Reachable(slots, ref, i)
    BY <1>1 DEF WellFormed, ChainIn
  <2>5. /\ BookOf(slots)[ref].qty # n
        /\ nro = [BookOf(slots)[ref] EXCEPT !.qty = BookOf(slots)[ref].qty - n]
    BY <1>2, <1>5
  <2> HIDE DEF nro
  <2>6. WellFormed([slots EXCEPT ![i] = nro])
    BY <1>1, <2>2, <2>3, <2>4, StoreKeeps
  <2>7. BookOf([slots EXCEPT ![i] = nro]) = [BookOf(slots) EXCEPT ![ref] = nro]
    BY <1>1, <2>2, <2>3, <2>4, StoreInBook
  <2> QED BY <1>3, <2>1, <2>5, <2>6, <2>7
<1> QED BY <1>4, <1>5

----------------------------------------------------------------------------
(* Every step keeps the table well-formed and is a step of the map *)

LEMMA InitStep == Init => WellFormed(slots) /\ Map!Init
<1> SUFFICES ASSUME Init PROVE WellFormed(slots) /\ Map!Init
  OBVIOUS
<1>1. \A i \in Slots : slots[i] = EMPTY
  BY DEF Init
<1>2. WellFormed(slots)
  BY <1>1, SlotAssumption DEF Init, WellFormed, Typed, UniqueIn, ChainIn
<1>3. Book = [r \in Refs |-> None]
  BY <1>1, SlotAssumption DEF Book, Occupied
<1> QED BY <1>2, <1>3 DEF Init, Map!Init

\* The map's vocabulary is the table's own.
LEMMA SameVocabulary ==
  /\ Map!AddMsg = AddMsg /\ Map!ExecuteMsg = ExecuteMsg /\ Map!CancelMsg = CancelMsg
  /\ Map!DeleteMsg = DeleteMsg /\ Map!ReplaceMsg = ReplaceMsg /\ Map!TradeMsg = TradeMsg
  /\ \A m : Map!AddedOrder(m) = AddedOrder(m) /\ Map!TradeOp(m) = TradeOp(m)
  /\ \A ro : Map!AddOp(ro) = AddOp(ro)
  /\ \A m, ro : /\ Map!ReplacingOrder(m, ro) = ReplacingOrder(m, ro)
                /\ Map!Taken(m, ro) = Taken(m, ro)
                /\ Map!ExecuteOp(m, ro) = ExecuteOp(m, ro)
                /\ Map!CancelOp(m, ro) = CancelOp(m, ro)
                /\ Map!DeleteOp(m, ro) = DeleteOp(m, ro)
<1>1. /\ Map!AddMsg = AddMsg /\ Map!ExecuteMsg = ExecuteMsg /\ Map!CancelMsg = CancelMsg
      /\ Map!DeleteMsg = DeleteMsg /\ Map!ReplaceMsg = ReplaceMsg /\ Map!TradeMsg = TradeMsg
  BY DEF Map!AddMsg, AddMsg, Map!ExecuteMsg, ExecuteMsg, Map!CancelMsg, CancelMsg,
         Map!DeleteMsg, DeleteMsg, Map!ReplaceMsg, ReplaceMsg, Map!TradeMsg, TradeMsg
<1>2. \A m : Map!AddedOrder(m) = AddedOrder(m) /\ Map!TradeOp(m) = TradeOp(m)
  BY DEF Map!AddedOrder, AddedOrder, Map!TradeOp, TradeOp, Map!Op, Op
<1>3. \A ro : Map!AddOp(ro) = AddOp(ro)
  BY DEF Map!AddOp, AddOp, Map!Op, Op
<1>4. \A m, ro : Map!ReplacingOrder(m, ro) = ReplacingOrder(m, ro)
  BY DEF Map!ReplacingOrder, ReplacingOrder
<1>5. \A m, ro : Map!Taken(m, ro) = Taken(m, ro)
  BY DEF Map!Taken, Taken, Map!Smaller, Smaller
<1>6. \A m, ro : /\ Map!ExecuteOp(m, ro) = ExecuteOp(m, ro)
                 /\ Map!CancelOp(m, ro) = CancelOp(m, ro)
                 /\ Map!DeleteOp(m, ro) = DeleteOp(m, ro)
  BY <1>5 DEF Map!ExecuteOp, ExecuteOp, Map!CancelOp, CancelOp, Map!DeleteOp, DeleteOp,
              Map!Op, Op
<1> QED BY <1>1, <1>2, <1>3, <1>4, <1>5, <1>6

\* Every step keeps the table well-formed and is a step of the map or none.
LEMMA NextStep ==
  ASSUME WellFormed(slots), [Next]_vars
  PROVE  WellFormed(slots') /\ [Map!Next]_(Map!vars)
<1>1. Book = BookOf(slots) /\ Book' = BookOf(slots')
  BY DEF Book, Occupied, BookOf, OccupiedIn
<1>2. Book \in [Refs -> RestingOrder \cup {None}]
  BY <1>1, BookIs
<1>3. CASE Reset
  <2>1. \A i \in Slots : slots'[i] = EMPTY
    BY <1>3 DEF Reset
  <2>2. WellFormed(slots')
    BY <1>3, <2>1, SlotAssumption DEF Reset, WellFormed, Typed, UniqueIn, ChainIn
  <2>3. Book' = [r \in Refs |-> None]
    BY <1>1, <2>1, SlotAssumption DEF BookOf, OccupiedIn
  <2> QED BY <1>3, <2>2, <2>3 DEF Reset, Map!Next, Map!Reset
<1>4. ASSUME NEW m \in AddMsg, Add(m)
      PROVE  WellFormed(slots') /\ Map!Next
  <2> DEFINE ro == AddedOrder(m)
             r  == insert(slots, ro)
  <2>1. ro \in RestingOrder /\ ro.ref = m.ref /\ m.ref \in Refs
    BY QtysAssumption DEF AddMsg, AddedOrder, RestingOrder
  <2>2. slots' = r.slots /\ ops' = IF r.ok THEN <<AddOp(ro)>> ELSE << >>
    BY <1>4 DEF Add, Inserted
  <2> HIDE DEF ro
  <2>3. /\ WellFormed(slots')
        /\ r.ok => Book' = [Book EXCEPT ![m.ref] = ro]
        /\ ~ r.ok => Book' = Book /\ Book[m.ref] = None
    BY <1>1, <2>1, <2>2, InsertInBook
  <2>4. Map!Add(m) \/ Map!NoRoom(m)
    BY <2>2, <2>3, SameVocabulary DEF Map!Add, Map!NoRoom, ro
  <2> QED BY <2>3, <2>4, SameVocabulary DEF Map!Next
<1>5. ASSUME NEW m \in ExecuteMsg \cup CancelMsg, Found(slots, m.ref),
             Reduce(m.ref, Taken(m, slots[At(slots, m.ref)]))
      PROVE  /\ WellFormed(slots') /\ Book[m.ref] # None
             /\ slots[At(slots, m.ref)] = Book[m.ref]
             /\ Map!Reduce(m.ref, Map!Taken(m, Book[m.ref]))
  <2> DEFINE ro == slots[At(slots, m.ref)]
             n  == Taken(m, ro)
  <2>1. m.ref \in Refs /\ m.qty \in Nat
    BY QtysAssumption DEF ExecuteMsg, CancelMsg
  <2>2. ro \in RestingOrder /\ Book[m.ref] # None /\ ro = Book[m.ref]
    BY <1>1, <1>5, <2>1, FindIsExact, FindIsLookup
  <2>3. n \in Nat /\ n <= ro.qty
    BY <2>1, <2>2 DEF Taken, Smaller, RestingOrder
  <2>4. Map!Taken(m, Book[m.ref]) = n
    BY <2>2, SameVocabulary
  <2> HIDE DEF n
  <2>5. /\ WellFormed(slots')
        /\ BookOf(slots') =
             [BookOf(slots) EXCEPT ![m.ref] = IF @.qty = n THEN None
                              ELSE [@ EXCEPT !.qty = BookOf(slots)[m.ref].qty - n]]
    BY <1>5, <2>1, <2>3, ReduceInBook DEF n
  <2>6. Map!Reduce(m.ref, n)
    BY <1>1, <2>5 DEF Map!Reduce
  <2> QED BY <2>2, <2>4, <2>5, <2>6
<1>6. ASSUME NEW m \in ExecuteMsg, Execute(m)
      PROVE  WellFormed(slots') /\ Map!Next
  <2>1. /\ WellFormed(slots') /\ Book[m.ref] # None
        /\ Map!Reduce(m.ref, Map!Taken(m, Book[m.ref]))
        /\ ops' = <<ExecuteOp(m, Book[m.ref])>>
    BY <1>5, <1>6 DEF Execute
  <2>2. Map!Execute(m)
    BY <2>1, SameVocabulary DEF Map!Execute
  <2> QED BY <2>1, <2>2, SameVocabulary DEF Map!Next
<1>7. ASSUME NEW m \in CancelMsg, Cancel(m)
      PROVE  WellFormed(slots') /\ Map!Next
  <2>1. /\ WellFormed(slots') /\ Book[m.ref] # None
        /\ Map!Reduce(m.ref, Map!Taken(m, Book[m.ref]))
        /\ ops' = <<CancelOp(m, Book[m.ref])>>
    BY <1>5, <1>7 DEF Cancel
  <2>2. Map!Cancel(m)
    BY <2>1, SameVocabulary DEF Map!Cancel
  <2> QED BY <2>1, <2>2, SameVocabulary DEF Map!Next
<1>8. ASSUME NEW m \in DeleteMsg, Delete(m)
      PROVE  WellFormed(slots') /\ Map!Next
  <2>1. m.ref \in Refs /\ Found(slots, m.ref) /\ slots' = erase(slots, m.ref)
    BY <1>8 DEF Delete, DeleteMsg
  <2>2. /\ WellFormed(slots') /\ Book' = [Book EXCEPT ![m.ref] = None]
        /\ Book[m.ref] # None /\ slots[At(slots, m.ref)] = Book[m.ref]
    BY <1>1, <2>1, EraseKeeps, EraseInBook, FindIsLookup
  <2>3. Map!Delete(m)
    BY <1>8, <2>2, SameVocabulary DEF Delete, Map!Delete
  <2> QED BY <2>2, <2>3, SameVocabulary DEF Map!Next
<1>9. ASSUME NEW m \in ReplaceMsg, Replace(m)
      PROVE  WellFormed(slots') /\ Map!Next
  <2> DEFINE ro     == slots[At(slots, m.ref)]
             nro    == ReplacingOrder(m, ro)
             erased == erase(slots, m.ref)
             r      == insert(erased, nro)
  <2>1. m.ref \in Refs /\ m.new_ref \in Refs /\ Found(slots, m.ref)
    BY <1>9 DEF Replace, ReplaceMsg
  <2>2. /\ slots' = r.slots
        /\ ops' = IF r.ok THEN <<DeleteOp(m, ro), AddOp(nro)>> ELSE <<DeleteOp(m, ro)>>
    BY <1>9 DEF Replace, Inserted
  <2>3. ro \in RestingOrder /\ ro = Book[m.ref] /\ Book[m.ref] # None
    BY <1>1, <2>1, FindIsExact, FindIsLookup
  <2>4. nro \in RestingOrder /\ nro.ref = m.new_ref
    BY <2>3, QtysAssumption DEF ReplaceMsg, ReplacingOrder, RestingOrder
  <2>5. WellFormed(erased) /\ BookOf(erased) = [Book EXCEPT ![m.ref] = None]
    BY <1>1, <2>1, EraseKeeps, EraseInBook
  <2> HIDE DEF erased, nro, ro
  <2>6. /\ WellFormed(slots')
        /\ r.ok => Book' = [BookOf(erased) EXCEPT ![m.new_ref] = nro]
        /\ ~ r.ok => Book' = BookOf(erased) /\ BookOf(erased)[m.new_ref] = None
    <3>1. /\ WellFormed(r.slots)
          /\ r.ok => BookOf(r.slots) = [BookOf(erased) EXCEPT ![nro.ref] = nro]
          /\ ~ r.ok => BookOf(r.slots) = BookOf(erased) /\ BookOf(erased)[nro.ref] = None
      BY <2>4, <2>5, InsertInBook
    <3> HIDE DEF r
    <3> QED BY <1>1, <2>2, <2>4, <3>1
  <2>7. CASE r.ok
    <3>1. Book' = [Book EXCEPT ![m.ref] = None, ![m.new_ref] = nro]
      BY <2>5, <2>6, <2>7
    <3>2. Map!Replace(m)
      BY <2>2, <2>3, <2>7, <3>1, SameVocabulary DEF Map!Replace, nro
    <3> QED BY <2>6, <3>2, SameVocabulary DEF Map!Next
  <2>8. CASE ~ r.ok
    <3>1. m.new_ref = m.ref \/ Book[m.new_ref] = None
      BY <1>2, <2>1, <2>5, <2>6, <2>8
    <3>2. Map!ReplaceNoRoom(m)
      BY <2>2, <2>3, <2>5, <2>6, <2>8, <3>1, SameVocabulary DEF Map!ReplaceNoRoom
    <3> QED BY <2>6, <3>2, SameVocabulary DEF Map!Next
  <2> QED BY <2>7, <2>8
<1>10. ASSUME NEW m \in TradeMsg, Trade(m)
       PROVE  WellFormed(slots') /\ Map!Next
  <2>1. slots' = slots /\ Book' = Book
    BY <1>1, <1>10 DEF Trade
  <2>2. Map!Trade(m)
    BY <1>10, <2>1, SameVocabulary DEF Trade, Map!Trade
  <2> QED BY <2>1, <2>2, SameVocabulary DEF Map!Next
<1>11. ASSUME NEW m \in ExecuteMsg \cup CancelMsg \cup DeleteMsg \cup ReplaceMsg,
              Unresolved(m)
       PROVE  WellFormed(slots') /\ Map!Next
  <2>1. m.ref \in Refs
    BY DEF ExecuteMsg, CancelMsg, DeleteMsg, ReplaceMsg
  <2>2. slots' = slots /\ Book' = Book /\ Book[m.ref] = None
    BY <1>1, <1>11, <2>1, FindIsLookup DEF Unresolved
  <2>3. Map!Unresolved(m)
    BY <1>11, <2>2 DEF Unresolved, Map!Unresolved
  <2> QED BY <2>2, <2>3, SameVocabulary DEF Map!Next
<1>12. CASE UNCHANGED vars
  <2>1. slots' = slots /\ ops' = ops
    BY <1>12 DEF vars
  <2>2. Book' = Book
    BY <1>1, <2>1
  <2> QED BY <2>1, <2>2 DEF Map!vars
<1> QED
  BY <1>3, <1>4, <1>6, <1>7, <1>8, <1>9, <1>10, <1>11, <1>12 DEF Next

----------------------------------------------------------------------------
(* The theorems *)

\* The table is well-formed in every reachable state.
THEOREM AlwaysWellFormed == Spec => []WellFormed(slots)
<1>1. Init => WellFormed(slots)
  BY InitStep
<1>2. WellFormed(slots) /\ [Next]_vars => WellFormed(slots)'
  BY NextStep
<1> QED BY <1>1, <1>2, PTL DEF Spec

\* "erasing never breaks the chain for keys inserted behind it": no order's
\* probe sequence meets an EMPTY slot before the slot the order is in.
THEOREM ChainsHold == Spec => []Chain
<1>1. WellFormed(slots) => Chain
  BY DEF WellFormed, ChainIn, Reachable, Chain, Occupied
<1> QED BY <1>1, AlwaysWellFormed, PTL

\* insert never leaves a second copy of an order behind.
THEOREM AtMostOnce == Spec => []Unique
<1>1. WellFormed(slots) => Unique
  BY DEF WellFormed, UniqueIn, Unique, Occupied
<1> QED BY <1>1, AlwaysWellFormed, PTL

\* resolve_impl over the table does what it would do over a map from reference
\* to order, for every message and after every history of inserts and erases.
THEOREM TableIsMap == Spec => ImplementsMap
<1>1. Init => Map!Init
  BY InitStep
<1>2. WellFormed(slots) /\ [Next]_vars => [Map!Next]_(Map!vars)
  BY NextStep
<1> QED BY <1>1, <1>2, AlwaysWellFormed, PTL DEF Spec, ImplementsMap, Map!Spec
=============================================================================
