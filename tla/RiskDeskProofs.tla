--------------------------- MODULE RiskDeskProofs ---------------------------
(***************************************************************************)
(* Proofs about the risk engine in use, for every limit, every set of      *)
(* stocks the table has room for and every number of open orders.          *)
(*                                                                         *)
(* The table holds each stock at most once, so by a pigeonhole argument    *)
(* find_or_create never falls back to the first entry and every position   *)
(* is its stock's own.  What is filled and what is still open on one side  *)
(* together stay within the limit plus the overshoot.                      *)
(***************************************************************************)
EXTENDS RiskDesk, TLAPS, SequenceTheorems, FiniteSetTheorems, WellFoundedInduction

(* Helpers on numbers and sequences *)

\* A set of natural numbers that is not empty has a least element.
LEMMA LeastNatural ==
  ASSUME NEW S \in SUBSET Nat, S # {}
  PROVE  \E n \in S : \A m \in S : n <= m
<1> DEFINE R == {ss \in Nat \X Nat : ss[1] < ss[2]}
<1>1. IsWellFoundedOn(R, Nat)
  BY NatLessThanWellFounded DEF OpToRel
<1> HIDE DEF R
<1>2. PICK n \in S : \A m \in S : ~ (<<m, n>> \in R)
  BY <1>1, WFMin
<1>3. \A m \in S : ~ (m < n)
  BY <1>2 DEF R
<1> QED BY <1>3

\* RemoveAt closes the gap.
LEMMA RemoveAtIs ==
  ASSUME NEW S, NEW s \in Seq(S), NEW i \in 1 .. Len(s)
  PROVE  /\ RemoveAt(s, i) \in Seq(S) /\ Len(RemoveAt(s, i)) = Len(s) - 1
         /\ \A j \in 1 .. Len(s) - 1 :
              RemoveAt(s, i)[j] = IF j < i THEN s[j] ELSE s[j + 1]
<1> DEFINE a == SubSeq(s, 1, i - 1)
           b == SubSeq(s, i + 1, Len(s))
           n == Len(s)
<1>1. n \in Nat /\ i \in 1 .. n /\ i \in Int /\ i - 1 \in Int /\ i + 1 \in Int
  OBVIOUS
<1>2. /\ a \in Seq(S) /\ Len(a) = i - 1
      /\ \A j \in 1 .. i - 1 : a[j] = s[j]
  BY <1>1
<1>3. /\ b \in Seq(S) /\ Len(b) = n - i
      /\ \A j \in 1 .. n - i : b[j] = s[i + j]
  <2>1. \A j \in i + 1 .. n : s[j] \in S
    BY <1>1
  <2>2. /\ b \in Seq(S) /\ Len(b) = IF i + 1 <= n THEN n - (i + 1) + 1 ELSE 0
        /\ \A j \in 1 .. n - (i + 1) + 1 : b[j] = s[(i + 1) + j - 1]
    BY <1>1, <2>1, SubSeqProperties
  <2>3. n - (i + 1) + 1 = n - i /\ \A j \in 1 .. n - i : (i + 1) + j - 1 = i + j
    BY <1>1
  <2> HIDE DEF b, n
  <2>4. Len(b) = n - i
    BY <1>1, <2>2
  <2> QED BY <2>2, <2>3, <2>4
<1>4. RemoveAt(s, i) = a \o b
  BY DEF RemoveAt
<1> HIDE DEF a, b, n
<1>5. /\ a \o b \in Seq(S) /\ Len(a \o b) = Len(a) + Len(b)
      /\ \A j \in 1 .. Len(a) + Len(b) :
           (a \o b)[j] = IF j <= Len(a) THEN a[j] ELSE b[j - Len(a)]
  BY <1>2, <1>3, ConcatProperties
<1>6. Len(a) + Len(b) = n - 1
  BY <1>1, <1>2, <1>3
<1>7. ASSUME NEW j \in 1 .. n - 1
      PROVE  (a \o b)[j] = IF j < i THEN s[j] ELSE s[j + 1]
  <2>1. CASE j < i
    <3>1. j <= Len(a) /\ j \in 1 .. i - 1
      BY <1>1, <1>2, <2>1
    <3> QED BY <1>2, <1>5, <1>6, <2>1, <3>1
  <2>2. CASE ~ (j < i)
    <3>1. ~ (j <= Len(a)) /\ j - Len(a) \in 1 .. n - i /\ i + (j - Len(a)) = j + 1
      BY <1>1, <1>2, <2>2
    <3> QED BY <1>3, <1>5, <1>6, <2>2, <3>1
  <2> QED BY <2>1, <2>2
<1> QED BY <1>4, <1>5, <1>6, <1>7 DEF n

----------------------------------------------------------------------------
(* The table of positions *)

\* An entry of the position table.
Entry == [stock : Stocks, net : Int, ref_price : Nat]

\* Each stock has at most one entry.
Distinct(ps) ==
  \A i, j \in 1 .. Len(ps) : ps[i].stock = ps[j].stock => i = j

\* A table of positions.
Table(ps) == ps \in Seq(Entry) /\ Distinct(ps)

\* find_or_create's search finds the entry of the stock, if there is one.
LEMMA ListedIs ==
  ASSUME NEW ps, Table(ps), NEW stock
  PROVE  /\ Listed(ps, stock) = 0 <=> \A i \in 1 .. Len(ps) : ps[i].stock # stock
         /\ \A i \in 1 .. Len(ps) : ps[i].stock = stock => Listed(ps, stock) = i
         /\ Listed(ps, stock) # 0 => /\ Listed(ps, stock) \in 1 .. Len(ps)
                                     /\ ps[Listed(ps, stock)].stock = stock
<1> DEFINE I == {i \in 1 .. Len(ps) : ps[i].stock = stock}
<1>1. Listed(ps, stock) = IF I # {} THEN Min(I) ELSE 0
  BY DEF Listed, SelectInSeq
<1>2. Len(ps) \in Nat
  BY DEF Table
<1>3. ASSUME NEW i \in 1 .. Len(ps), ps[i].stock = stock
      PROVE  Listed(ps, stock) = i /\ i # 0
  <2>1. I = {i}
    BY <1>3 DEF Table, Distinct
  <2>2. Min({i}) = i
    BY <1>2 DEF Min
  <2> HIDE DEF I
  <2>3. Listed(ps, stock) = i
    BY <1>1, <2>1, <2>2
  <2> QED BY <1>2, <2>3
<1>4. ASSUME \A i \in 1 .. Len(ps) : ps[i].stock # stock
      PROVE  Listed(ps, stock) = 0
  <2>1. I = {}
    BY <1>4
  <2> QED BY <1>1, <2>1
<1> QED BY <1>3, <1>4

\* As long as a stock has no entry there is room for one.
LEMMA RoomForOne ==
  ASSUME NEW ps, Table(ps), NEW stock \in Stocks, Listed(ps, stock) = 0
  PROVE  Len(ps) < MAX_INSTRUMENTS
<1> DEFINE n == Len(ps)
           D == 1 .. n
           C == Stocks \ {stock}
           f == [i \in D |-> ps[i].stock]
<1>1. n \in Nat /\ \A i \in D : ps[i] \in Entry
  BY DEF Table
<1>2. \A i \in D : ps[i].stock # stock
  BY ListedIs
<1>3. f \in [D -> C]
  BY <1>1, <1>2 DEF Entry
<1>4. \A i, j \in D : f[i] = f[j] => i = j
  BY DEF Table, Distinct
<1>5. IsFiniteSet(C) /\ Cardinality(C) = Cardinality(Stocks) - 1
  BY StocksAssumption, FS_RemoveElement
<1>6. Cardinality(D) = n
  <2>1. Cardinality(1 .. n) = IF 1 > n THEN 0 ELSE n - 1 + 1
    BY <1>1, FS_Interval
  <2> HIDE DEF n
  <2> QED BY <1>1, <2>1
<1>7. Cardinality(Stocks) \in Nat
  BY StocksAssumption, FS_CardinalityType
<1> HIDE DEF f, C, D, n
<1>8. f \in Injection(D, C)
  BY <1>3, <1>4 DEF Injection, IsInjective
<1>9. Cardinality(D) <= Cardinality(C)
  BY <1>5, <1>8, FS_Injection
<1> QED BY <1>1, <1>5, <1>6, <1>7, <1>9, StocksAssumption, LimitsAssumption DEF n

\* find_or_create gives a stock an entry of its own and moves no other.
LEMMA CreateIs ==
  ASSUME NEW ps, Table(ps), NEW stock \in Stocks
  PROVE  /\ Table(Create(ps, stock))
         /\ Slot(ps, stock) \in 1 .. Len(Create(ps, stock))
         /\ Slot(ps, stock) = Listed(Create(ps, stock), stock)
         /\ Create(ps, stock)[Slot(ps, stock)].stock = stock
         /\ Len(ps) <= Len(Create(ps, stock))
         /\ \A i \in 1 .. Len(ps) : Create(ps, stock)[i] = ps[i]
         /\ \A i \in 1 .. Len(Create(ps, stock)) :
              i \in 1 .. Len(ps) \/ Create(ps, stock)[i] = NewEntry(stock)
<1> DEFINE c == Create(ps, stock)
           n == Len(ps)
<1>1. ps \in Seq(Entry) /\ n \in Nat /\ Distinct(ps)
  BY DEF Table
<1>2. CASE Listed(ps, stock) # 0
  <2>1. c = ps
    BY <1>2 DEF Create
  <2>2. Slot(ps, stock) = Listed(ps, stock)
    BY <1>2, <2>1 DEF Slot
  <2> QED BY <1>1, <1>2, <2>1, <2>2, ListedIs
<1>3. CASE Listed(ps, stock) = 0
  <2> DEFINE e == NewEntry(stock)
  <2>1. c = Append(ps, e)
    BY <1>3, RoomForOne DEF Create
  <2>2. e \in Entry /\ e.stock = stock
    BY DEF NewEntry, Entry
  <2> HIDE DEF e, c, n
  <2>3. /\ c \in Seq(Entry) /\ Len(c) = n + 1
        /\ \A i \in 1 .. n : c[i] = ps[i]
        /\ c[n + 1] = e
    BY <1>1, <2>1, <2>2 DEF n
  <2>4. \A i \in 1 .. n : ps[i].stock # stock
    BY <1>3, ListedIs DEF n
  <2>5. Distinct(c)
    <3> SUFFICES ASSUME NEW i \in 1 .. n + 1, NEW j \in 1 .. n + 1,
                        c[i].stock = c[j].stock
                 PROVE  i = j
      BY <2>3 DEF Distinct
    <3>1. i \in 1 .. n \/ i = n + 1
      BY <1>1
    <3>2. j \in 1 .. n \/ j = n + 1
      BY <1>1
    <3> QED BY <1>1, <2>2, <2>3, <2>4, <3>1, <3>2 DEF Distinct, n
  <2>6. Table(c)
    BY <2>3, <2>5 DEF Table
  <2>7. n + 1 \in 1 .. Len(c) /\ c[n + 1].stock = stock /\ n + 1 # 0
    BY <1>1, <2>2, <2>3
  <2>8. Listed(c, stock) = n + 1
    BY <2>6, <2>7, ListedIs
  <2>9. Slot(ps, stock) = n + 1
    BY <2>7, <2>8 DEF Slot, c
  <2>10. \A i \in 1 .. Len(c) : i \in 1 .. n \/ c[i] = e
    <3> SUFFICES ASSUME NEW i \in 1 .. n + 1 PROVE i \in 1 .. n \/ c[i] = e
      BY <2>3
    <3>1. i \in 1 .. n \/ i = n + 1
      BY <1>1
    <3> QED BY <2>3, <3>1
  <2>11. n <= Len(c)
    BY <1>1, <2>3
  <2> QED BY <2>3, <2>6, <2>7, <2>8, <2>9, <2>10, <2>11 DEF c, n, e
<1> QED BY <1>2, <1>3

\* What an entry says of a stock; 0 for a stock without one.
Net(ps, stock) == IF Listed(ps, stock) = 0 THEN 0 ELSE ps[Listed(ps, stock)].net

\* Creating an entry changes no position.
LEMMA CreateKeepsNet ==
  ASSUME NEW ps, Table(ps), NEW stock \in Stocks, NEW s \in Stocks
  PROVE  Net(Create(ps, stock), s) = Net(ps, s)
<1> DEFINE c == Create(ps, stock)
<1>1. /\ Table(c) /\ \A i \in 1 .. Len(ps) : c[i] = ps[i]
      /\ \A i \in 1 .. Len(c) : i \in 1 .. Len(ps) \/ c[i] = NewEntry(stock)
      /\ Len(ps) \in Nat /\ Len(c) \in Nat /\ Len(ps) <= Len(c)
  <2>1. /\ Table(c) /\ \A i \in 1 .. Len(ps) : c[i] = ps[i]
        /\ \A i \in 1 .. Len(c) : i \in 1 .. Len(ps) \/ c[i] = NewEntry(stock)
        /\ Len(ps) <= Len(c)
    BY CreateIs
  <2> HIDE DEF c
  <2> QED BY <2>1 DEF Table
<1> HIDE DEF c
<1>2. CASE Listed(ps, s) # 0
  <2> DEFINE i == Listed(ps, s)
  <2>1. i \in 1 .. Len(ps) /\ ps[i].stock = s
    BY <1>2, ListedIs
  <2> HIDE DEF i
  <2>2. i \in 1 .. Len(c) /\ c[i] = ps[i] /\ i # 0
    BY <1>1, <2>1
  <2>3. Listed(c, s) = i
    BY <1>1, <2>1, <2>2, ListedIs
  <2> QED BY <2>2, <2>3 DEF Net, i, c
<1>3. CASE Listed(ps, s) = 0 /\ Listed(c, s) # 0
  <2> DEFINE i == Listed(c, s)
  <2>1. i \in 1 .. Len(c) /\ c[i].stock = s
    BY <1>1, <1>3, ListedIs
  <2>2. i \notin 1 .. Len(ps)
    BY <1>1, <1>3, <2>1, ListedIs
  <2>3. c[i] = NewEntry(stock)
    BY <1>1, <2>1, <2>2
  <2> QED BY <1>3, <2>3 DEF Net, NewEntry, c
<1>4. CASE Listed(ps, s) = 0 /\ Listed(c, s) = 0
  BY <1>4 DEF Net, c
<1> QED BY <1>2, <1>3, <1>4

\* Two tables with the same stocks in the same entries list them alike.
LEMMA SameStocks ==
  ASSUME NEW ps, NEW qs, Table(ps), qs \in Seq(Entry), Len(qs) = Len(ps),
         \A i \in 1 .. Len(ps) : qs[i].stock = ps[i].stock
  PROVE  Table(qs) /\ \A s : Listed(qs, s) = Listed(ps, s)
<1>1. Table(qs)
  BY DEF Table, Distinct
<1>2. ASSUME NEW s PROVE Listed(qs, s) = Listed(ps, s)
  <2>1. CASE Listed(ps, s) = 0
    BY <1>1, <2>1, ListedIs
  <2>2. CASE Listed(ps, s) # 0
    <3>1. Listed(ps, s) \in 1 .. Len(ps) /\ ps[Listed(ps, s)].stock = s
      BY <2>2, ListedIs
    <3> QED BY <1>1, <3>1, ListedIs
  <2> QED BY <2>1, <2>2
<1> QED BY <1>1, <1>2

\* on_fill moves the position of its stock by the shares filled, and no other.
LEMMA FillMovesOne ==
  ASSUME NEW ps, Table(ps), NEW stock \in Stocks, NEW side, NEW n \in Nat
  PROVE  /\ Table(on_fill(ps, stock, side, n))
         /\ \A s \in Stocks : Net(on_fill(ps, stock, side, n), s) =
              IF s = stock THEN Net(ps, s) + Signed(side, n) ELSE Net(ps, s)
<1> DEFINE c == Create(ps, stock)
           i == Slot(ps, stock)
           d == Signed(side, n)
           q == on_fill(ps, stock, side, n)
<1>1. Table(c) /\ i \in 1 .. Len(c) /\ i = Listed(c, stock) /\ c \in Seq(Entry)
  BY CreateIs DEF Table
<1>2. q = [c EXCEPT ![i].net = @ + d]
  BY DEF on_fill
<1>3. d \in Int
  BY DEF Signed
<1>4. \A s \in Stocks : Net(c, s) = Net(ps, s)
  BY CreateKeepsNet
<1> HIDE DEF c, i, d, q
<1>5. Len(c) \in Nat /\ c[i] \in Entry /\ c[i].net \in Int
  <2>1. Len(c) \in Nat /\ c[i] \in Entry
    BY <1>1
  <2> QED BY <2>1 DEF Entry
<1>6. [c[i] EXCEPT !.net = @ + d] \in Entry
  BY <1>3, <1>5 DEF Entry
<1>7. /\ q \in Seq(Entry) /\ Len(q) = Len(c)
      /\ \A j \in 1 .. Len(c) : q[j] = IF j = i THEN [c[i] EXCEPT !.net = @ + d] ELSE c[j]
  BY <1>1, <1>2, <1>6
<1>8. \A j \in 1 .. Len(c) : q[j].stock = c[j].stock
  BY <1>5, <1>7 DEF Entry
<1>9. Table(q) /\ \A s : Listed(q, s) = Listed(c, s)
  BY <1>1, <1>7, <1>8, SameStocks
<1>10. ASSUME NEW s \in Stocks
       PROVE  Net(q, s) = IF s = stock THEN Net(c, s) + d ELSE Net(c, s)
  <2>1. CASE s = stock
    <3>1. Net(q, s) = q[i].net /\ Net(c, s) = c[i].net
      BY <1>1, <1>5, <1>9, <2>1 DEF Net
    <3>2. q[i].net = c[i].net + d
      BY <1>1, <1>5, <1>7 DEF Entry
    <3> QED BY <2>1, <3>1, <3>2
  <2>2. CASE s # stock /\ Listed(c, s) # 0
    <3>1. Listed(c, s) \in 1 .. Len(c) /\ c[Listed(c, s)].stock = s
      BY <1>1, <2>2, ListedIs
    <3>2. Listed(c, s) # i
      BY <1>1, <1>5, <2>2, <3>1, ListedIs
    <3>3. q[Listed(c, s)] = c[Listed(c, s)]
      BY <1>7, <3>1, <3>2
    <3> QED BY <1>9, <2>2, <3>3 DEF Net
  <2>3. CASE s # stock /\ Listed(c, s) = 0
    BY <1>9, <2>3 DEF Net
  <2> QED BY <2>1, <2>2, <2>3
<1> QED BY <1>4, <1>9, <1>10 DEF q, d

\* set_reference_price changes no position.
LEMMA ReferenceMovesNone ==
  ASSUME NEW ps, Table(ps), NEW stock \in Stocks, NEW price \in Nat
  PROVE  /\ Table(set_reference_price(ps, stock, price))
         /\ \A s \in Stocks : Net(set_reference_price(ps, stock, price), s) = Net(ps, s)
<1> DEFINE c == Create(ps, stock)
           i == Slot(ps, stock)
           q == set_reference_price(ps, stock, price)
<1>1. Table(c) /\ i \in 1 .. Len(c) /\ c \in Seq(Entry)
  BY CreateIs DEF Table
<1>2. q = [c EXCEPT ![i].ref_price = price]
  BY DEF set_reference_price
<1>3. \A s \in Stocks : Net(c, s) = Net(ps, s)
  BY CreateKeepsNet
<1> HIDE DEF c, i, q
<1>4. Len(c) \in Nat /\ c[i] \in Entry
  BY <1>1
<1>5. [c[i] EXCEPT !.ref_price = price] \in Entry
  BY <1>4 DEF Entry
<1>6. /\ q \in Seq(Entry) /\ Len(q) = Len(c)
      /\ \A j \in 1 .. Len(c) : q[j] = IF j = i THEN [c[i] EXCEPT !.ref_price = price] ELSE c[j]
  BY <1>1, <1>2, <1>5
<1>7. \A j \in 1 .. Len(c) : q[j].stock = c[j].stock /\ q[j].net = c[j].net
  BY <1>4, <1>6 DEF Entry
<1>8. Table(q) /\ \A s : Listed(q, s) = Listed(c, s)
  BY <1>1, <1>6, <1>7, SameStocks
<1>9. ASSUME NEW s \in Stocks PROVE Net(q, s) = Net(c, s)
  <2>1. CASE Listed(c, s) = 0
    BY <1>8, <2>1 DEF Net
  <2>2. CASE Listed(c, s) # 0
    <3>1. Listed(c, s) \in 1 .. Len(c)
      BY <1>1, <2>2, ListedIs
    <3> QED BY <1>7, <1>8, <2>2, <3>1 DEF Net
  <2> QED BY <2>1, <2>2
<1> QED BY <1>3, <1>8, <1>9 DEF q

----------------------------------------------------------------------------
(* What is still open on one side of one stock *)

\* An order that has passed the size check.
Order == [stock : Stocks, side : {"Buy", "Sell"}, price : Nat, qty : 1 .. MAX_ORDER_SIZE]

\* What an order may still add on a side of a stock.
Due(o, side, s) == IF o.side = side /\ o.stock = s THEN o.qty ELSE 0

\* c[i] is what the first i orders of os have open.
Totals(c, os, side, s) ==
  /\ c \in [0 .. Len(os) -> Nat]
  /\ c[0] = 0
  /\ \A i \in 1 .. Len(os) : c[i] = c[i - 1] + Due(os[i], side, s)

\* What one order may still move a position by.
LEMMA DueIs ==
  ASSUME NEW o \in Order, NEW side, NEW s
  PROVE  /\ Due(o, side, s) \in Nat /\ Due(o, side, s) <= MAX_ORDER_SIZE
         /\ o.qty \in Nat /\ o.qty > 0
BY LimitsAssumption DEF Due, Order

\* The totals never fall.
LEMMA TotalsGrow ==
  ASSUME NEW os \in Seq(Order), NEW c, NEW side, NEW s, Totals(c, os, side, s),
         NEW i \in 0 .. Len(os), NEW j \in 0 .. Len(os), i <= j
  PROVE  c[i] <= c[j]
<1> DEFINE n == Len(os)
           T == {k \in 0 .. n : i <= k /\ ~ (c[i] <= c[k])}
<1>1. /\ n \in Nat /\ c \in [0 .. n -> Nat]
      /\ \A k \in 1 .. n : c[k] = c[k - 1] + Due(os[k], side, s)
      /\ \A k \in 1 .. n : os[k] \in Order
  BY DEF Totals
<1>2. T \in SUBSET Nat
  BY <1>1
<1> SUFFICES ASSUME T # {} PROVE FALSE
  BY <1>1
<1>3. PICK k \in T : \A m \in T : k <= m
  <2> HIDE DEF T
  <2> QED BY <1>2, LeastNatural
<1>4. k \in 0 .. n /\ i <= k /\ ~ (c[i] <= c[k])
  BY <1>3
<1>5. k # i
  <2>1. c[i] \in Nat
    BY <1>1
  <2> QED BY <1>4, <2>1
<1>6. k \in 1 .. n /\ k - 1 \in 0 .. n /\ i <= k - 1 /\ ~ (k <= k - 1)
  BY <1>1, <1>4, <1>5
<1>7. c[i] <= c[k - 1]
  BY <1>3, <1>6
<1>8. Due(os[k], side, s) \in Nat
  BY <1>1, <1>6, DueIs
<1>9. c[i] \in Nat /\ c[k - 1] \in Nat /\ c[k] = c[k - 1] + Due(os[k], side, s)
  BY <1>1, <1>6
<1> QED BY <1>4, <1>7, <1>8, <1>9

\* The first j orders have at most j times the largest order open.
LEMMA TotalsBounded ==
  ASSUME NEW os \in Seq(Order), NEW c, NEW side, NEW s, Totals(c, os, side, s),
         NEW j \in 0 .. Len(os)
  PROVE  c[j] <= j * MAX_ORDER_SIZE
<1> DEFINE n == Len(os)
           M == MAX_ORDER_SIZE
           T == {k \in 0 .. n : ~ (c[k] <= k * M)}
<1>1. /\ n \in Nat /\ c \in [0 .. n -> Nat] /\ c[0] = 0 /\ M \in Nat
      /\ \A k \in 1 .. n : c[k] = c[k - 1] + Due(os[k], side, s)
      /\ \A k \in 1 .. n : os[k] \in Order
  BY LimitsAssumption DEF Totals
<1>2. T \in SUBSET Nat
  BY <1>1
<1> SUFFICES ASSUME T # {} PROVE FALSE
  OBVIOUS
<1>3. PICK k \in T : \A m \in T : k <= m
  <2> HIDE DEF T
  <2> QED BY <1>2, LeastNatural
<1>4. k \in 0 .. n /\ ~ (c[k] <= k * M)
  BY <1>3
<1> HIDE DEF M
<1>5. k # 0
  BY <1>1, <1>4
<1>6. k \in 1 .. n /\ k - 1 \in 0 .. n /\ ~ (k <= k - 1)
  BY <1>1, <1>4, <1>5
<1>7. c[k - 1] <= (k - 1) * M
  BY <1>3, <1>6 DEF M
<1>8. Due(os[k], side, s) \in Nat /\ Due(os[k], side, s) <= M
  BY <1>1, <1>6, DueIs DEF M
<1>9. c[k - 1] \in Nat /\ c[k] = c[k - 1] + Due(os[k], side, s)
  BY <1>1, <1>6
<1>10. (k - 1) * M + M = k * M /\ (k - 1) * M \in Nat
  BY <1>1, <1>6
<1> QED BY <1>1, <1>4, <1>7, <1>8, <1>9, <1>10

\* A new order adds what it has open.
LEMMA TotalsOfAppend ==
  ASSUME NEW os \in Seq(Order), NEW o \in Order, NEW c, NEW side, NEW s,
         Totals(c, os, side, s)
  PROVE  \E d : /\ Totals(d, Append(os, o), side, s)
                /\ d[Len(os) + 1] = c[Len(os)] + Due(o, side, s)
<1> DEFINE n == Len(os)
           t == Append(os, o)
           d == [j \in 0 .. n + 1 |-> IF j <= n THEN c[j] ELSE c[n] + Due(o, side, s)]
<1>1. /\ n \in Nat /\ c \in [0 .. n -> Nat] /\ c[0] = 0
      /\ \A k \in 1 .. n : c[k] = c[k - 1] + Due(os[k], side, s)
  BY DEF Totals
<1>2. Len(t) = n + 1 /\ (\A k \in 1 .. n : t[k] = os[k]) /\ t[n + 1] = o
  OBVIOUS
<1>3. Due(o, side, s) \in Nat
  BY DueIs
<1> HIDE DEF t, n
<1>4. d \in [0 .. n + 1 -> Nat] /\ d[0] = 0 /\ d[n + 1] = c[n] + Due(o, side, s)
  BY <1>1, <1>3
<1>5. ASSUME NEW k \in 1 .. n + 1 PROVE d[k] = d[k - 1] + Due(t[k], side, s)
  <2>1. CASE k \in 1 .. n
    <3>1. k - 1 \in 0 .. n + 1 /\ k - 1 <= n /\ k <= n /\ k \in 0 .. n + 1
      BY <1>1, <2>1
    <3>2. d[k] = c[k] /\ d[k - 1] = c[k - 1]
      BY <3>1
    <3> QED BY <1>1, <1>2, <2>1, <3>2
  <2>2. CASE k = n + 1
    <3>1. k - 1 = n /\ d[n] = c[n]
      BY <1>1, <2>2
    <3> QED BY <1>2, <1>4, <2>2, <3>1
  <2> QED BY <1>1, <2>1, <2>2
<1> HIDE DEF d
<1>6. Totals(d, t, side, s)
  BY <1>2, <1>4, <1>5 DEF Totals
<1> QED BY <1>4, <1>6 DEF n, t

\* A fill takes the shares filled off the totals, in part...
LEMMA TotalsOfReduce ==
  ASSUME NEW os \in Seq(Order), NEW c, NEW side, NEW s, Totals(c, os, side, s),
         NEW i \in 1 .. Len(os), NEW n \in Nat, n < os[i].qty
  PROVE  /\ [os EXCEPT ![i].qty = @ - n] \in Seq(Order)
         /\ Len([os EXCEPT ![i].qty = @ - n]) = Len(os)
         /\ \E d : /\ Totals(d, [os EXCEPT ![i].qty = @ - n], side, s)
                   /\ d[Len(os)] = c[Len(os)]
                        - (IF os[i].side = side /\ os[i].stock = s THEN n ELSE 0)
<1> DEFINE l == Len(os)
           t == [os EXCEPT ![i].qty = @ - n]
           x == IF os[i].side = side /\ os[i].stock = s THEN n ELSE 0
           o == [os[i] EXCEPT !.qty = @ - n]
           d == [j \in 0 .. l |-> IF j < i THEN c[j] ELSE c[j] - x]
<1>1. /\ l \in Nat /\ c \in [0 .. l -> Nat] /\ c[0] = 0
      /\ \A k \in 1 .. l : c[k] = c[k - 1] + Due(os[k], side, s)
      /\ os[i] \in Order
  BY DEF Totals
<1>2. o \in Order
  <2>1. os[i].qty \in 1 .. MAX_ORDER_SIZE
    BY <1>1 DEF Order
  <2>2. os[i].qty - n \in 1 .. MAX_ORDER_SIZE
    BY <2>1, LimitsAssumption
  <2> QED BY <1>1, <2>2 DEF Order
<1>3. /\ x \in Nat /\ x <= Due(os[i], side, s) /\ Due(os[i], side, s) \in Nat
      /\ Due(o, side, s) = Due(os[i], side, s) - x
  BY <1>1, LimitsAssumption DEF Due, Order
<1> HIDE DEF x
<1>4. /\ t \in Seq(Order) /\ Len(t) = l
      /\ \A k \in 1 .. l : t[k] = IF k = i THEN o ELSE os[k]
  <2>1. t = [os EXCEPT ![i] = o]
    OBVIOUS
  <2> HIDE DEF t, o
  <2> QED BY <1>2, <2>1
<1> HIDE DEF t, o
<1>5. \A j \in 0 .. l : i <= j => c[j] - x \in Nat
  <2> SUFFICES ASSUME NEW j \in 0 .. l, i <= j PROVE c[j] - x \in Nat
    OBVIOUS
  <2>1. c[i] <= c[j] /\ c[i] = c[i - 1] + Due(os[i], side, s)
    BY <1>1, TotalsGrow
  <2>2. c[i - 1] \in Nat /\ c[i] \in Nat /\ c[j] \in Nat
    BY <1>1
  <2> QED BY <1>3, <2>1, <2>2
<1> HIDE DEF l
<1>6. i \in 1 .. l
  BY DEF l
<1>7. d \in [0 .. l -> Nat]
  <2>1. \A j \in 0 .. l : (IF j < i THEN c[j] ELSE c[j] - x) \in Nat
    BY <1>1, <1>5, <1>6
  <2> QED BY <2>1
<1>8. d[0] = 0 /\ d[l] = c[l] - x
  BY <1>1, <1>6
<1>9. ASSUME NEW k \in 1 .. l PROVE d[k] = d[k - 1] + Due(t[k], side, s)
  <2>1. k - 1 \in 0 .. l /\ k \in 0 .. l /\ c[k] \in Nat /\ c[k - 1] \in Nat
    BY <1>1
  <2>2. c[k] = c[k - 1] + Due(os[k], side, s)
    BY <1>1
  <2>3. CASE k < i
    BY <1>1, <1>4, <1>6, <2>1, <2>2, <2>3
  <2>4. CASE k = i
    <3>1. d[k] = c[k] - x /\ d[k - 1] = c[k - 1] /\ t[k] = o
      BY <1>1, <1>4, <1>6, <2>1, <2>4
    <3> QED BY <1>3, <2>1, <2>2, <2>4, <3>1
  <2>5. CASE k > i
    <3>1. d[k] = c[k] - x /\ d[k - 1] = c[k - 1] - x /\ t[k] = os[k]
      BY <1>1, <1>4, <1>6, <2>1, <2>5
    <3>2. Due(os[k], side, s) \in Nat
      BY DueIs DEF l
    <3> QED BY <1>3, <2>1, <2>2, <3>1, <3>2
  <2> QED BY <1>6, <2>3, <2>4, <2>5
<1> HIDE DEF d
<1>10. Totals(d, t, side, s)
  BY <1>4, <1>7, <1>8, <1>9 DEF Totals
<1> QED BY <1>4, <1>8, <1>10 DEF l, t, x

\* ... or whole.
LEMMA TotalsOfRemove ==
  ASSUME NEW os \in Seq(Order), NEW c, NEW side, NEW s, Totals(c, os, side, s),
         NEW i \in 1 .. Len(os)
  PROVE  \E d : /\ Totals(d, RemoveAt(os, i), side, s)
                /\ d[Len(os) - 1] = c[Len(os)] - Due(os[i], side, s)
<1> DEFINE l == Len(os)
           t == RemoveAt(os, i)
           x == Due(os[i], side, s)
           d == [j \in 0 .. l - 1 |-> IF j < i THEN c[j] ELSE c[j + 1] - x]
<1>1. /\ l \in Nat /\ c \in [0 .. l -> Nat] /\ c[0] = 0
      /\ \A k \in 1 .. l : c[k] = c[k - 1] + Due(os[k], side, s)
      /\ \A k \in 1 .. l : os[k] \in Order
      /\ i \in 1 .. l /\ l - 1 \in Nat
  BY DEF Totals
<1>2. x \in Nat
  BY <1>1, DueIs
<1>3. /\ t \in Seq(Order) /\ Len(t) = l - 1
      /\ \A k \in 1 .. l - 1 : t[k] = IF k < i THEN os[k] ELSE os[k + 1]
  BY RemoveAtIs
<1>4. \A j \in 0 .. l : i <= j => c[j] - x \in Nat
  <2> SUFFICES ASSUME NEW j \in 0 .. l, i <= j PROVE c[j] - x \in Nat
    OBVIOUS
  <2>0. i \in 0 .. l
    BY <1>1
  <2>1. c[i] <= c[j] /\ c[i] = c[i - 1] + x
    BY <1>1, <2>0, TotalsGrow
  <2>2. c[i - 1] \in Nat /\ c[i] \in Nat /\ c[j] \in Nat
    BY <1>1
  <2> HIDE DEF x
  <2> QED BY <1>2, <2>1, <2>2
<1>5. c[i] = c[i - 1] + x
  BY <1>1
<1> HIDE DEF l, t, x
<1>6. d \in [0 .. l - 1 -> Nat]
  <2>1. \A j \in 0 .. l - 1 : (IF j < i THEN c[j] ELSE c[j + 1] - x) \in Nat
    BY <1>1, <1>4
  <2> QED BY <2>1
<1>7. d[0] = 0
  BY <1>1
<1>8. d[l - 1] = c[l] - x
  <2>1. CASE i = l
    <3>1. d[l - 1] = c[l - 1] /\ c[l - 1] \in Nat
      BY <1>1, <2>1
    <3> QED BY <1>2, <1>5, <2>1, <3>1
  <2>2. CASE i # l
    <3>1. l - 1 \in 0 .. l - 1 /\ ~ (l - 1 < i) /\ (l - 1) + 1 = l
      BY <1>1, <2>2
    <3> QED BY <3>1
  <2> QED BY <2>1, <2>2
<1>9. ASSUME NEW k \in 1 .. l - 1 PROVE d[k] = d[k - 1] + Due(t[k], side, s)
  <2>1. /\ k \in 1 .. l /\ k + 1 \in 1 .. l /\ (k + 1) - 1 = k /\ (k - 1) + 1 = k
        /\ k - 1 \in 0 .. l - 1 /\ k \in 0 .. l - 1 /\ k - 1 \in 0 .. l
    BY <1>1
  <2>2. c[k + 1] \in Nat /\ c[k] \in Nat /\ c[k - 1] \in Nat
    BY <1>1, <2>1
  <2>3. /\ c[k] = c[k - 1] + Due(os[k], side, s)
        /\ c[k + 1] = c[k] + Due(os[k + 1], side, s)
    BY <1>1, <2>1
  <2>4. CASE k < i
    <3>1. d[k] = c[k] /\ d[k - 1] = c[k - 1] /\ t[k] = os[k]
      BY <1>1, <1>3, <2>1, <2>4
    <3> QED BY <2>3, <3>1
  <2>5. CASE k = i
    <3>1. d[k] = c[k + 1] - x /\ d[k - 1] = c[k - 1] /\ t[k] = os[k + 1]
      <4>1. ~ (k < i) /\ k - 1 < i
        BY <1>1, <2>5
      <4> QED BY <1>3, <2>1, <4>1
    <3>2. Due(os[k + 1], side, s) \in Nat
      BY <1>1, <2>1, DueIs
    <3> QED BY <1>2, <1>5, <2>2, <2>3, <2>5, <3>1, <3>2
  <2>6. CASE k > i
    <3>1. d[k] = c[k + 1] - x /\ d[k - 1] = c[k] - x /\ t[k] = os[k + 1]
      <4>1. ~ (k < i) /\ ~ (k - 1 < i)
        BY <1>1, <2>6
      <4> QED BY <1>3, <2>1, <4>1
    <3>2. Due(os[k + 1], side, s) \in Nat
      BY <1>1, <2>1, DueIs
    <3> QED BY <1>2, <2>2, <2>3, <3>1, <3>2
  <2> QED BY <1>1, <2>1, <2>4, <2>5, <2>6
<1> HIDE DEF d
<1>10. Totals(d, t, side, s)
  BY <1>3, <1>6, <1>7, <1>9 DEF Totals
<1> QED BY <1>8, <1>10 DEF l, t, x

----------------------------------------------------------------------------
(* The invariant *)

\* The types of positions, open orders and what was filled.
Typed ==
  /\ Table(positions)
  /\ open \in Seq(Order) /\ Len(open) <= MaxOpen
  /\ filled \in [Stocks -> Int]

\* What is filled and what is open on one side, together.
Within(side, s) ==
  \E c : /\ Totals(c, open, side, s)
         /\ Signed(side, filled[s]) + c[Len(open)] <= MAX_NET_POSITION + Overshoot

\* No stock's fills and open orders pass the bound, on either side.
Committed == \A s \in Stocks : Within("Buy", s) /\ Within("Sell", s)

\* The inductive invariant.
IInv == Typed /\ PositionsAreOwn /\ Committed

\* PositionsAreOwn in terms of Net.
LEMMA OwnIs == PositionsAreOwn <=> \A s \in Stocks : filled[s] = Net(positions, s)
BY DEF PositionsAreOwn, Net

\* The bound on the overshoot is a number.
LEMMA OvershootIs == Overshoot \in Nat
<1>1. MaxOpen - 1 \in Nat /\ MAX_ORDER_SIZE \in Nat
  BY OrdersAssumption, LimitsAssumption
<1> QED BY <1>1 DEF Overshoot

\* The invariant holds before the first order.
LEMMA InitIInv == Init => IInv
<1> SUFFICES ASSUME Init PROVE IInv
  OBVIOUS
<1>1. /\ positions = << >> /\ open = << >> /\ filled = [s \in Stocks |-> 0]
      /\ Len(open) = 0 /\ Len(positions) = 0
  BY DEF Init
<1>2. Table(positions)
  BY <1>1 DEF Table, Distinct
<1>3. Typed
  BY <1>1, <1>2, OrdersAssumption DEF Typed
<1>4. \A s \in Stocks : Listed(positions, s) = 0
  BY <1>1, <1>2, ListedIs
<1>5. PositionsAreOwn
  BY <1>1, <1>4 DEF PositionsAreOwn
<1>6. ASSUME NEW s \in Stocks, NEW side \in {"Buy", "Sell"} PROVE Within(side, s)
  <2> DEFINE c == [j \in 0 .. 0 |-> 0]
  <2>1. Totals(c, open, side, s)
    BY <1>1 DEF Totals
  <2>2. Signed(side, filled[s]) + c[Len(open)] = 0
    BY <1>1 DEF Signed
  <2>3. 0 <= MAX_NET_POSITION + Overshoot
    BY LimitsAssumption, OvershootIs
  <2> HIDE DEF c
  <2> QED BY <2>1, <2>2, <2>3 DEF Within
<1> QED BY <1>3, <1>5, <1>6 DEF IInv, Committed

\* An accepted order fits within the limit on top of what is filled.
LEMMA AcceptedFits ==
  ASSUME Typed, PositionsAreOwn, NEW o \in Request, check(positions, o) = "Accepted"
  PROVE  /\ o \in Order
         /\ Signed(o.side, filled[o.stock]) + o.qty <= MAX_NET_POSITION
<1> DEFINE c == Create(positions, o.stock)
           i == Slot(positions, o.stock)
           projected == c[i].net + Signed(o.side, o.qty)
<1>1. /\ o.stock \in Stocks /\ o.side \in {"Buy", "Sell"} /\ o.qty \in Nat
      /\ o.price \in Nat /\ o = [stock |-> o.stock, side |-> o.side,
                                 price |-> o.price, qty |-> o.qty]
  BY OrdersAssumption DEF Request
<1>2. /\ o.qty # 0 /\ ~ (o.qty > MAX_ORDER_SIZE)
      /\ ~ (projected > MAX_NET_POSITION) /\ ~ (projected < -MAX_NET_POSITION)
  BY DEF check, Malformed
<1>3. o \in Order
  BY <1>1, <1>2, LimitsAssumption DEF Order
<1>4. Table(c) /\ i \in 1 .. Len(c) /\ i = Listed(c, o.stock)
  BY <1>1, CreateIs DEF Typed
<1>5. Net(c, o.stock) = filled[o.stock] /\ filled[o.stock] \in Int
  BY <1>1, CreateKeepsNet, OwnIs DEF Typed
<1> HIDE DEF c, i
<1>6. i # 0
  BY <1>4 DEF Table
<1>7. c[i].net = filled[o.stock]
  BY <1>4, <1>5, <1>6 DEF Net
<1>8. CASE o.side = "Buy"
  <2>1. projected = filled[o.stock] + o.qty /\ Signed(o.side, filled[o.stock]) = filled[o.stock]
    BY <1>7, <1>8 DEF Signed
  <2> QED BY <1>1, <1>2, <1>3, <1>5, <2>1, LimitsAssumption
<1>9. CASE o.side = "Sell"
  <2>1. /\ projected = filled[o.stock] + (-o.qty)
        /\ Signed(o.side, filled[o.stock]) = -filled[o.stock]
    BY <1>7, <1>9 DEF Signed
  <2> HIDE DEF projected
  <2> QED BY <1>1, <1>2, <1>3, <1>5, <2>1, LimitsAssumption
<1> QED BY <1>1, <1>8, <1>9

\* A request, passed or rejected, keeps the invariant.
LEMMA SubmitKeeps ==
  ASSUME IInv, NEW o \in Request, Submit(o)
  PROVE  IInv'
<1>1. Typed /\ PositionsAreOwn /\ Committed /\ o.stock \in Stocks
  BY DEF IInv, Request
<1>2. /\ Len(open) < MaxOpen /\ filled' = filled
      /\ positions' = positions \/ positions' = Create(positions, o.stock)
  BY DEF Submit, Checked
<1>3. Table(positions') /\ \A s \in Stocks : Net(positions', s) = Net(positions, s)
  BY <1>1, <1>2, CreateIs, CreateKeepsNet DEF Typed
<1>4. \A s \in Stocks : filled[s] = Net(positions, s)
  BY <1>1, OwnIs
<1>5. PositionsAreOwn'
  BY <1>2, <1>3, <1>4 DEF PositionsAreOwn, Net
<1>6. CASE check(positions, o) # "Accepted"
  <2>1. open' = open
    BY <1>6 DEF Submit
  <2>2. Typed'
    BY <1>1, <1>2, <1>3, <2>1 DEF Typed
  <2>3. Committed'
    BY <1>1, <1>2, <2>1 DEF Committed, Within
  <2> QED BY <1>5, <2>2, <2>3 DEF IInv
<1>7. CASE check(positions, o) = "Accepted"
  <2>1. open' = Append(open, o)
    BY <1>7 DEF Submit
  <2>2. o \in Order /\ Signed(o.side, filled[o.stock]) + o.qty <= MAX_NET_POSITION
    BY <1>1, <1>7, AcceptedFits
  <2> DEFINE n == Len(open)
  <2>3. /\ open \in Seq(Order) /\ n \in Nat /\ n < MaxOpen
        /\ open' \in Seq(Order) /\ Len(open') = n + 1
    BY <1>1, <1>2, <2>1, <2>2 DEF Typed
  <2>4. Typed'
    BY <1>1, <1>2, <1>3, <2>3, OrdersAssumption DEF Typed
  <2>5. ASSUME NEW s \in Stocks, NEW side \in {"Buy", "Sell"} PROVE Within(side, s)'
    <3>1. PICK c : /\ Totals(c, open, side, s)
                   /\ Signed(side, filled[s]) + c[n] <= MAX_NET_POSITION + Overshoot
      BY <1>1 DEF Committed, Within
    <3>2. PICK d : /\ Totals(d, open', side, s)
                   /\ d[n + 1] = c[n] + Due(o, side, s)
      BY <2>1, <2>2, <2>3, <3>1, TotalsOfAppend
    <3> HIDE DEF n
    <3>3. n \in 0 .. n /\ c[n] \in Nat
      BY <2>3, <3>1 DEF Totals, n
    <3>4. Signed(side, filled[s]) \in Int
      BY <1>1 DEF Typed, Signed
    <3>5. Signed(side, filled[s]) + d[n + 1] <= MAX_NET_POSITION + Overshoot
      <4>1. CASE o.side = side /\ o.stock = s
        <5>1. c[n] <= n * MAX_ORDER_SIZE
          BY <2>3, <3>1, <3>3, TotalsBounded DEF n
        <5>2. n <= MaxOpen - 1 /\ MaxOpen - 1 \in Nat
          BY <2>3, OrdersAssumption
        <5>3. n * MAX_ORDER_SIZE <= (MaxOpen - 1) * MAX_ORDER_SIZE
          BY <2>3, <5>2, LimitsAssumption
        <5>4. n * MAX_ORDER_SIZE \in Nat
          BY <2>3, LimitsAssumption
        <5>5. c[n] <= Overshoot
          BY <3>3, <5>1, <5>3, <5>4, OvershootIs DEF Overshoot
        <5>6. d[n + 1] = c[n] + o.qty /\ o.qty \in Nat
          BY <2>2, <3>2, <4>1, DueIs DEF Due
        <5>7. Signed(side, filled[s]) + o.qty <= MAX_NET_POSITION
          BY <2>2, <4>1
        <5> QED BY <3>3, <3>4, <5>5, <5>6, <5>7, OvershootIs, LimitsAssumption
      <4>2. CASE ~ (o.side = side /\ o.stock = s)
        <5>1. d[n + 1] = c[n]
          BY <3>2, <3>3, <4>2 DEF Due
        <5> QED BY <3>1, <5>1
      <4> QED BY <4>1, <4>2
    <3> QED BY <1>2, <2>3, <3>2, <3>5 DEF Within
  <2>6. Committed'
    BY <2>5 DEF Committed
  <2> QED BY <1>5, <2>4, <2>6 DEF IInv
<1> QED BY <1>6, <1>7

\* A fill, whole or in part, keeps the invariant.
LEMMA FillKeeps ==
  ASSUME IInv, NEW i \in DOMAIN open, NEW n \in 1 .. MAX_ORDER_SIZE, Fill(i, n)
  PROVE  IInv'
<1> DEFINE o == open[i]
           l == Len(open)
<1>1. /\ Typed /\ PositionsAreOwn /\ Committed
      /\ open \in Seq(Order) /\ l \in Nat /\ i \in 1 .. l /\ o \in Order
  BY DEF IInv, Typed
<1>2. /\ n <= o.qty
      /\ positions' = on_fill(positions, o.stock, o.side, n)
      /\ filled' = [filled EXCEPT ![o.stock] = @ + Signed(o.side, n)]
      /\ open' = IF n = o.qty THEN RemoveAt(open, i)
                 ELSE [open EXCEPT ![i].qty = @ - n]
  BY DEF Fill
<1>3. n \in Nat /\ o.stock \in Stocks /\ o.side \in {"Buy", "Sell"} /\ o.qty \in Nat
  BY <1>1, LimitsAssumption DEF Order
<1>4. Signed(o.side, n) \in Int
  BY <1>3 DEF Signed
<1>5. /\ filled' \in [Stocks -> Int]
      /\ \A s \in Stocks : filled'[s] = IF s = o.stock THEN filled[s] + Signed(o.side, n)
                                        ELSE filled[s]
  <2> HIDE DEF o
  <2> QED BY <1>1, <1>2, <1>3, <1>4 DEF Typed
<1>6. PositionsAreOwn' /\ Table(positions')
  <2>1. \A s \in Stocks : filled[s] = Net(positions, s)
    BY <1>1, OwnIs
  <2>2. /\ Table(positions')
        /\ \A s \in Stocks : Net(positions', s) =
             IF s = o.stock THEN Net(positions, s) + Signed(o.side, n) ELSE Net(positions, s)
    BY <1>1, <1>2, <1>3, FillMovesOne DEF Typed
  <2>3. \A s \in Stocks : filled'[s] = Net(positions', s)
    BY <1>5, <2>1, <2>2
  <2> QED BY <2>2, <2>3 DEF PositionsAreOwn, Net
<1>7. open' \in Seq(Order) /\ Len(open') <= l
  <2>1. CASE n = o.qty
    BY <1>1, <1>2, <2>1, RemoveAtIs
  <2>2. CASE n # o.qty
    <3>1. n < o.qty
      BY <1>2, <1>3, <2>2
    <3>2. Typed /\ 0 \in 0 .. l
      BY <1>1
    <3>3. PICK c : Totals(c, open, "Buy", o.stock)
      BY <1>1, <1>3 DEF Committed, Within
    <3>4. open' \in Seq(Order) /\ Len(open') = l
      BY <1>1, <1>2, <1>3, <2>2, <3>1, <3>3, TotalsOfReduce
    <3> QED BY <1>1, <3>4
  <2> QED BY <2>1, <2>2
<1>8. Typed'
  BY <1>1, <1>5, <1>6, <1>7, OrdersAssumption DEF Typed
<1>9. ASSUME NEW s \in Stocks, NEW side \in {"Buy", "Sell"} PROVE Within(side, s)'
  <2> DEFINE x == IF o.side = side /\ o.stock = s THEN n ELSE 0
  <2>1. PICK c : /\ Totals(c, open, side, s)
                 /\ Signed(side, filled[s]) + c[l] <= MAX_NET_POSITION + Overshoot
    BY <1>1 DEF Committed, Within
  <2>2. PICK d : Totals(d, open', side, s) /\ d[Len(open')] = c[l] - x
    <3>1. CASE n = o.qty
      <4>1. Len(open') = l - 1 /\ Due(o, side, s) = x
        BY <1>1, <1>2, <3>1, RemoveAtIs DEF Due
      <4> QED BY <1>1, <1>2, <2>1, <3>1, <4>1, TotalsOfRemove
    <3>2. CASE n # o.qty
      <4>1. n < o.qty
        BY <1>2, <1>3, <3>2
      <4> DEFINE t == [open EXCEPT ![i].qty = @ - n]
      <4>2. /\ Len(t) = l
            /\ \E d : /\ Totals(d, t, side, s)
                      /\ d[l] = c[l] - (IF o.side = side /\ o.stock = s THEN n ELSE 0)
        BY <1>1, <1>3, <2>1, <4>1, TotalsOfReduce
      <4>3. open' = t
        BY <1>2, <3>2
      <4> HIDE DEF t
      <4> QED BY <4>2, <4>3
    <3> QED BY <3>1, <3>2
  <2>3. c[l] \in Nat /\ filled[s] \in Int /\ x \in Nat
    BY <1>1, <1>3, <2>1 DEF Totals, Typed
  <2>4. filled'[s] = IF s = o.stock THEN filled[s] + Signed(o.side, n) ELSE filled[s]
    BY <1>5
  <2>5. Signed(side, filled'[s]) + d[Len(open')] <= Signed(side, filled[s]) + c[l]
    <3>1. CASE o.stock # s
      BY <2>2, <2>3, <2>4, <3>1 DEF Signed
    <3>2. CASE o.stock = s /\ o.side = side
      <4>1. x = n
        BY <3>2
      <4>2. CASE side = "Buy"
        BY <1>3, <2>2, <2>3, <2>4, <3>2, <4>1, <4>2 DEF Signed
      <4>3. CASE side = "Sell"
        BY <1>3, <2>2, <2>3, <2>4, <3>2, <4>1, <4>3 DEF Signed
      <4> QED BY <4>2, <4>3
    <3>3. CASE o.stock = s /\ o.side # side
      <4>1. x = 0
        BY <3>3
      <4>2. CASE side = "Buy"
        <5>1. o.side = "Sell"
          BY <1>3, <3>3, <4>2
        <5> QED BY <1>3, <2>2, <2>3, <2>4, <3>3, <4>1, <4>2, <5>1 DEF Signed
      <4>3. CASE side = "Sell"
        <5>1. o.side = "Buy"
          BY <1>3, <3>3, <4>3
        <5> QED BY <1>3, <2>2, <2>3, <2>4, <3>3, <4>1, <4>3, <5>1 DEF Signed
      <4> QED BY <4>2, <4>3
    <3> QED BY <3>1, <3>2, <3>3
  <2>6. /\ Signed(side, filled[s]) + c[l] \in Int
        /\ Signed(side, filled'[s]) + d[Len(open')] \in Int
        /\ MAX_NET_POSITION + Overshoot \in Int
    BY <1>5, <2>2, <2>3, OvershootIs, LimitsAssumption DEF Signed
  <2>7. Signed(side, filled'[s]) + d[Len(open')] <= MAX_NET_POSITION + Overshoot
    BY <2>1, <2>5, <2>6
  <2> QED BY <2>2, <2>7 DEF Within
<1>10. Committed'
  BY <1>9 DEF Committed
<1> QED BY <1>6, <1>8, <1>10 DEF IInv

\* Every step keeps the invariant.
LEMMA NextIInv == IInv /\ [Next]_vars => IInv'
<1> SUFFICES ASSUME IInv, [Next]_vars PROVE IInv'
  OBVIOUS
<1>1. CASE \E o \in Request : Submit(o)
  BY <1>1, SubmitKeeps
<1>2. CASE \E i \in DOMAIN open : \E n \in 1 .. MAX_ORDER_SIZE : Fill(i, n)
  BY <1>2, FillKeeps
<1>3. ASSUME NEW s \in Stocks, NEW p \in Prices \ {0}, SetReference(s, p)
      PROVE  IInv'
  <2>1. /\ positions' = set_reference_price(positions, s, p)
        /\ open' = open /\ filled' = filled
    BY <1>3 DEF SetReference
  <2>2. p \in Nat /\ Table(positions)
    BY OrdersAssumption DEF IInv, Typed
  <2>3. Table(positions') /\ \A q \in Stocks : Net(positions', q) = Net(positions, q)
    BY <2>1, <2>2, ReferenceMovesNone
  <2>4. \A q \in Stocks : filled[q] = Net(positions, q)
    BY OwnIs DEF IInv
  <2>5. PositionsAreOwn'
    BY <2>1, <2>3, <2>4 DEF PositionsAreOwn, Net
  <2>6. Typed'
    BY <2>1, <2>3 DEF IInv, Typed
  <2>7. Committed'
    BY <2>1 DEF IInv, Committed, Within
  <2> QED BY <2>5, <2>6, <2>7 DEF IInv
<1>4. CASE UNCHANGED vars
  BY <1>4 DEF vars, IInv, Typed, Committed, Within, PositionsAreOwn
<1> QED BY <1>1, <1>2, <1>3, <1>4 DEF Next

\* The risk engine's state keeps its type and its invariant.
THEOREM DeskInvariant == Spec => []IInv
BY InitIInv, NextIInv, PTL DEF Spec

\* Every entry of the table holds the net of its own stock's fills.
THEOREM OwnPositions == Spec => []PositionsAreOwn
<1>1. IInv => PositionsAreOwn
  BY DEF IInv
<1> QED BY <1>1, DeskInvariant, PTL

\* No position passes its limit by more than the other open orders allow.
THEOREM LimitHolds == Spec => []OvershootBounded
<1>1. IInv => OvershootBounded
  <2> SUFFICES ASSUME IInv, NEW s \in Stocks
               PROVE  Distance(filled[s], 0) <= MAX_NET_POSITION + Overshoot
    BY DEF OvershootBounded
  <2>1. /\ filled[s] \in Int /\ Len(open) \in 0 .. Len(open)
        /\ MAX_NET_POSITION + Overshoot \in Int
    BY OvershootIs, LimitsAssumption DEF IInv, Typed
  <2>2. filled[s] <= MAX_NET_POSITION + Overshoot
    <3>1. PICK c : /\ Totals(c, open, "Buy", s)
                   /\ Signed("Buy", filled[s]) + c[Len(open)] <= MAX_NET_POSITION + Overshoot
      BY DEF IInv, Committed, Within
    <3>2. c[Len(open)] \in Nat
      BY <2>1, <3>1 DEF Totals
    <3> QED BY <2>1, <3>1, <3>2 DEF Signed
  <2>3. -filled[s] <= MAX_NET_POSITION + Overshoot
    <3>1. PICK c : /\ Totals(c, open, "Sell", s)
                   /\ Signed("Sell", filled[s]) + c[Len(open)] <= MAX_NET_POSITION + Overshoot
      BY DEF IInv, Committed, Within
    <3>2. c[Len(open)] \in Nat
      BY <2>1, <3>1 DEF Totals
    <3> QED BY <2>1, <3>1, <3>2 DEF Signed
  <2> QED BY <2>1, <2>2, <2>3 DEF Distance
<1> QED BY <1>1, DeskInvariant, PTL
=============================================================================
