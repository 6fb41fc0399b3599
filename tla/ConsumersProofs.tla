--------------------------- MODULE ConsumersProofs ---------------------------
(***************************************************************************)
(* Proofs about the two consumers of the feed, the file replay and the     *)
(* live exchange, for every set of references, prices and messages.        *)
(*                                                                         *)
(* Both apply to the engine what BookState resolves a message into.  The   *)
(* argument is by reference: an operation touches one queue of the engine, *)
(* there it touches the order it names and keeps the order of the others,  *)
(* and what becomes of its own order is what became of it in the table.    *)
(***************************************************************************)
EXTENDS FileReplay, LiveExchange, TLAPS, SequenceTheorems, WellFoundedInduction

(* Numbers and sequences *)

\* A set of natural numbers that is not empty has a least element.
LEMMA LeastNatural ==
  ASSUME NEW S \in SUBSET Nat, S # {}
  PROVE  \E n \in S : \A m \in S : n <= m
<1> DEFINE R == {ss \in Nat \X Nat : ss[1] < ss[2]}
<1>1. IsWellFoundedOn(R, Nat)
  BY NatLessThanWellFounded DEF OpToRel
<1> HIDE DEF R
<1>2. PICK n \in S : \A m \in S : ~ (<<m, n>> \in R)
  BY <1>1, WFMin
<1>3. \A m \in S : ~ (m < n)
  BY <1>2 DEF R
<1> QED BY <1>3

\* And a greatest one, if it is bounded.
LEMMA GreatestNatural ==
  ASSUME NEW S \in SUBSET Nat, S # {}, NEW b \in Nat, \A m \in S : m <= b
  PROVE  \E n \in S : \A m \in S : m <= n
<1> DEFINE T == {b - m : m \in S}
<1>1. T \in SUBSET Nat /\ T # {}
  <2>1. \A m \in S : b - m \in Nat
    OBVIOUS
  <2>2. PICK m \in S : TRUE
    OBVIOUS
  <2>3. b - m \in T
    OBVIOUS
  <2> QED BY <2>1, <2>3
<1>2. PICK t \in T : \A u \in T : t <= u
  <2> HIDE DEF T
  <2> QED BY <1>1, LeastNatural
<1>3. PICK n \in S : t = b - n
  BY <1>2
<1>4. ASSUME NEW m \in S PROVE m <= n
  <2>1. b - m \in T
    OBVIOUS
  <2>2. b - n <= b - m
    BY <1>2, <1>3, <2>1
  <2> QED BY <2>2
<1> QED BY <1>4

\* f begins with v and goes on by G.
Iterates(f, n, V, v, G) ==
  /\ f \in [0 .. n -> V] /\ f[0] = v
  /\ \A i \in 1 .. n : f[i] = G[i][f[i - 1]]

\* Every such recursion has a solution.
LEMMA RecursionExists ==
  ASSUME NEW n \in Nat, NEW V, NEW v \in V, NEW G \in [1 .. n -> [V -> V]]
  PROVE  \E f : Iterates(f, n, V, v, G)
<1> DEFINE T == {k \in 0 .. n : ~ \E f : Iterates(f, k, V, v, G)}
<1>1. CASE T = {}
  <2>1. n \in 0 .. n
    OBVIOUS
  <2>2. n \notin T
    BY <1>1
  <2> QED BY <2>1, <2>2
<1>2. CASE T # {}
  <2>1. T \in SUBSET Nat
    OBVIOUS
  <2>2. PICK k \in T : \A m \in T : k <= m
    <3> HIDE DEF T
    <3> QED BY <1>2, <2>1, LeastNatural
  <2>3. k # 0
    <3>1. Iterates([i \in 0 .. 0 |-> v], 0, V, v, G)
      BY DEF Iterates
    <3> QED BY <2>2, <3>1
  <2>4. k - 1 \in 0 .. n /\ k - 1 \notin T /\ k \in 1 .. n
    BY <2>2, <2>3
  <2>5. PICK f : Iterates(f, k - 1, V, v, G)
    BY <2>4
  <2>6. f \in [0 .. k - 1 -> V] /\ f[0] = v /\ f[k - 1] \in V
    <3>1. k - 1 \in 0 .. k - 1
      BY <2>4
    <3> QED BY <2>5, <3>1 DEF Iterates
  <2> DEFINE w == G[k][f[k - 1]]
             g == [i \in 0 .. k |-> IF i = k THEN w ELSE f[i]]
  <2>7. w \in V
    BY <2>4, <2>6
  <2> HIDE DEF w
  <2>8. g \in [0 .. k -> V] /\ g[0] = v
    <3>1. ASSUME NEW i \in 0 .. k, i # k PROVE f[i] \in V
      <4>1. i \in 0 .. k - 1
        BY <2>4, <3>1
      <4> QED BY <2>6, <4>1
    <3>2. k # 0 /\ 0 \in 0 .. k
      BY <2>3, <2>4
    <3> QED BY <2>6, <2>7, <3>1, <3>2
  <2>9. ASSUME NEW i \in 1 .. k PROVE g[i] = G[i][g[i - 1]]
    <3>1. i \in 0 .. k /\ i - 1 \in 0 .. k /\ i - 1 # k
      BY <2>4
    <3>2. g[i - 1] = f[i - 1]
      BY <3>1
    <3>3. CASE i = k
      BY <3>1, <3>2, <3>3 DEF w
    <3>4. CASE i # k
      <4>1. i \in 1 .. k - 1
        BY <2>4, <3>4
      <4>2. g[i] = f[i]
        BY <3>1, <3>4
      <4> HIDE DEF g
      <4> QED BY <2>5, <3>2, <4>1, <4>2 DEF Iterates
    <3> QED BY <3>3, <3>4
  <2>10. Iterates(g, k, V, v, G)
    <3> HIDE DEF g
    <3> QED BY <2>8, <2>9 DEF Iterates
  <2> QED BY <2>2, <2>10
<1> QED BY <1>1, <1>2

\* A function that obeys such a recursion stays in V.
LEMMA RecursionIs ==
  ASSUME NEW n \in Nat, NEW V, NEW v \in V, NEW G \in [1 .. n -> [V -> V]],
         NEW f, f = [i \in 0 .. n |-> f[i]], f[0] = v,
         \A i \in 1 .. n : f[i - 1] \in V => f[i] = G[i][f[i - 1]]
  PROVE  Iterates(f, n, V, v, G)
<1>1. \A i \in 0 .. n : f[i] \in V
  <2> DEFINE T == {i \in 0 .. n : f[i] \notin V}
  <2> SUFFICES ASSUME T # {} PROVE FALSE
    OBVIOUS
  <2>1. T \in SUBSET Nat
    OBVIOUS
  <2>2. PICK i \in T : \A m \in T : i <= m
    <3> HIDE DEF T
    <3> QED BY <2>1, LeastNatural
  <2>3. i # 0
    BY <2>2
  <2>4. i \in 1 .. n /\ i - 1 \in 0 .. n /\ i - 1 \notin T
    BY <2>2, <2>3
  <2>5. f[i - 1] \in V /\ f[i] = G[i][f[i - 1]]
    BY <2>4
  <2> QED BY <2>2, <2>4, <2>5
<1>2. f \in [0 .. n -> V]
  BY <1>1
<1>3. \A i \in 1 .. n : i - 1 \in 0 .. n
  OBVIOUS
<1> QED BY <1>1, <1>2, <1>3 DEF Iterates

\* RemoveAt closes the gap.
LEMMA RemoveAtIs ==
  ASSUME NEW S, NEW s \in Seq(S), NEW i \in 1 .. Len(s)
  PROVE  /\ RemoveAt(s, i) \in Seq(S) /\ Len(RemoveAt(s, i)) = Len(s) - 1
         /\ \A j \in 1 .. Len(s) - 1 :
              RemoveAt(s, i)[j] = IF j < i THEN s[j] ELSE s[j + 1]
<1> DEFINE a == SubSeq(s, 1, i - 1)
           b == SubSeq(s, i + 1, Len(s))
           n == Len(s)
<1>1. n \in Nat /\ i \in 1 .. n /\ i \in Int /\ i - 1 \in Int /\ i + 1 \in Int
  OBVIOUS
<1>2. /\ a \in Seq(S) /\ Len(a) = i - 1
      /\ \A j \in 1 .. i - 1 : a[j] = s[j]
  BY <1>1
<1>3. /\ b \in Seq(S) /\ Len(b) = n - i
      /\ \A j \in 1 .. n - i : b[j] = s[i + j]
  <2>1. \A j \in i + 1 .. n : s[j] \in S
    BY <1>1
  <2>2. /\ b \in Seq(S) /\ Len(b) = IF i + 1 <= n THEN n - (i + 1) + 1 ELSE 0
        /\ \A j \in 1 .. n - (i + 1) + 1 : b[j] = s[(i + 1) + j - 1]
    BY <1>1, <2>1, SubSeqProperties
  <2>3. n - (i + 1) + 1 = n - i /\ \A j \in 1 .. n - i : (i + 1) + j - 1 = i + j
    BY <1>1
  <2> HIDE DEF b, n
  <2>4. Len(b) = n - i
    BY <1>1, <2>2
  <2> QED BY <2>2, <2>3, <2>4
<1>4. RemoveAt(s, i) = a \o b
  BY DEF RemoveAt
<1> HIDE DEF a, b, n
<1>5. /\ a \o b \in Seq(S) /\ Len(a \o b) = Len(a) + Len(b)
      /\ \A j \in 1 .. Len(a) + Len(b) :
           (a \o b)[j] = IF j <= Len(a) THEN a[j] ELSE b[j - Len(a)]
  BY <1>2, <1>3, ConcatProperties
<1>6. Len(a) + Len(b) = n - 1
  BY <1>1, <1>2, <1>3
<1>7. ASSUME NEW j \in 1 .. n - 1
      PROVE  (a \o b)[j] = IF j < i THEN s[j] ELSE s[j + 1]
  <2>1. CASE j < i
    <3>1. j <= Len(a) /\ j \in 1 .. i - 1
      BY <1>1, <1>2, <2>1
    <3> QED BY <1>2, <1>5, <1>6, <2>1, <3>1
  <2>2. CASE ~ (j < i)
    <3>1. ~ (j <= Len(a)) /\ j - Len(a) \in 1 .. n - i /\ i + (j - Len(a)) = j + 1
      BY <1>1, <1>2, <2>2
    <3> QED BY <1>3, <1>5, <1>6, <2>2, <3>1
  <2> QED BY <2>1, <2>2
<1> QED BY <1>4, <1>5, <1>6, <1>7 DEF n

----------------------------------------------------------------------------
(* The queue of a price level *)

\* What a queue holds.
Queued == [ref : Refs, qty : Nat \ {0}]

\* The queue holds n shares for r.
Holds(q, r, n) == \E i \in 1 .. Len(q) : q[i].ref = r /\ q[i].qty = n

\* The queue holds an order of r.
Has(q, r) == \E i \in 1 .. Len(q) : q[i].ref = r

\* The queue holds at most one order of r.
Single(q, r) == \A i, j \in 1 .. Len(q) : q[i].ref = r /\ q[j].ref = r => i = j

\* An order of x is ahead of one of y.
Before(q, x, y) == \E i, j \in 1 .. Len(q) : i < j /\ q[i].ref = x /\ q[j].ref = y

\* From q to q1 only the orders of x changed.
OthersStay(q, q1, x) ==
  /\ \A r \in Refs : r # x => /\ \A n \in Nat : Holds(q1, r, n) <=> Holds(q, r, n)
                              /\ Single(q, r) => Single(q1, r)
  /\ \A r, t \in Refs : t # x /\ Before(q1, r, t) => Before(q, r, t)

\* No order of q1 is new or has more shares than in q.
NoneGrows(q, q1) ==
  \A r \in Refs, k \in Nat : Holds(q1, r, k) => \E n \in Nat : k <= n /\ Holds(q, r, n)

\* What is held is held with some quantity.
LEMMA HasIsHolds ==
  ASSUME NEW q \in Seq(Queued), NEW r
  PROVE  /\ Has(q, r) <=> \E n \in Nat : Holds(q, r, n)
         /\ \A n : Holds(q, r, n) => n \in Nat \ {0} /\ r \in Refs
<1>1. \A i \in 1 .. Len(q) : q[i] \in Queued
  OBVIOUS
<1>2. \A i \in 1 .. Len(q) : q[i].ref \in Refs /\ q[i].qty \in Nat \ {0} /\ q[i].qty \in Nat
  BY <1>1 DEF Queued
<1> QED BY <1>2 DEF Has, Holds

\* The search of a queue finds the order, if there is one.
LEMMA IndexOfIs ==
  ASSUME NEW q \in Seq(Queued), NEW r
  PROVE  IF Has(q, r) THEN IndexOf(q, r) \in 1 .. Len(q) /\ q[IndexOf(q, r)].ref = r
         ELSE IndexOf(q, r) = 0
<1> DEFINE I == {i \in 1 .. Len(q) : q[i].ref = r}
<1>1. IndexOf(q, r) = IF I # {} THEN Min(I) ELSE 0
  BY DEF IndexOf, SelectInSeq
<1>2. I \in SUBSET Nat /\ (Has(q, r) <=> I # {})
  BY DEF Has
<1>3. CASE I # {}
  <2>1. \E i \in I : \A j \in I : i <= j
    <3> HIDE DEF I
    <3> QED BY <1>2, <1>3, LeastNatural
  <2>2. Min(I) \in I
    BY <2>1 DEF Min
  <2> QED BY <1>1, <1>2, <1>3, <2>2
<1>4. CASE I = {}
  BY <1>1, <1>2, <1>4
<1> QED BY <1>3, <1>4

\* A new order goes to the end of the queue.
LEMMA QueueAppend ==
  ASSUME NEW q \in Seq(Queued), NEW x \in Refs, NEW n \in Nat \ {0}
  PROVE  LET q1 == Append(q, [ref |-> x, qty |-> n])
         IN  /\ q1 \in Seq(Queued) \ {<< >>} /\ OthersStay(q, q1, x)
             /\ \A k \in Nat : Holds(q1, x, k) <=> (Holds(q, x, k) \/ k = n)
             /\ ~ Has(q, x) => Single(q1, x)
             /\ \A r \in Refs : Before(q1, r, x) => Has(q, r)
<1> DEFINE o == [ref |-> x, qty |-> n]
           q1 == Append(q, o)
           m == Len(q)
<1>1. o \in Queued /\ o.ref = x /\ o.qty = n
  BY DEF Queued
<1> HIDE DEF o
<1>2. /\ m \in Nat /\ q1 \in Seq(Queued) /\ Len(q1) = m + 1
      /\ q1[m + 1] = o /\ \A i \in 1 .. m : q1[i] = q[i]
  BY <1>1
<1> HIDE DEF q1, m
<1>3. \A i \in 1 .. m + 1 : i \in 1 .. m \/ i = m + 1
  BY <1>2
<1>4. \A i \in 1 .. m : i \in 1 .. m + 1 /\ i # m + 1
  BY <1>2
<1>5. m + 1 \in 1 .. m + 1
  BY <1>2
<1>6. ASSUME NEW r, NEW k PROVE Holds(q1, r, k) <=> (Holds(q, r, k) \/ (r = x /\ k = n))
  BY <1>1, <1>2, <1>3, <1>4, <1>5 DEF Holds, m
<1>7. ASSUME NEW r, Single(q, r), r = x => ~ Has(q, r) PROVE Single(q1, r)
  BY <1>1, <1>2, <1>3, <1>4, <1>5, <1>7 DEF Single, Has, m
<1>8. ASSUME NEW r, NEW t, Before(q1, r, t) PROVE Has(q, r) /\ (t # x => Before(q, r, t))
  <2>1. PICK i, j \in 1 .. m + 1 : i < j /\ q1[i].ref = r /\ q1[j].ref = t
    BY <1>2, <1>8 DEF Before
  <2>2. i \in 1 .. m
    BY <1>2, <2>1
  <2>3. Has(q, r)
    BY <1>2, <2>1, <2>2 DEF Has, m
  <2>4. ASSUME t # x PROVE Before(q, r, t)
    <3>1. j \in 1 .. m
      BY <1>1, <1>2, <1>3, <2>1, <2>4
    <3> QED BY <1>2, <2>1, <2>2, <3>1 DEF Before, m
  <2> QED BY <2>3, <2>4
<1>9. ~ Has(q, x) => Single(q, x)
  BY DEF Has, Single
<1>10. q1 # << >>
  BY <1>2
<1>11. OthersStay(q, q1, x)
  BY <1>6, <1>7, <1>8 DEF OthersStay
<1> QED BY <1>2, <1>6, <1>7, <1>8, <1>9, <1>10, <1>11 DEF q1, o

\* An order that is removed leaves the others in their order.
LEMMA QueueRemove ==
  ASSUME NEW q \in Seq(Queued), NEW x \in Refs, NEW i \in 1 .. Len(q), q[i].ref = x
  PROVE  LET q1 == RemoveAt(q, i)
         IN  /\ q1 \in Seq(Queued) /\ OthersStay(q, q1, x)
             /\ Single(q, x) => ~ Has(q1, x)
             /\ NoneGrows(q, q1)
             /\ \A r, t \in Refs : Before(q1, r, t) => Before(q, r, t)
<1> DEFINE q1 == RemoveAt(q, i)
           m == Len(q)
           at(j) == IF j < i THEN j ELSE j + 1
<1>1. /\ m \in Nat /\ q1 \in Seq(Queued) /\ Len(q1) = m - 1
      /\ \A j \in 1 .. m - 1 : q1[j] = IF j < i THEN q[j] ELSE q[j + 1]
  <2>1. m \in Nat
    OBVIOUS
  <2>2. q1 \in Seq(Queued) /\ Len(q1) = m - 1
    BY RemoveAtIs
  <2>3. \A j \in 1 .. m - 1 : q1[j] = IF j < i THEN q[j] ELSE q[j + 1]
    BY RemoveAtIs
  <2> HIDE DEF q1, m
  <2> QED BY <2>1, <2>2, <2>3
<1>2. \A j \in 1 .. m - 1 : at(j) \in 1 .. m /\ at(j) # i
  BY <1>1
<1>3. \A j, k \in 1 .. m - 1 : (j < k => at(j) < at(k)) /\ (at(j) = at(k) => j = k)
  BY <1>1
<1>4. \A k \in 1 .. m : k # i => \E j \in 1 .. m - 1 : at(j) = k
  <2> SUFFICES ASSUME NEW k \in 1 .. m, k # i PROVE \E j \in 1 .. m - 1 : at(j) = k
    OBVIOUS
  <2>1. CASE k < i
    BY <1>1, <2>1
  <2>2. CASE ~ (k < i)
    <3>1. k - 1 \in 1 .. m - 1 /\ at(k - 1) = k
      BY <1>1, <2>2
    <3> QED BY <3>1
  <2> QED BY <2>1, <2>2
<1>5. \A j \in 1 .. m - 1 : q1[j] = q[at(j)]
  BY <1>1
<1> HIDE DEF q1, m, at
<1>6. ASSUME NEW r, NEW k, r # x PROVE Holds(q1, r, k) <=> Holds(q, r, k)
  <2>1. ASSUME Holds(q1, r, k) PROVE Holds(q, r, k)
    BY <1>1, <1>2, <1>5, <2>1 DEF Holds, m
  <2>2. ASSUME Holds(q, r, k) PROVE Holds(q1, r, k)
    <3>1. PICK h \in 1 .. m : q[h].ref = r /\ q[h].qty = k
      BY <2>2 DEF Holds, m
    <3>2. PICK j \in 1 .. m - 1 : at(j) = h
      BY <1>4, <1>6, <3>1
    <3> QED BY <1>1, <1>5, <3>1, <3>2 DEF Holds
  <2> QED BY <2>1, <2>2
<1>7. ASSUME NEW r, Single(q, r) PROVE Single(q1, r)
  BY <1>1, <1>2, <1>3, <1>5, <1>7 DEF Single, m
<1>8. ASSUME NEW r, NEW t, Before(q1, r, t) PROVE Before(q, r, t)
  <2>1. PICK j, k \in 1 .. m - 1 : j < k /\ q1[j].ref = r /\ q1[k].ref = t
    BY <1>1, <1>8 DEF Before
  <2>2. at(j) \in 1 .. m /\ at(k) \in 1 .. m /\ at(j) < at(k)
    BY <1>2, <1>3, <2>1
  <2> QED BY <1>5, <2>1, <2>2 DEF Before, m
<1>9. ASSUME Single(q, x) PROVE ~ Has(q1, x)
  <2>1. \A j \in 1 .. m - 1 : q[at(j)].ref # x
    BY <1>2, <1>9 DEF Single, m
  <2> QED BY <1>1, <1>5, <2>1 DEF Has
<1>10. OthersStay(q, q1, x)
  BY <1>6, <1>7, <1>8 DEF OthersStay
<1>11. ASSUME NEW r, NEW k, Holds(q1, r, k) PROVE Holds(q, r, k)
  BY <1>1, <1>2, <1>5, <1>11 DEF Holds, m
<1>12. NoneGrows(q, q1)
  BY <1>11 DEF NoneGrows
<1> QED BY <1>1, <1>8, <1>9, <1>10, <1>12 DEF q1

\* Shares taken off an order leave it its place.
LEMMA QueueShrink ==
  ASSUME NEW q \in Seq(Queued), NEW x \in Refs, NEW i \in 1 .. Len(q), q[i].ref = x,
         NEW n \in Nat
  PROVE  LET q1 == Shrink(q, i, n)
         IN  /\ q1 \in Seq(Queued) /\ OthersStay(q, q1, x) /\ NoneGrows(q, q1)
             /\ Single(q, x) => /\ Single(q1, x)
                                /\ \A k \in Nat : Holds(q1, x, k) <=>
                                                    (n < q[i].qty /\ k = q[i].qty - n)
             /\ \A r, t \in Refs : Before(q1, r, t) => Before(q, r, t)
<1> DEFINE q1 == Shrink(q, i, n)
           m == Len(q)
<1>0. m \in Nat /\ q[i] \in Queued /\ q[i].qty \in Nat \ {0}
  <2>1. m \in Nat /\ q[i] \in Queued
    OBVIOUS
  <2> QED BY <2>1 DEF Queued
<1>1. CASE q[i].qty <= n
  <2>1. q1 = RemoveAt(q, i) /\ ~ (n < q[i].qty)
    BY <1>0, <1>1 DEF Shrink
  <2>2. /\ q1 \in Seq(Queued) /\ OthersStay(q, q1, x) /\ NoneGrows(q, q1)
        /\ Single(q, x) => ~ Has(q1, x)
        /\ \A r, t \in Refs : Before(q1, r, t) => Before(q, r, t)
    BY <2>1, QueueRemove
  <2> HIDE DEF q1
  <2>3. ~ Has(q1, x) => Single(q1, x) /\ \A k : ~ Holds(q1, x, k)
    BY DEF Has, Single, Holds
  <2> QED BY <2>1, <2>2, <2>3 DEF q1
<1>2. CASE ~ (q[i].qty <= n)
  <2> DEFINE o == [q[i] EXCEPT !.qty = @ - n]
  <2>1. q1 = [q EXCEPT ![i] = o] /\ n < q[i].qty
    BY <1>0, <1>2 DEF Shrink
  <2>2. o \in Queued /\ o.ref = x /\ o.qty = q[i].qty - n
    BY <1>0, <1>2 DEF Queued
  <2> HIDE DEF o
  <2>3. /\ q1 \in Seq(Queued) /\ Len(q1) = m /\ q1[i] = o
        /\ \A j \in 1 .. m : j # i => q1[j] = q[j]
    <3>1. DOMAIN q = 1 .. m
      OBVIOUS
    <3>2. q1 = [j \in 1 .. m |-> IF j = i THEN o ELSE q[j]]
      BY <2>1, <3>1
    <3>3. \A j \in 1 .. m : q[j] \in Queued
      OBVIOUS
    <3>4. q1 \in [1 .. m -> Queued]
      BY <2>2, <3>2, <3>3
    <3> HIDE DEF q1, m
    <3>5. q1 \in Seq(Queued)
      BY <1>0, <3>4
    <3>6. Len(q1) = m
      BY <1>0, <3>4, <3>5
    <3> QED BY <3>2, <3>5, <3>6 DEF m
  <2> HIDE DEF q1, m
  <2>4. \A j \in 1 .. m : q1[j].ref = q[j].ref
    BY <2>2, <2>3
  <2>5. ASSUME NEW r, NEW k, r # x PROVE Holds(q1, r, k) <=> Holds(q, r, k)
    BY <2>2, <2>3, <2>5 DEF Holds, m
  <2>6. ASSUME NEW r, Single(q, r) PROVE Single(q1, r)
    BY <2>3, <2>4, <2>6 DEF Single, m
  <2>7. ASSUME NEW r, NEW t, Before(q1, r, t) PROVE Before(q, r, t)
    BY <2>3, <2>4, <2>7 DEF Before, m
  <2>8. ASSUME Single(q, x), NEW k PROVE Holds(q1, x, k) <=> k = q[i].qty - n
    <3>1. \A j \in 1 .. m : q1[j].ref = x => j = i
      BY <2>4, <2>8 DEF Single, m
    <3>2. i \in 1 .. m
      BY DEF m
    <3> QED BY <2>2, <2>3, <3>1, <3>2 DEF Holds
  <2>9. OthersStay(q, q1, x)
    BY <2>5, <2>6, <2>7 DEF OthersStay
  <2>10. NoneGrows(q, q1)
    <3> SUFFICES ASSUME NEW r \in Refs, NEW k \in Nat, Holds(q1, r, k)
                 PROVE  \E y \in Nat : k <= y /\ Holds(q, r, y)
      BY DEF NoneGrows
    <3>1. PICK j \in 1 .. m : q1[j].ref = r /\ q1[j].qty = k
      BY <2>3 DEF Holds
    <3>2. Holds(q, r, q[j].qty)
      BY <2>4, <3>1 DEF Holds, m
    <3>3. CASE j = i
      <4>1. q[i].qty \in Nat /\ k <= q[i].qty
        BY <1>0, <2>2, <2>3, <3>1, <3>3
      <4> QED BY <3>2, <3>3, <4>1
    <3>4. CASE j # i
      BY <2>3, <3>1, <3>2, <3>4
    <3> QED BY <3>3, <3>4
  <2> QED BY <2>1, <2>3, <2>6, <2>7, <2>8, <2>9, <2>10 DEF q1
<1> QED BY <1>1, <1>2

\* What is left of the order, if it was the only one.
LEMMA ShrinkOwn ==
  ASSUME NEW q \in Seq(Queued), NEW x \in Refs, NEW i \in 1 .. Len(q), q[i].ref = x,
         NEW n \in Nat, Single(q, x), NEW k \in Nat
  PROVE  /\ Single(Shrink(q, i, n), x)
         /\ Holds(Shrink(q, i, n), x, k) <=> (n < q[i].qty /\ k = q[i].qty - n)
BY QueueShrink

\* Whatever order of x loses the shares, one with more of them than are lost is
\* still there with the rest of them or more.
LEMMA ShrinkLeaves ==
  ASSUME NEW q \in Seq(Queued), NEW x \in Refs, NEW i \in 1 .. Len(q), q[i].ref = x,
         NEW n \in Nat, NEW k \in Nat, n < k, Holds(q, x, k)
  PROVE  \E h \in Nat : h >= k - n /\ Holds(Shrink(q, i, n), x, h)
<1> DEFINE q1 == Shrink(q, i, n)
           m == Len(q)
<1>1. m \in Nat /\ q[i] \in Queued /\ q[i].qty \in Nat
  <2>1. m \in Nat /\ q[i] \in Queued
    OBVIOUS
  <2> QED BY <2>1 DEF Queued
<1>2. PICK j \in 1 .. m : q[j].ref = x /\ q[j].qty = k
  BY DEF Holds
<1>3. k - n \in Nat /\ k >= k - n
  OBVIOUS
<1>4. CASE q[i].qty <= n
  <2>1. q1 = RemoveAt(q, i) /\ j # i
    BY <1>1, <1>2, <1>4 DEF Shrink
  <2>2. Len(q1) = m - 1 /\ \A h \in 1 .. m - 1 : q1[h] = IF h < i THEN q[h] ELSE q[h + 1]
    BY <2>1, RemoveAtIs
  <2> HIDE DEF q1, m
  <2>3. CASE j < i
    <3>1. j \in 1 .. m - 1
      BY <1>1, <2>3 DEF m
    <3>2. q1[j] = q[j]
      BY <2>2, <2>3, <3>1
    <3>3. Holds(q1, x, k)
      BY <1>2, <2>2, <3>1, <3>2 DEF Holds
    <3> QED BY <1>3, <3>3 DEF q1
  <2>4. CASE i < j
    <3>1. j - 1 \in 1 .. m - 1 /\ ~ (j - 1 < i) /\ (j - 1) + 1 = j
      BY <1>1, <2>4
    <3>2. q1[j - 1] = q[j]
      BY <2>2, <3>1
    <3>3. Holds(q1, x, k)
      BY <1>2, <2>2, <3>1, <3>2 DEF Holds
    <3> QED BY <1>3, <3>3 DEF q1
  <2>5. j < i \/ i < j
    BY <1>1, <2>1
  <2> QED BY <2>3, <2>4, <2>5
<1>5. CASE ~ (q[i].qty <= n)
  <2> DEFINE o == [q[i] EXCEPT !.qty = @ - n]
  <2>1. q1 = [q EXCEPT ![i] = o]
    BY <1>5 DEF Shrink
  <2>2. o.ref = x /\ o.qty = q[i].qty - n
    BY <1>1 DEF Queued
  <2>3. Len(q1) = m /\ q1[i] = o /\ \A h \in 1 .. m : h # i => q1[h] = q[h]
    BY <2>1
  <2> HIDE DEF o, q1, m
  <2>4. CASE j = i
    <3>1. q1[j].ref = x /\ q1[j].qty = k - n
      BY <1>2, <2>2, <2>3, <2>4
    <3>2. Holds(q1, x, k - n)
      BY <1>2, <2>3, <3>1 DEF Holds
    <3> QED BY <1>3, <3>2 DEF q1
  <2>5. CASE j # i
    <3>1. Holds(q1, x, k)
      BY <1>2, <2>3, <2>5 DEF Holds
    <3> QED BY <1>3, <3>1 DEF q1
  <2> QED BY <2>4, <2>5
<1> QED BY <1>4, <1>5

----------------------------------------------------------------------------
(* The ladders and the state of the engine *)

\* A ladder: no level is empty, and there is a highest one.
Ladder(b) ==
  /\ b \in [DOMAIN b -> Seq(Queued) \ {<< >>}] /\ DOMAIN b \subseteq Prices
  /\ \E n \in Nat : \A p \in DOMAIN b : p <= n

\* The values of the engine.
IsEngine(e) ==
  /\ e = [Buy |-> e.Buy, Sell |-> e.Sell, orphan_ops |-> e.orphan_ops,
          last_price |-> e.last_price]
  /\ Ladder(e.Buy) /\ Ladder(e.Sell) /\ e.orphan_ops \in Nat

\* The queue of the engine at a price, empty where there is no level.
Queue(e, s, p) == Level(e[s], p)

\* Setting a level sets what the level is, and no other.
LEMMA SetLevelIs ==
  ASSUME NEW b, Ladder(b), NEW p \in Prices, NEW q \in Seq(Queued)
  PROVE  /\ Ladder(SetLevel(b, p, q))
         /\ \A x : Level(SetLevel(b, p, q), x) = IF x = p THEN q ELSE Level(b, x)
<1> DEFINE c == SetLevel(b, p, q)
<1>1. PICK n \in Nat : \A x \in DOMAIN b : x <= n
  BY DEF Ladder
<1>2. p \in Nat /\ \A x \in DOMAIN b : x \in Nat
  BY PricesAssumption DEF Ladder
<1>3. CASE q = << >>
  <2>1. c = [x \in DOMAIN b \ {p} |-> b[x]]
    BY <1>3 DEF SetLevel
  <2>2. DOMAIN c = DOMAIN b \ {p} /\ \A x \in DOMAIN c : c[x] = b[x]
    BY <2>1
  <2>3. c \in [DOMAIN c -> Seq(Queued) \ {<< >>}]
    BY <2>1 DEF Ladder
  <2> HIDE DEF c
  <2>4. Ladder(c)
    BY <1>1, <2>2, <2>3 DEF Ladder
  <2>5. \A x : Level(c, x) = IF x = p THEN q ELSE Level(b, x)
    BY <1>3, <2>2 DEF Level
  <2> QED BY <2>4, <2>5 DEF c
<1>4. CASE q # << >>
  <2>1. c = [x \in DOMAIN b \cup {p} |-> IF x = p THEN q ELSE b[x]]
    BY <1>4 DEF SetLevel
  <2>2. /\ DOMAIN c = DOMAIN b \cup {p}
        /\ \A x \in DOMAIN c : c[x] = IF x = p THEN q ELSE b[x]
    BY <2>1
  <2>3. c \in [DOMAIN c -> Seq(Queued) \ {<< >>}]
    BY <1>4, <2>1 DEF Ladder
  <2>4. \E k \in Nat : \A x \in DOMAIN b \cup {p} : x <= k
    <3>1. CASE p <= n
      BY <1>1, <3>1
    <3>2. CASE ~ (p <= n)
      <4>1. \A x \in DOMAIN b \cup {p} : x <= p
        BY <1>1, <1>2, <3>2
      <4> QED BY <1>2, <4>1
    <3> QED BY <3>1, <3>2
  <2> HIDE DEF c
  <2>5. Ladder(c)
    BY <2>2, <2>3, <2>4 DEF Ladder
  <2>6. \A x : Level(c, x) = IF x = p THEN q ELSE Level(b, x)
    BY <2>2 DEF Level
  <2> QED BY <2>5, <2>6 DEF c
<1> QED BY <1>3, <1>4

\* A side of the engine is a ladder, and its queues are queues.
LEMMA SideIs ==
  ASSUME NEW e, IsEngine(e), NEW s \in Side
  PROVE  /\ Ladder(e[s])
         /\ \A p : Queue(e, s, p) \in Seq(Queued)
         /\ \A p : Queue(e, s, p) # << >> <=> p \in DOMAIN e[s]
<1>1. Ladder(e[s])
  <2>1. CASE s = "Buy"
    BY <2>1 DEF IsEngine
  <2>2. CASE s = "Sell"
    BY <2>2 DEF IsEngine
  <2> QED BY <2>1, <2>2, SideAssumption
<1>2. << >> \in Seq(Queued)
  OBVIOUS
<1> DEFINE b == e[s]
<1>3. \A p : Level(b, p) \in Seq(Queued) /\ (Level(b, p) # << >> <=> p \in DOMAIN b)
  <2> HIDE DEF b
  <2> QED BY <1>1, <1>2 DEF Ladder, Level, b
<1> QED BY <1>1, <1>3 DEF Queue

\* From e to e1 only the queue at s and p changed, to q.
OneQueue(e, e1, s, p, q) ==
  /\ IsEngine(e1)
  /\ \A t \in Side, x \in Prices :
       Queue(e1, t, x) = IF t = s /\ x = p THEN q ELSE Queue(e, t, x)

\* The engine's state as a record, with one side set.
LEMMA RecordUpdate ==
  ASSUME NEW b, NEW a, NEW k, NEW l, NEW c, NEW e,
         e = [Buy |-> b, Sell |-> a, orphan_ops |-> k, last_price |-> l]
  PROVE  /\ [e EXCEPT !["Buy"] = c] = [Buy |-> c, Sell |-> a, orphan_ops |-> k, last_price |-> l]
         /\ [e EXCEPT !["Sell"] = c] = [Buy |-> b, Sell |-> c, orphan_ops |-> k, last_price |-> l]
<1>1. [e EXCEPT !["Buy"] = c] = [Buy |-> c, Sell |-> a, orphan_ops |-> k, last_price |-> l]
  OBVIOUS
<1>2. [e EXCEPT !["Sell"] = c] = [Buy |-> b, Sell |-> c, orphan_ops |-> k, last_price |-> l]
  OBVIOUS
<1> QED BY <1>1, <1>2

\* The engine with a level set.
WithQueue(e, s, p, q) == [e EXCEPT ![s] = SetLevel(@, p, q)]

\* Setting a level of a side of the engine.
LEMMA SetQueueIs ==
  ASSUME NEW e, IsEngine(e), NEW s \in Side, NEW p \in Prices, NEW q \in Seq(Queued)
  PROVE  /\ OneQueue(e, WithQueue(e, s, p, q), s, p, q)
         /\ WithQueue(e, s, p, q).orphan_ops = e.orphan_ops
<1> DEFINE c == SetLevel(e[s], p, q)
           e1 == [e EXCEPT ![s] = c]
<1>1. Ladder(c) /\ \A x : Level(c, x) = IF x = p THEN q ELSE Level(e[s], x)
  BY SideIs, SetLevelIs
<1>2. e = [Buy |-> e.Buy, Sell |-> e.Sell, orphan_ops |-> e.orphan_ops,
           last_price |-> e.last_price]
  BY DEF IsEngine
<1> DEFINE b == e.Buy
           a == e.Sell
           k == e.orphan_ops
           l == e.last_price
<1> HIDE DEF c
<1>3. CASE s = "Buy"
  <2>1. e1 = [Buy |-> c, Sell |-> a, orphan_ops |-> k, last_price |-> l]
    <3>1. e1 = [e EXCEPT !["Buy"] = c]
      BY <1>3
    <3> HIDE DEF b, a, k, l, e1
    <3> QED BY <1>2, <3>1, RecordUpdate DEF b, a, k, l
  <2>2. IsEngine(e1) /\ e1.orphan_ops = e.orphan_ops
    BY <1>1, <2>1 DEF IsEngine
  <2>3. e1["Buy"] = c /\ e1["Sell"] = e["Sell"]
    BY <2>1
  <2> HIDE DEF e1
  <2>4. ASSUME NEW t \in Side, NEW x \in Prices
        PROVE  Queue(e1, t, x) = IF t = s /\ x = p THEN q ELSE Queue(e, t, x)
    <3>1. CASE t = "Buy"
      BY <1>1, <1>3, <2>3, <3>1 DEF Queue
    <3>2. CASE t = "Sell"
      BY <1>3, <2>3, <3>2 DEF Queue
    <3> QED BY <3>1, <3>2, SideAssumption
  <2> QED BY <2>2, <2>4 DEF OneQueue, WithQueue, c, e1
<1>4. CASE s = "Sell"
  <2>1. e1 = [Buy |-> b, Sell |-> c, orphan_ops |-> k, last_price |-> l]
    <3>1. e1 = [e EXCEPT !["Sell"] = c]
      BY <1>4
    <3> HIDE DEF b, a, k, l, e1
    <3> QED BY <1>2, <3>1, RecordUpdate DEF b, a, k, l
  <2>2. IsEngine(e1) /\ e1.orphan_ops = e.orphan_ops
    BY <1>1, <2>1 DEF IsEngine
  <2>3. e1["Sell"] = c /\ e1["Buy"] = e["Buy"]
    BY <2>1
  <2> HIDE DEF e1
  <2>4. ASSUME NEW t \in Side, NEW x \in Prices
        PROVE  Queue(e1, t, x) = IF t = s /\ x = p THEN q ELSE Queue(e, t, x)
    <3>1. CASE t = "Sell"
      BY <1>1, <1>4, <2>3, <3>1 DEF Queue
    <3>2. CASE t = "Buy"
      BY <1>4, <2>3, <3>2 DEF Queue
    <3> QED BY <3>1, <3>2, SideAssumption
  <2> QED BY <2>2, <2>4 DEF OneQueue, WithQueue, c, e1
<1> QED BY <1>3, <1>4, SideAssumption

\* From e to e1 no queue changed.
SameQueues(e, e1) ==
  IsEngine(e1) /\ \A t \in Side, x \in Prices : Queue(e1, t, x) = Queue(e, t, x)

\* A print and an orphan change no queue.
LEMMA PrintOrphanIs ==
  ASSUME NEW e, IsEngine(e), NEW op
  PROVE  /\ SameQueues(e, Printed(e, op)) /\ Printed(e, op).orphan_ops = e.orphan_ops
         /\ SameQueues(e, Orphan(e)) /\ Orphan(e).orphan_ops = e.orphan_ops + 1
<1>1. e = [Buy |-> e.Buy, Sell |-> e.Sell, orphan_ops |-> e.orphan_ops,
           last_price |-> e.last_price]
  BY DEF IsEngine
<1>2. Printed(e, op) = [Buy |-> e.Buy, Sell |-> e.Sell, orphan_ops |-> e.orphan_ops,
                        last_price |-> op.price]
  BY <1>1 DEF Printed
<1>3. Orphan(e) = [Buy |-> e.Buy, Sell |-> e.Sell, orphan_ops |-> e.orphan_ops + 1,
                   last_price |-> e.last_price]
  BY <1>1 DEF Orphan
<1>4. e.orphan_ops \in Nat
  BY DEF IsEngine
<1> DEFINE e1 == Printed(e, op)
           e2 == Orphan(e)
<1>5. IsEngine(e1) /\ e1["Buy"] = e["Buy"] /\ e1["Sell"] = e["Sell"]
  BY <1>2 DEF IsEngine
<1>6. IsEngine(e2) /\ e2["Buy"] = e["Buy"] /\ e2["Sell"] = e["Sell"]
  BY <1>3, <1>4 DEF IsEngine
<1>7. e1.orphan_ops = e.orphan_ops /\ e2.orphan_ops = e.orphan_ops + 1
  BY <1>2, <1>3
<1> HIDE DEF e1, e2
<1>8. SameQueues(e, e1)
  BY <1>5, SideAssumption DEF SameQueues, Queue
<1>9. SameQueues(e, e2)
  BY <1>6, SideAssumption DEF SameQueues, Queue
<1> QED BY <1>7, <1>8, <1>9 DEF e1, e2

\* The best of a ladder's prices is one of them, on either side.
LEMMA BestIs ==
  ASSUME NEW b, Ladder(b), NEW side, NEW ps \in SUBSET DOMAIN b, ps # {}
  PROVE  /\ Best(side, ps) \in ps
         /\ \A x \in ps : IF side = "Buy" THEN x <= Best(side, ps) ELSE x >= Best(side, ps)
<1>1. ps \in SUBSET Nat
  BY PricesAssumption DEF Ladder
<1>2. PICK n \in Nat : \A p \in DOMAIN b : p <= n
  BY DEF Ladder
<1>3. \E p \in ps : \A x \in ps : IF side = "Buy" THEN x <= p ELSE x >= p
  <2>1. CASE side = "Buy"
    <3>1. \E p \in ps : \A x \in ps : x <= p
      BY <1>1, <1>2, GreatestNatural
    <3> QED BY <2>1, <3>1
  <2>2. CASE side # "Buy"
    <3>1. PICK p \in ps : \A x \in ps : p <= x
      BY <1>1, LeastNatural
    <3>2. \A x \in ps : x >= p
      BY <1>1, <3>1
    <3> QED BY <2>2, <3>2
  <2> QED BY <2>1, <2>2
<1> QED BY <1>3 DEF Best

----------------------------------------------------------------------------
(* apply *)

\* Whether the engine finds the order of an operation at the price it names.
LEMMA HasRefIs ==
  ASSUME NEW e, IsEngine(e), NEW s \in Side, NEW p, NEW r
  PROVE  HasRef(e[s], p, r) <=> Has(Queue(e, s, p), r)
<1> DEFINE q == Queue(e, s, p)
<1>1. q \in Seq(Queued) /\ (HasRef(e[s], p, r) <=> IndexOf(q, r) # 0)
  BY SideIs DEF HasRef, Queue
<1> HIDE DEF q
<1>2. Has(q, r) => IndexOf(q, r) # 0
  BY <1>1, IndexOfIs
<1>3. ~ Has(q, r) => IndexOf(q, r) = 0
  BY <1>1, IndexOfIs
<1> QED BY <1>1, <1>2, <1>3 DEF q

\* What apply does when it finds the order at the level p: q1 is the queue
\* there afterwards.
Touches(e, op, p, q1) ==
  LET q == Queue(e, op.side, p)
      i == IndexOf(q, op.ref)
  IN  \/ op.action = "Add" /\ p = op.price /\ op.qty # 0
         /\ q1 = Append(q, [ref |-> op.ref, qty |-> op.qty])
      \/ op.action = "Delete" /\ p = op.price /\ Has(q, op.ref) /\ q1 = RemoveAt(q, i)
      \/ op.action = "Cancel" /\ p = op.price /\ Has(q, op.ref) /\ q1 = Shrink(q, i, op.qty)
      \/ op.action = "Execute" /\ Has(q, op.ref) /\ q1 = Shrink(q, i, op.qty)

\* When it finds nothing to do.
Misses(e, op) ==
  \/ op.action = "Add" /\ op.qty = 0
  \/ op.action \in {"Delete", "Cancel"} /\ ~ Has(Queue(e, op.side, op.price), op.ref)
  \/ op.action = "Execute" /\ \A p \in Prices : ~ Has(Queue(e, op.side, p), op.ref)
  \/ op.action = "Trade"

\* An operation touches the one queue it finds its order in, or none; only
\* then can it be an orphan.
Applied(e, op, e1) ==
  /\ IsEngine(e1)
  /\ \/ /\ \E p \in Prices, q1 \in Seq(Queued) :
             Touches(e, op, p, q1) /\ OneQueue(e, e1, op.side, p, q1)
        /\ e1.orphan_ops = e.orphan_ops
     \/ /\ Misses(e, op) /\ SameQueues(e, e1)
        /\ op.action \in {"Add", "Trade"} => e1.orphan_ops = e.orphan_ops

\* A queue an operation touches is a queue again.
LEMMA TouchesQueue ==
  ASSUME NEW e, IsEngine(e), NEW op \in ResolvedOp, NEW p \in Prices, NEW q1,
         Touches(e, op, p, q1)
  PROVE  q1 \in Seq(Queued) /\ OthersStay(Queue(e, op.side, p), q1, op.ref)
<1> DEFINE q == Queue(e, op.side, p)
           i == IndexOf(q, op.ref)
<1>1. /\ op.side \in Side /\ op.ref \in Refs /\ op.qty \in Nat /\ q \in Seq(Queued)
      /\ op.action \in {"Add", "Execute", "Cancel", "Delete", "Trade"}
  BY SideIs DEF ResolvedOp
<1>2. Has(q, op.ref) => i \in 1 .. Len(q) /\ q[i].ref = op.ref
  BY <1>1, IndexOfIs
<1>3. \/ op.qty # 0 /\ q1 = Append(q, [ref |-> op.ref, qty |-> op.qty])
      \/ Has(q, op.ref) /\ q1 = RemoveAt(q, i)
      \/ Has(q, op.ref) /\ q1 = Shrink(q, i, op.qty)
  BY DEF Touches
<1> HIDE DEF q, i
<1>4. CASE op.qty # 0 /\ q1 = Append(q, [ref |-> op.ref, qty |-> op.qty])
  <2>1. op.qty \in Nat \ {0}
    BY <1>1, <1>4
  <2> QED BY <1>1, <1>4, <2>1, QueueAppend DEF q
<1>5. CASE Has(q, op.ref) /\ q1 = RemoveAt(q, i)
  BY <1>1, <1>2, <1>5, QueueRemove DEF q
<1>6. CASE Has(q, op.ref) /\ q1 = Shrink(q, i, op.qty)
  BY <1>1, <1>2, <1>6, QueueShrink DEF q
<1> QED BY <1>3, <1>4, <1>5, <1>6

\* The engine with shares taken off an order, and with an order removed.
Reduced(e, s, p, r, n) == [e EXCEPT ![s] = reduce_ref(@, p, r, n)]

Removed(e, s, p, r) == [e EXCEPT ![s] = remove_ref(@, p, r)]

\* What reduce_ref and remove_ref do to the engine.
LEMMA ReduceIs ==
  ASSUME NEW e, IsEngine(e), NEW s \in Side, NEW p \in Prices, NEW r \in Refs, NEW n \in Nat,
         Has(Queue(e, s, p), r)
  PROVE  LET q == Queue(e, s, p)
             i == IndexOf(q, r)
             e1 == Reduced(e, s, p, r, n)
             e2 == Removed(e, s, p, r)
         IN  /\ Shrink(q, i, n) \in Seq(Queued) /\ RemoveAt(q, i) \in Seq(Queued)
             /\ OneQueue(e, e1, s, p, Shrink(q, i, n)) /\ e1.orphan_ops = e.orphan_ops
             /\ OneQueue(e, e2, s, p, RemoveAt(q, i)) /\ e2.orphan_ops = e.orphan_ops
<1> DEFINE q == Queue(e, s, p)
           i == IndexOf(q, r)
           a == Shrink(q, i, n)
           b == RemoveAt(q, i)
<1>1. q \in Seq(Queued)
  BY SideIs
<1>2. i \in 1 .. Len(q) /\ q[i].ref = r
  BY <1>1, IndexOfIs
<1>3. a \in Seq(Queued) /\ b \in Seq(Queued)
  <2> HIDE DEF q, i
  <2> QED BY <1>1, <1>2, QueueShrink, QueueRemove
<1>4. reduce_ref(e[s], p, r, n) = SetLevel(e[s], p, a)
  BY DEF reduce_ref, Queue
<1>5. remove_ref(e[s], p, r) = SetLevel(e[s], p, b)
  BY DEF remove_ref, Queue
<1>6. /\ OneQueue(e, WithQueue(e, s, p, a), s, p, a)
      /\ WithQueue(e, s, p, a).orphan_ops = e.orphan_ops
      /\ OneQueue(e, WithQueue(e, s, p, b), s, p, b)
      /\ WithQueue(e, s, p, b).orphan_ops = e.orphan_ops
  <2> HIDE DEF a, b
  <2> QED BY <1>3, SetQueueIs
<1> HIDE DEF a, b
<1>7. Reduced(e, s, p, r, n) = WithQueue(e, s, p, a) /\ Removed(e, s, p, r) = WithQueue(e, s, p, b)
  BY <1>4, <1>5 DEF WithQueue, Reduced, Removed
<1> QED BY <1>3, <1>6, <1>7 DEF a, b

\* A print after the operation changes no more than the last price.
LEMMA ThenPrinted ==
  ASSUME NEW e, NEW op \in ResolvedOp, NEW e1, Applied(e, op, e1)
  PROVE  Applied(e, op, Printed(e1, op)) /\ Printed(e1, op).orphan_ops = e1.orphan_ops
<1>1. IsEngine(e1)
  BY DEF Applied
<1>2. SameQueues(e1, Printed(e1, op)) /\ Printed(e1, op).orphan_ops = e1.orphan_ops
  BY <1>1, PrintOrphanIs
<1> QED BY <1>2 DEF Applied, SameQueues, OneQueue

\* An execution takes its shares off the order at a level that has it.
LEMMA ExecuteIs ==
  ASSUME NEW e, IsEngine(e), NEW op \in ResolvedOp, op.action = "Execute"
  PROVE  Applied(e, op, ApplyExecute(e, op))
<1> DEFINE s == op.side
           r == op.ref
           found == LevelsWith(e[s], r) # {}
           p == ExecuteLevel(e, op)
           e1 == IF found THEN Reduced(e, s, p, r, op.qty) ELSE Orphan(e)
<1>1. s \in Side /\ r \in Refs /\ op.qty \in Nat /\ op.price \in Prices
  BY DEF ResolvedOp
<1>2. ApplyExecute(e, op) = IF op.match # 0 THEN Printed(e1, op) ELSE e1
  BY DEF ApplyExecute, Reduced
<1>3. Ladder(e[s]) /\ \A x : Queue(e, s, x) \in Seq(Queued)
  BY <1>1, SideIs
<1>4. \A x : Has(Queue(e, s, x), r) <=> x \in LevelsWith(e[s], r)
  <2> SUFFICES ASSUME NEW x PROVE Has(Queue(e, s, x), r) <=> x \in LevelsWith(e[s], r)
    OBVIOUS
  <2>1. HasRef(e[s], x, r) <=> Has(Queue(e, s, x), r)
    BY <1>1, HasRefIs
  <2>2. Has(Queue(e, s, x), r) => Queue(e, s, x) # << >>
    BY DEF Has
  <2>3. Queue(e, s, x) # << >> <=> x \in DOMAIN e[s]
    BY <1>1, SideIs
  <2> QED BY <2>1, <2>2, <2>3 DEF LevelsWith
<1>5. CASE found
  <2>1. p \in LevelsWith(e[s], r)
    <3>1. CASE HasRef(e[s], op.price, r)
      BY <1>1, <1>4, <3>1, HasRefIs DEF ExecuteLevel
    <3>2. CASE ~ HasRef(e[s], op.price, r)
      <4>1. p = Best(s, LevelsWith(e[s], r))
        BY <3>2 DEF ExecuteLevel
      <4>2. LevelsWith(e[s], r) \in SUBSET DOMAIN e[s]
        BY DEF LevelsWith
      <4> QED BY <1>3, <1>5, <4>1, <4>2, BestIs
    <3> QED BY <3>1, <3>2
  <2>2. p \in Prices /\ Has(Queue(e, s, p), r)
    BY <1>3, <1>4, <2>1 DEF LevelsWith, Ladder
  <2> DEFINE q == Queue(e, s, p)
             q1 == Shrink(q, IndexOf(q, r), op.qty)
  <2>3. e1 = Reduced(e, s, p, r, op.qty)
    BY <1>5
  <2> HIDE DEF p, e1
  <2>4. /\ q1 \in Seq(Queued) /\ OneQueue(e, e1, s, p, q1) /\ e1.orphan_ops = e.orphan_ops
    BY <1>1, <2>2, <2>3, ReduceIs
  <2>5. Touches(e, op, p, q1)
    BY <2>2 DEF Touches
  <2>6. Applied(e, op, e1)
    <3> HIDE DEF q1
    <3> QED BY <2>2, <2>4, <2>5 DEF Applied, OneQueue
  <2> QED BY <1>2, <2>6, ThenPrinted
<1>6. CASE ~ found
  <2>1. e1 = Orphan(e)
    BY <1>6
  <2>2. Misses(e, op)
    BY <1>4, <1>6 DEF Misses
  <2> HIDE DEF e1
  <2>3. SameQueues(e, e1)
    BY <2>1, PrintOrphanIs
  <2>4. Applied(e, op, e1)
    BY <2>2, <2>3 DEF Applied, SameQueues, Misses
  <2> QED BY <1>2, <2>4, ThenPrinted
<1> QED BY <1>5, <1>6

\* Every operation touches the one queue it finds its order in, or none.
LEMMA ApplyIs ==
  ASSUME NEW e, IsEngine(e), NEW op \in ResolvedOp
  PROVE  Applied(e, op, apply(e, op))
<1> DEFINE s == op.side
           r == op.ref
           p == op.price
           n == op.qty
           q == Queue(e, s, p)
           e1 == apply(e, op)
<1>1. /\ s \in Side /\ r \in Refs /\ n \in Nat /\ p \in Prices
      /\ op.action \in {"Add", "Execute", "Cancel", "Delete", "Trade"}
  BY DEF ResolvedOp
<1>2. q \in Seq(Queued)
  BY <1>1, SideIs
<1>3. HasRef(e[s], p, r) <=> Has(q, r)
  BY <1>1, HasRefIs
<1>4. CASE op.action = "Add"
  <2>1. e1 = [e EXCEPT ![s] = rest_order(@, p, r, n)]
    BY <1>4 DEF apply
  <2>2. CASE n = 0
    <3>1. rest_order(e[s], p, r, n) = e[s]
      BY <2>2 DEF rest_order
    <3>2. e1 = e
      <4>1. e1 = [e EXCEPT ![s] = e[s]]
        BY <2>1, <3>1
      <4>2. e = [x \in DOMAIN e |-> e[x]]
        BY DEF IsEngine
      <4> QED BY <4>1, <4>2
    <3> QED BY <1>4, <2>2, <3>2 DEF Applied, Misses, SameQueues
  <2>3. CASE n # 0
    <3> DEFINE q1 == Append(q, [ref |-> r, qty |-> n])
    <3>1. e1 = WithQueue(e, s, p, q1)
      BY <2>1, <2>3 DEF rest_order, WithQueue, Queue
    <3>2. Touches(e, op, p, q1)
      BY <1>4, <2>3 DEF Touches
    <3>3. q1 \in Seq(Queued)
      <4>1. [ref |-> r, qty |-> n] \in Queued
        BY <1>1, <2>3 DEF Queued
      <4> QED BY <1>2, <4>1
    <3> HIDE DEF q1, e1
    <3>4. OneQueue(e, e1, s, p, q1) /\ e1.orphan_ops = e.orphan_ops
      BY <1>1, <3>1, <3>3, SetQueueIs
    <3> QED BY <1>1, <3>2, <3>3, <3>4 DEF Applied, OneQueue, e1
  <2> QED BY <2>2, <2>3
<1>5. CASE op.action = "Execute"
  BY <1>5, ExecuteIs DEF apply
<1>6. CASE op.action = "Cancel"
  <2>1. e1 = IF Has(q, r) THEN Reduced(e, s, p, r, n) ELSE Orphan(e)
    BY <1>3, <1>6 DEF apply, Reduced
  <2>2. CASE Has(q, r)
    <3> DEFINE q1 == Shrink(q, IndexOf(q, r), n)
    <3>1. e1 = Reduced(e, s, p, r, n)
      BY <2>1, <2>2
    <3> HIDE DEF e1
    <3>2. q1 \in Seq(Queued) /\ OneQueue(e, e1, s, p, q1) /\ e1.orphan_ops = e.orphan_ops
      BY <1>1, <2>2, <3>1, ReduceIs
    <3>3. Touches(e, op, p, q1)
      BY <1>6, <2>2 DEF Touches
    <3> HIDE DEF q1
    <3> QED BY <1>1, <3>2, <3>3 DEF Applied, OneQueue, e1
  <2>3. CASE ~ Has(q, r)
    <3>1. Misses(e, op)
      BY <1>6, <2>3 DEF Misses
    <3> HIDE DEF e1
    <3>2. SameQueues(e, e1)
      BY <2>1, <2>3, PrintOrphanIs
    <3> QED BY <1>6, <3>1, <3>2 DEF Applied, SameQueues, e1
  <2> QED BY <2>2, <2>3
<1>7. CASE op.action = "Delete"
  <2>1. e1 = IF Has(q, r) THEN Removed(e, s, p, r) ELSE Orphan(e)
    BY <1>3, <1>7 DEF apply, Removed
  <2>2. CASE Has(q, r)
    <3> DEFINE q1 == RemoveAt(q, IndexOf(q, r))
    <3>1. e1 = Removed(e, s, p, r)
      BY <2>1, <2>2
    <3> HIDE DEF e1
    <3>2. q1 \in Seq(Queued) /\ OneQueue(e, e1, s, p, q1) /\ e1.orphan_ops = e.orphan_ops
      BY <1>1, <2>2, <3>1, ReduceIs
    <3>3. Touches(e, op, p, q1)
      BY <1>7, <2>2 DEF Touches
    <3> HIDE DEF q1
    <3> QED BY <1>1, <3>2, <3>3 DEF Applied, OneQueue, e1
  <2>3. CASE ~ Has(q, r)
    <3>1. Misses(e, op)
      BY <1>7, <2>3 DEF Misses
    <3> HIDE DEF e1
    <3>2. SameQueues(e, e1)
      BY <2>1, <2>3, PrintOrphanIs
    <3> QED BY <1>7, <3>1, <3>2 DEF Applied, SameQueues, e1
  <2> QED BY <2>2, <2>3
<1>8. CASE op.action = "Trade"
  <2>1. e1 = Printed(e, op) /\ Misses(e, op)
    BY <1>8 DEF apply, Misses
  <2>2. SameQueues(e, Printed(e, op)) /\ Printed(e, op).orphan_ops = e.orphan_ops
    BY PrintOrphanIs
  <2> QED BY <2>1, <2>2 DEF Applied, SameQueues
<1> QED BY <1>1, <1>4, <1>5, <1>6, <1>7, <1>8

----------------------------------------------------------------------------
(* What an operation means for each reference *)

\* In the engine r has the order o, once and nowhere else; or nothing at all.
Keeps(e, r, o, there) ==
  \A s \in Side, p \in Prices :
    /\ \A n \in Nat : Holds(Queue(e, s, p), r, n)
                       <=> (there /\ s = o.side /\ p = o.price /\ n = o.qty)
    /\ Single(Queue(e, s, p), r)

\* No order passes another; a new one is behind those that are there.
KeepsOrder(e, e1, op) ==
  \A s \in Side, p \in Prices, x, y \in Refs :
    Before(Queue(e1, s, p), x, y) =>
      \/ Before(Queue(e, s, p), x, y)
      \/ op.action = "Add" /\ y = op.ref /\ Has(Queue(e, s, p), x)

\* An operation changes nothing for the references it does not name.
LEMMA ApplyOthers ==
  ASSUME NEW e, IsEngine(e), NEW op \in ResolvedOp
  PROVE  /\ IsEngine(apply(e, op)) /\ KeepsOrder(e, apply(e, op), op)
         /\ \A s \in Side, p \in Prices :
              /\ OthersStay(Queue(e, s, p), Queue(apply(e, op), s, p), op.ref)
              /\ op.action # "Add" => NoneGrows(Queue(e, s, p), Queue(apply(e, op), s, p))
<1> DEFINE e1 == apply(e, op)
<1>1. Applied(e, op, e1)
  BY ApplyIs
<1>2. op.side \in Side /\ op.ref \in Refs /\ op.qty \in Nat
  BY DEF ResolvedOp
<1>3. \A q : OthersStay(q, q, op.ref) /\ NoneGrows(q, q)
  BY DEF OthersStay, NoneGrows
<1> HIDE DEF e1
<1>4. CASE SameQueues(e, e1)
  BY <1>3, <1>4 DEF SameQueues, KeepsOrder, e1
<1>5. ASSUME NEW p \in Prices, NEW q1 \in Seq(Queued), Touches(e, op, p, q1),
             OneQueue(e, e1, op.side, p, q1)
      PROVE  /\ IsEngine(e1) /\ KeepsOrder(e, e1, op)
             /\ \A s \in Side, x \in Prices :
                  /\ OthersStay(Queue(e, s, x), Queue(e1, s, x), op.ref)
                  /\ op.action # "Add" => NoneGrows(Queue(e, s, x), Queue(e1, s, x))
  <2> DEFINE q == Queue(e, op.side, p)
             i == IndexOf(q, op.ref)
  <2>1. q \in Seq(Queued)
    BY <1>2, SideIs
  <2>2. OthersStay(q, q1, op.ref)
    BY <1>5, TouchesQueue
  <2>3. Has(q, op.ref) => i \in 1 .. Len(q) /\ q[i].ref = op.ref
    BY <2>1, IndexOfIs
  <2>4. /\ \A x, y \in Refs : Before(q1, x, y) =>
             Before(q, x, y) \/ (op.action = "Add" /\ y = op.ref /\ Has(q, x))
        /\ op.action # "Add" => NoneGrows(q, q1)
    <3>1. \/ op.action = "Add" /\ op.qty # 0 /\ q1 = Append(q, [ref |-> op.ref, qty |-> op.qty])
          \/ Has(q, op.ref) /\ q1 = RemoveAt(q, i)
          \/ Has(q, op.ref) /\ q1 = Shrink(q, i, op.qty)
      BY <1>5 DEF Touches
    <3> HIDE DEF q, i
    <3>2. CASE op.action = "Add" /\ op.qty # 0 /\ q1 = Append(q, [ref |-> op.ref, qty |-> op.qty])
      <4>1. op.qty \in Nat \ {0}
        BY <1>2, <3>2
      <4>2. \A x \in Refs : Before(q1, x, op.ref) => Has(q, x)
        BY <1>2, <2>1, <3>2, <4>1, QueueAppend
      <4> QED BY <2>2, <3>2, <4>2 DEF OthersStay
    <3>3. CASE Has(q, op.ref) /\ q1 = RemoveAt(q, i)
      BY <1>2, <2>1, <2>3, <3>3, QueueRemove
    <3>4. CASE Has(q, op.ref) /\ q1 = Shrink(q, i, op.qty)
      BY <1>2, <2>1, <2>3, <3>4, QueueShrink
    <3> QED BY <3>1, <3>2, <3>3, <3>4
  <2> HIDE DEF q, i
  <2>5. \A s \in Side, x \in Prices :
          \/ Queue(e1, s, x) = Queue(e, s, x)
          \/ Queue(e, s, x) = q /\ Queue(e1, s, x) = q1
    BY <1>5 DEF OneQueue, q
  <2>6. KeepsOrder(e, e1, op)
    BY <2>4, <2>5 DEF KeepsOrder
  <2>7. \A s \in Side, x \in Prices :
          /\ OthersStay(Queue(e, s, x), Queue(e1, s, x), op.ref)
          /\ op.action # "Add" => NoneGrows(Queue(e, s, x), Queue(e1, s, x))
    BY <1>3, <2>2, <2>4, <2>5
  <2> QED BY <1>5, <2>6, <2>7 DEF OneQueue
<1> QED BY <1>1, <1>4, <1>5 DEF Applied, e1

\* So what it keeps for them it goes on keeping.
LEMMA KeepsOthers ==
  ASSUME NEW e, IsEngine(e), NEW op \in ResolvedOp, NEW r \in Refs, r # op.ref,
         NEW o, NEW there, Keeps(e, r, o, there)
  PROVE  Keeps(apply(e, op), r, o, there)
BY ApplyOthers DEF Keeps, OthersStay

\* Where an order is held, and where none is.
LEMMA KeepsIs ==
  ASSUME NEW e, IsEngine(e), NEW r, NEW o, NEW there \in BOOLEAN, Keeps(e, r, o, there),
         NEW s \in Side, NEW p \in Prices
  PROVE  /\ Has(Queue(e, s, p), r) => there /\ s = o.side /\ p = o.price
         /\ there /\ s = o.side /\ p = o.price /\ o.qty \in Nat => Has(Queue(e, s, p), r)
         /\ \A i \in 1 .. Len(Queue(e, s, p)) :
              Queue(e, s, p)[i].ref = r => Queue(e, s, p)[i].qty = o.qty
<1> DEFINE q == Queue(e, s, p)
<1>1. q \in Seq(Queued)
  BY SideIs
<1>2. \A n \in Nat : Holds(q, r, n) <=> (there /\ s = o.side /\ p = o.price /\ n = o.qty)
  BY DEF Keeps
<1>3. \A i \in 1 .. Len(q) : q[i].qty \in Nat
  <2>1. \A i \in 1 .. Len(q) : q[i] \in Queued
    BY <1>1
  <2> QED BY <2>1 DEF Queued
<1>4. \A i \in 1 .. Len(q) : q[i].ref = r => Holds(q, r, q[i].qty)
  BY DEF Holds
<1>5. Has(q, r) <=> \E n \in Nat : Holds(q, r, n)
  BY <1>1, HasIsHolds
<1> HIDE DEF q
<1> QED BY <1>2, <1>3, <1>4, <1>5 DEF q

\* An Add rests its order, if it has shares and the reference is free.
LEMMA OwnAdd ==
  ASSUME NEW e, IsEngine(e), NEW op \in ResolvedOp, op.action = "Add", NEW o,
         Keeps(e, op.ref, o, FALSE)
  PROVE  /\ Keeps(apply(e, op), op.ref, op, op.qty # 0)
         /\ apply(e, op).orphan_ops = e.orphan_ops
<1> DEFINE e1 == apply(e, op)
           r == op.ref
<1>1. Applied(e, op, e1)
  BY ApplyIs
<1>2. op.side \in Side /\ r \in Refs /\ op.qty \in Nat /\ op.price \in Prices
  BY DEF ResolvedOp
<1>3. \A s \in Side, p \in Prices : ~ Has(Queue(e, s, p), r)
  BY KeepsIs
<1>4. \A s \in Side, p \in Prices : /\ \A n \in Nat : ~ Holds(Queue(e, s, p), r, n)
                                    /\ Single(Queue(e, s, p), r)
  BY DEF Keeps
<1> HIDE DEF e1, r
<1>5. CASE op.qty = 0
  <2>1. SameQueues(e, e1) /\ e1.orphan_ops = e.orphan_ops
    BY <1>1, <1>5 DEF Applied, Touches
  <2> QED BY <1>4, <1>5, <2>1 DEF Keeps, SameQueues, e1, r
<1>6. CASE op.qty # 0
  <2> DEFINE q == Queue(e, op.side, op.price)
             q1 == Append(q, [ref |-> r, qty |-> op.qty])
  <2>1. OneQueue(e, e1, op.side, op.price, q1) /\ e1.orphan_ops = e.orphan_ops
    BY <1>1, <1>6 DEF Applied, Touches, Misses, r
  <2>2. q \in Seq(Queued) /\ op.qty \in Nat \ {0}
    BY <1>2, <1>6, SideIs
  <2>3. ~ Has(q, r) /\ \A n \in Nat : ~ Holds(q, r, n)
    BY <1>2, <1>3, <1>4
  <2>4. Single(q1, r) /\ \A k \in Nat : Holds(q1, r, k) <=> k = op.qty
    <3> HIDE DEF q
    <3> QED BY <1>2, <2>2, <2>3, QueueAppend
  <2>5. \A s \in Side, p \in Prices :
          Queue(e1, s, p) = IF s = op.side /\ p = op.price THEN q1 ELSE Queue(e, s, p)
    BY <2>1 DEF OneQueue
  <2> HIDE DEF q, q1
  <2>6. Keeps(e1, r, op, op.qty # 0)
    BY <1>4, <1>6, <2>4, <2>5 DEF Keeps
  <2> QED BY <2>1, <2>6 DEF e1, r
<1> QED BY <1>5, <1>6

\* A Delete removes the order, wherever it is in its queue.
LEMMA OwnDelete ==
  ASSUME NEW e, IsEngine(e), NEW op \in ResolvedOp, op.action = "Delete",
         NEW o, NEW there \in BOOLEAN, Keeps(e, op.ref, o, there),
         there => o.side = op.side /\ o.price = op.price /\ o.qty \in Nat, NEW o1
  PROVE  /\ Keeps(apply(e, op), op.ref, o1, FALSE)
         /\ there => apply(e, op).orphan_ops = e.orphan_ops
<1> DEFINE e1 == apply(e, op)
           r == op.ref
           q == Queue(e, op.side, op.price)
<1>1. Applied(e, op, e1)
  BY ApplyIs
<1>2. op.side \in Side /\ r \in Refs /\ op.price \in Prices
  BY DEF ResolvedOp
<1>3. /\ Has(q, r) <=> there
      /\ q \in Seq(Queued) /\ Single(q, r)
  <2>1. Has(q, r) => there
    BY <1>2, KeepsIs
  <2>2. ASSUME there PROVE Has(q, r)
    <3>1. Holds(q, r, o.qty)
      BY <1>2, <2>2 DEF Keeps
    <3> QED BY <3>1 DEF Holds, Has
  <2>3. q \in Seq(Queued)
    BY <1>2, SideIs
  <2>4. Single(q, r)
    BY <1>2 DEF Keeps
  <2> QED BY <2>1, <2>2, <2>3, <2>4
<1>4. \A s \in Side, p \in Prices :
        /\ Single(Queue(e, s, p), r)
        /\ \A n \in Nat : Holds(Queue(e, s, p), r, n)
                            <=> (there /\ s = o.side /\ p = o.price /\ n = o.qty)
  BY DEF Keeps
<1> HIDE DEF e1, r, q
<1>5. CASE there
  <2> DEFINE i == IndexOf(q, r)
             q1 == RemoveAt(q, i)
  <2>1. ~ Misses(e, op)
    BY <1>3, <1>5 DEF Misses, q, r
  <2>2. OneQueue(e, e1, op.side, op.price, q1) /\ e1.orphan_ops = e.orphan_ops
    BY <1>1, <2>1 DEF Applied, Touches, q, r
  <2>3. i \in 1 .. Len(q) /\ q[i].ref = r
    BY <1>3, <1>5, IndexOfIs
  <2>4. q1 \in Seq(Queued) /\ ~ Has(q1, r)
    <3> HIDE DEF i
    <3> QED BY <1>2, <1>3, <2>3, QueueRemove
  <2>5. \A s \in Side, p \in Prices :
          Queue(e1, s, p) = IF s = op.side /\ p = op.price THEN q1 ELSE Queue(e, s, p)
    BY <2>2 DEF OneQueue
  <2> HIDE DEF i, q1
  <2>6. Single(q1, r) /\ \A n \in Nat : ~ Holds(q1, r, n)
    BY <2>4 DEF Has, Single, Holds
  <2>7. Keeps(e1, r, o1, FALSE)
    BY <1>4, <1>5, <2>5, <2>6 DEF Keeps
  <2> QED BY <2>2, <2>7 DEF e1, r
<1>6. CASE ~ there
  <2>1. \A p \in Prices : \A q1 : ~ Touches(e, op, p, q1)
    BY <1>3, <1>6 DEF Touches, q, r
  <2>2. SameQueues(e, e1)
    BY <1>1, <2>1 DEF Applied
  <2> QED BY <1>4, <1>6, <2>2 DEF Keeps, SameQueues, e1, r
<1> QED BY <1>5, <1>6

\* An execution or a cancel takes its shares off the order, also when it names
\* a price the order does not rest at.
LEMMA OwnReduce ==
  ASSUME NEW e, IsEngine(e), NEW op \in ResolvedOp, op.action \in {"Cancel", "Execute"},
         NEW o, NEW there \in BOOLEAN, Keeps(e, op.ref, o, there),
         o.side = op.side, o.price \in Prices, o.qty \in Nat,
         op.action = "Cancel" => op.price = o.price,
         NEW o1, o1.side = o.side, o1.price = o.price, o1.qty = o.qty - op.qty
  PROVE  /\ Keeps(apply(e, op), op.ref, o1, there /\ op.qty < o.qty)
         /\ there => apply(e, op).orphan_ops = e.orphan_ops
<1> DEFINE e1 == apply(e, op)
           r == op.ref
           q == Queue(e, op.side, o.price)
<1>1. Applied(e, op, e1)
  BY ApplyIs
<1>2. op.side \in Side /\ r \in Refs /\ op.price \in Prices /\ op.qty \in Nat
  BY DEF ResolvedOp
<1>3. /\ Has(q, r) <=> there
      /\ q \in Seq(Queued) /\ Single(q, r)
      /\ \A i \in 1 .. Len(q) : q[i].ref = r => q[i].qty = o.qty
  <2>1. Has(q, r) => there
    BY <1>2, KeepsIs
  <2>2. ASSUME there PROVE Has(q, r)
    <3>1. Holds(q, r, o.qty)
      BY <1>2, <2>2 DEF Keeps
    <3> QED BY <3>1 DEF Holds, Has
  <2>3. q \in Seq(Queued)
    BY <1>2, SideIs
  <2>4. Single(q, r)
    BY <1>2 DEF Keeps
  <2>5. \A i \in 1 .. Len(q) : q[i].ref = r => q[i].qty = o.qty
    BY <1>2, KeepsIs
  <2> QED BY <2>1, <2>2, <2>3, <2>4, <2>5
<1>4. \A s \in Side, p \in Prices :
        /\ Single(Queue(e, s, p), r)
        /\ \A n \in Nat : Holds(Queue(e, s, p), r, n)
                            <=> (there /\ s = o.side /\ p = o.price /\ n = o.qty)
  BY DEF Keeps
<1>5. \A p \in Prices : Has(Queue(e, op.side, p), r) => p = o.price /\ there
  BY <1>2, KeepsIs
<1> HIDE DEF e1, r, q
<1>6. CASE there
  <2> DEFINE i == IndexOf(q, r)
             q1 == Shrink(q, i, op.qty)
  <2>1. ~ Misses(e, op)
    BY <1>3, <1>6 DEF Misses, q, r
  <2>2. OneQueue(e, e1, op.side, o.price, q1) /\ e1.orphan_ops = e.orphan_ops
    BY <1>1, <1>5, <2>1 DEF Applied, Touches, q, r
  <2>3. i \in 1 .. Len(q) /\ q[i].ref = r /\ q[i].qty = o.qty
    BY <1>3, <1>6, IndexOfIs
  <2>4. /\ Single(q1, r)
        /\ \A k \in Nat : Holds(q1, r, k) <=> (op.qty < o.qty /\ k = o.qty - op.qty)
    <3> HIDE DEF i
    <3>1. \A k \in Nat : /\ Single(q1, r)
                         /\ Holds(q1, r, k) <=> (op.qty < q[i].qty /\ k = q[i].qty - op.qty)
      BY <1>2, <1>3, <2>3, ShrinkOwn
    <3> HIDE DEF q1
    <3>2. Single(q1, r)
      BY <1>2, <3>1
    <3>3. \A k \in Nat : Holds(q1, r, k) <=> (op.qty < o.qty /\ k = o.qty - op.qty)
      BY <2>3, <3>1
    <3> QED BY <3>2, <3>3
  <2>5. \A s \in Side, p \in Prices :
          Queue(e1, s, p) = IF s = op.side /\ p = o.price THEN q1 ELSE Queue(e, s, p)
    BY <2>2 DEF OneQueue
  <2> HIDE DEF i, q1
  <2>6. Keeps(e1, r, o1, there /\ op.qty < o.qty)
    BY <1>4, <1>6, <2>4, <2>5 DEF Keeps
  <2> QED BY <2>2, <2>6 DEF e1, r
<1>7. CASE ~ there
  <2>1. \A p \in Prices : \A q1 : ~ Touches(e, op, p, q1)
    BY <1>5, <1>7 DEF Touches, r
  <2>2. SameQueues(e, e1)
    BY <1>1, <2>1 DEF Applied
  <2> QED BY <1>4, <1>7, <2>2 DEF Keeps, SameQueues, e1, r
<1> QED BY <1>6, <1>7

\* An Add of some shares brings its order and nothing else, whatever the engine
\* has of its reference.
LEMMA AddHolds ==
  ASSUME NEW e, IsEngine(e), NEW op \in ResolvedOp, op.action = "Add", op.qty # 0
  PROVE  /\ \A s \in Side, p \in Prices, r \in Refs, n \in Nat :
              Holds(Queue(apply(e, op), s, p), r, n)
                <=> \/ Holds(Queue(e, s, p), r, n)
                    \/ r = op.ref /\ s = op.side /\ p = op.price /\ n = op.qty
         /\ apply(e, op).orphan_ops = e.orphan_ops
<1> DEFINE e1 == apply(e, op)
           q == Queue(e, op.side, op.price)
           q1 == Append(q, [ref |-> op.ref, qty |-> op.qty])
<1>1. Applied(e, op, e1)
  BY ApplyIs
<1>2. op.side \in Side /\ op.ref \in Refs /\ op.qty \in Nat \ {0} /\ op.price \in Prices
  BY DEF ResolvedOp
<1>3. q \in Seq(Queued)
  BY <1>2, SideIs
<1> HIDE DEF e1
<1>4. OneQueue(e, e1, op.side, op.price, q1) /\ e1.orphan_ops = e.orphan_ops
  BY <1>1, <1>2 DEF Applied, Touches, Misses
<1>5. /\ OthersStay(q, q1, op.ref)
      /\ \A k \in Nat : Holds(q1, op.ref, k) <=> (Holds(q, op.ref, k) \/ k = op.qty)
  <2> HIDE DEF q
  <2> QED BY <1>2, <1>3, QueueAppend
<1> HIDE DEF q1
<1>6. \A s \in Side, p \in Prices :
        Queue(e1, s, p) = IF s = op.side /\ p = op.price THEN q1 ELSE Queue(e, s, p)
  BY <1>4 DEF OneQueue
<1>7. \A r \in Refs, n \in Nat :
        Holds(q1, r, n) <=> Holds(q, r, n) \/ (r = op.ref /\ n = op.qty)
  <2> HIDE DEF q
  <2> QED BY <1>5 DEF OthersStay
<1>8. ASSUME NEW s \in Side, NEW p \in Prices, NEW r \in Refs, NEW n \in Nat
      PROVE  Holds(Queue(e1, s, p), r, n)
               <=> \/ Holds(Queue(e, s, p), r, n)
                   \/ r = op.ref /\ s = op.side /\ p = op.price /\ n = op.qty
  <2>1. CASE s = op.side /\ p = op.price
    <3>1. Queue(e1, s, p) = q1 /\ Queue(e, s, p) = q
      BY <1>6, <2>1
    <3> QED BY <1>7, <2>1, <3>1
  <2>2. CASE ~ (s = op.side /\ p = op.price)
    <3>1. Queue(e1, s, p) = Queue(e, s, p)
      BY <1>6, <2>2
    <3> QED BY <2>2, <3>1
  <2> QED BY <2>1, <2>2
<1> QED BY <1>4, <1>8 DEF e1

\* An operation that finds its reference where it looks is no orphan.
LEMMA FoundIsNoOrphan ==
  ASSUME NEW e, IsEngine(e), NEW op \in ResolvedOp, op.action \in {"Delete", "Cancel", "Execute"},
         NEW p \in Prices, Has(Queue(e, op.side, p), op.ref),
         op.action # "Execute" => p = op.price
  PROVE  /\ apply(e, op).orphan_ops = e.orphan_ops
         /\ \E x \in Prices, q1 \in Seq(Queued) :
              Touches(e, op, x, q1) /\ OneQueue(e, apply(e, op), op.side, x, q1)
<1> DEFINE e1 == apply(e, op)
<1>1. Applied(e, op, e1)
  BY ApplyIs
<1> HIDE DEF e1
<1>2. ~ Misses(e, op)
  BY DEF Misses
<1>3. /\ e1.orphan_ops = e.orphan_ops
      /\ \E x \in Prices, q1 \in Seq(Queued) :
           Touches(e, op, x, q1) /\ OneQueue(e, e1, op.side, x, q1)
  BY <1>1, <1>2 DEF Applied
<1> QED BY <1>3 DEF e1

\* An order with more shares than a cancel or an execution takes is still there
\* with the rest of them or more, whichever order of the reference it finds.
LEMMA TakeLeaves ==
  ASSUME NEW e, IsEngine(e), NEW op \in ResolvedOp, op.action \in {"Cancel", "Execute"},
         NEW p \in Prices, op.action = "Cancel" => op.price = p,
         NEW k \in Nat, Holds(Queue(e, op.side, p), op.ref, k)
  PROVE  /\ apply(e, op).orphan_ops = e.orphan_ops
         /\ op.qty < k => \E h \in Nat : /\ h >= k - op.qty
                                         /\ Holds(Queue(apply(e, op), op.side, p), op.ref, h)
<1> DEFINE e1 == apply(e, op)
           r == op.ref
           q == Queue(e, op.side, p)
<1>1. op.side \in Side /\ r \in Refs /\ op.qty \in Nat
  BY DEF ResolvedOp
<1>2. Has(q, r)
  BY DEF Holds, Has
<1>3. /\ e1.orphan_ops = e.orphan_ops
      /\ \E x \in Prices, q1 \in Seq(Queued) :
           Touches(e, op, x, q1) /\ OneQueue(e, e1, op.side, x, q1)
  BY <1>2, FoundIsNoOrphan
<1> HIDE DEF e1
<1>4. PICK x \in Prices, q1 \in Seq(Queued) :
        Touches(e, op, x, q1) /\ OneQueue(e, e1, op.side, x, q1)
  BY <1>3
<1>5. Queue(e1, op.side, p) = IF p = x THEN q1 ELSE q
  BY <1>1, <1>4 DEF OneQueue
<1>6. ASSUME op.qty < k PROVE \E h \in Nat : h >= k - op.qty /\ Holds(Queue(e1, op.side, p), r, h)
  <2>1. CASE p = x
    <3> DEFINE i == IndexOf(q, r)
    <3>1. q1 = Shrink(q, i, op.qty)
      BY <1>4, <2>1 DEF Touches
    <3>2. q \in Seq(Queued)
      BY <1>1, SideIs
    <3>3. i \in 1 .. Len(q) /\ q[i].ref = r
      BY <1>2, <3>2, IndexOfIs
    <3>4. Holds(q, r, k)
      OBVIOUS
    <3> HIDE DEF i, q, r
    <3>5. \E h \in Nat : h >= k - op.qty /\ Holds(q1, r, h)
      BY <1>1, <1>6, <3>1, <3>2, <3>3, <3>4, ShrinkLeaves
    <3> QED BY <1>5, <2>1, <3>5
  <2>2. CASE p # x
    <3>1. k >= k - op.qty
      BY <1>1
    <3> QED BY <1>5, <2>2, <3>1
  <2> QED BY <2>1, <2>2
<1> QED BY <1>3, <1>6 DEF e1, r

----------------------------------------------------------------------------
(* What a message resolves into *)

\* The values of the reference table.
Booked(b) ==
  /\ b \in [Refs -> RestingOrder \cup {None}]
  /\ \A r \in Refs : b[r] # None => b[r].ref = r

\* What is left of an order without n of its shares.
Left(o, n) == IF o.qty = n THEN None ELSE [o EXCEPT !.qty = o.qty - n]

\* A message that resolves into nothing.
ToNothing == ops' = << >> /\ book' = book

\* A trade that is not of the book.
ToTrade == /\ book' = book
           /\ \E op \in ResolvedOp : op.action = "Trade" /\ ops' = <<op>>

\* A new order o.
ToAdd(o) == book' = [book EXCEPT ![o.ref] = o] /\ ops' = <<AddOp(o)>>

\* The operation op takes shares off the order it names.
Takes(b, op) ==
  /\ op.action \in {"Execute", "Cancel"} /\ b[op.ref] # None
  /\ op.side = b[op.ref].side /\ op.qty <= b[op.ref].qty
  /\ op.action = "Cancel" => op.price = b[op.ref].price

ToReduce(op) ==
  Takes(book, op) /\ ops' = <<op>> /\ book' = [book EXCEPT ![op.ref] = Left(@, op.qty)]

\* The operation op removes the order it names.
Drops(b, op) ==
  /\ op.action = "Delete" /\ b[op.ref] # None
  /\ op.side = b[op.ref].side /\ op.price = b[op.ref].price

ToDelete(op) == Drops(book, op) /\ ops' = <<op>> /\ book' = [book EXCEPT ![op.ref] = None]

\* It removes one order and brings o, of another or the same reference.
ToReplace(op, o) ==
  /\ Drops(book, op) /\ ops' = <<op, AddOp(o)>>
  /\ book' = [[book EXCEPT ![op.ref] = None] EXCEPT ![o.ref] = o]

\* The operation of a new order has its fields.
LEMMA AddOpIs ==
  ASSUME NEW o \in RestingOrder
  PROVE  /\ AddOp(o) \in ResolvedOp /\ AddOp(o).action = "Add" /\ AddOp(o).ref = o.ref
         /\ AddOp(o).side = o.side /\ AddOp(o).price = o.price /\ AddOp(o).qty = o.qty
BY DEF AddOp, Op, RestingOrder, ResolvedOp

\* A message that is not understood does nothing; every other one brings,
\* reduces, removes or replaces an order, or is a trade.
LEMMA ResolveIs ==
  ASSUME Booked(book), NEW m \in Message, resolve(m)
  PROVE  \/ ToNothing
         \/ ToTrade
         \/ \E o \in RestingOrder : m.action = "Add" /\ m.ref = o.ref /\ ToAdd(o)
         \/ \E op \in ResolvedOp : op.ref = m.ref /\ ToReduce(op)
         \/ \E op \in ResolvedOp : op.ref = m.ref /\ ToDelete(op)
         \/ \E op \in ResolvedOp, o \in RestingOrder :
              /\ m.action = "Replace" /\ op.ref = m.ref /\ o.ref = m.new_ref
              /\ ToReplace(op, o)
<1>1. CASE m \in AddMsg
  <2>1. Book!Add(m) \/ Book!NoRoom(m)
    BY <1>1 DEF resolve, AddMsg
  <2>2. AddedOrder(m) \in RestingOrder /\ AddedOrder(m).ref = m.ref /\ m.action = "Add"
    BY <1>1, QtysAssumption DEF AddedOrder, RestingOrder, AddMsg
  <2>3. CASE Book!Add(m)
    <3>1. ToAdd(AddedOrder(m))
      BY <2>2, <2>3 DEF ToAdd, Book!Add, Book!AddedOrder, Book!AddOp, Book!Op,
                        AddedOrder, AddOp, Op
    <3> QED BY <2>2, <3>1
  <2> QED BY <2>1, <2>3 DEF Book!NoRoom, ToNothing
<1>2. CASE m \in ExecuteMsg
  <2>1. Book!Execute(m) \/ Book!Unresolved(m)
    BY <1>2 DEF resolve, ExecuteMsg
  <2>2. CASE Book!Execute(m)
    <3> DEFINE ro == book[m.ref]
               op == ExecuteOp(m, ro)
    <3>1. ro \in RestingOrder /\ ro # None /\ m.ref \in Refs
      BY <1>2, <2>2 DEF Booked, Book!Execute, ExecuteMsg
    <3>2. Taken(m, ro) \in Nat /\ Taken(m, ro) <= ro.qty
      <4>1. m.qty \in Nat /\ ro.qty \in Nat
        BY <1>2, <3>1, QtysAssumption DEF ExecuteMsg, RestingOrder
      <4> HIDE DEF ro
      <4> QED BY <4>1 DEF Taken, Smaller
    <3>3. op = [action |-> "Execute", ref |-> m.ref, side |-> ro.side,
                price |-> IF m.price # 0 THEN m.price ELSE ro.price,
                qty |-> Taken(m, ro), match |-> m.match]
      BY DEF ExecuteOp, Op
    <3>4. op \in ResolvedOp
      BY <1>2, <3>1, <3>2, <3>3 DEF ExecuteMsg, RestingOrder, ResolvedOp
    <3>5. ops' = <<op>> /\ book' = [book EXCEPT ![m.ref] = Left(@, Taken(m, ro))]
      BY <2>2 DEF Book!Execute, Book!Reduce, Book!ExecuteOp, Book!Op, Book!Taken,
                  Book!Smaller, ExecuteOp, Op, Taken, Smaller, Left
    <3>6. /\ op.ref = m.ref /\ op.side = ro.side /\ op.qty = Taken(m, ro)
          /\ op.action = "Execute"
      BY <3>3
    <3> HIDE DEF op
    <3>7. ToReduce(op)
      BY <3>1, <3>2, <3>5, <3>6 DEF ToReduce, Takes
    <3> QED BY <3>4, <3>6, <3>7
  <2> QED BY <2>1, <2>2 DEF Book!Unresolved, ToNothing
<1>3. CASE m \in CancelMsg
  <2>1. Book!Cancel(m) \/ Book!Unresolved(m)
    BY <1>3 DEF resolve, CancelMsg
  <2>2. CASE Book!Cancel(m)
    <3> DEFINE ro == book[m.ref]
               op == CancelOp(m, ro)
    <3>1. ro \in RestingOrder /\ ro # None /\ m.ref \in Refs
      BY <1>3, <2>2 DEF Booked, Book!Cancel, CancelMsg
    <3>2. Taken(m, ro) \in Nat /\ Taken(m, ro) <= ro.qty
      <4>1. m.qty \in Nat /\ ro.qty \in Nat
        BY <1>3, <3>1, QtysAssumption DEF CancelMsg, RestingOrder
      <4> HIDE DEF ro
      <4> QED BY <4>1 DEF Taken, Smaller
    <3>3. op = [action |-> "Cancel", ref |-> m.ref, side |-> ro.side, price |-> ro.price,
                qty |-> Taken(m, ro), match |-> 0]
      BY DEF CancelOp, Op
    <3>4. op \in ResolvedOp
      BY <1>3, <3>1, <3>2, <3>3 DEF CancelMsg, RestingOrder, ResolvedOp
    <3>5. ops' = <<op>> /\ book' = [book EXCEPT ![m.ref] = Left(@, Taken(m, ro))]
      BY <2>2 DEF Book!Cancel, Book!Reduce, Book!CancelOp, Book!Op, Book!Taken,
                  Book!Smaller, CancelOp, Op, Taken, Smaller, Left
    <3>6. /\ op.ref = m.ref /\ op.side = ro.side /\ op.qty = Taken(m, ro)
          /\ op.action = "Cancel" /\ op.price = ro.price
      BY <3>3
    <3> HIDE DEF op
    <3>7. ToReduce(op)
      BY <3>1, <3>2, <3>5, <3>6 DEF ToReduce, Takes
    <3> QED BY <3>4, <3>6, <3>7
  <2> QED BY <2>1, <2>2 DEF Book!Unresolved, ToNothing
<1>4. ASSUME NEW ro \in RestingOrder, m.ref \in Refs
      PROVE  /\ DeleteOp(m, ro) \in ResolvedOp /\ DeleteOp(m, ro).action = "Delete"
             /\ DeleteOp(m, ro).ref = m.ref /\ DeleteOp(m, ro).side = ro.side
             /\ DeleteOp(m, ro).price = ro.price
  BY <1>4 DEF DeleteOp, Op, RestingOrder, ResolvedOp
<1>5. CASE m \in DeleteMsg
  <2>1. Book!Delete(m) \/ Book!Unresolved(m)
    BY <1>5 DEF resolve, DeleteMsg
  <2>2. CASE Book!Delete(m)
    <3> DEFINE ro == book[m.ref]
               op == DeleteOp(m, ro)
    <3>1. ro \in RestingOrder /\ ro # None /\ m.ref \in Refs
      BY <1>5, <2>2 DEF Booked, Book!Delete, DeleteMsg
    <3>2. ops' = <<op>> /\ book' = [book EXCEPT ![m.ref] = None]
      BY <2>2 DEF Book!Delete, Book!DeleteOp, Book!Op, DeleteOp, Op
    <3> HIDE DEF op
    <3>3. ToDelete(op) /\ op \in ResolvedOp /\ op.ref = m.ref
      BY <1>4, <3>1, <3>2 DEF ToDelete, Drops, op
    <3> QED BY <3>3
  <2> QED BY <2>1, <2>2 DEF Book!Unresolved, ToNothing
<1>6. CASE m \in ReplaceMsg
  <2>1. Book!Replace(m) \/ Book!ReplaceNoRoom(m) \/ Book!Unresolved(m)
    BY <1>6 DEF resolve, ReplaceMsg
  <2> DEFINE ro == book[m.ref]
             op == DeleteOp(m, ro)
             o == ReplacingOrder(m, ro)
  <2>2. ASSUME book[m.ref] # None PROVE ro \in RestingOrder /\ ro # None /\ m.ref \in Refs
    BY <1>6, <2>2 DEF Booked, ReplaceMsg
  <2>3. CASE Book!ReplaceNoRoom(m)
    <3>1. ops' = <<op>> /\ book' = [book EXCEPT ![m.ref] = None] /\ book[m.ref] # None
      BY <2>3 DEF Book!ReplaceNoRoom, Book!DeleteOp, Book!Op, DeleteOp, Op
    <3> HIDE DEF op
    <3>2. ToDelete(op) /\ op \in ResolvedOp /\ op.ref = m.ref
      BY <1>4, <2>2, <3>1 DEF ToDelete, Drops, op
    <3> QED BY <3>2
  <2>4. CASE Book!Replace(m)
    <3>1. /\ ops' = <<op, AddOp(o)>> /\ book[m.ref] # None
          /\ book' = [book EXCEPT ![m.ref] = None, ![m.new_ref] = o]
      BY <2>4 DEF Book!Replace, Book!DeleteOp, Book!Op, Book!AddOp, Book!ReplacingOrder,
                  DeleteOp, Op, AddOp, ReplacingOrder
    <3>2. o \in RestingOrder /\ o.ref = m.new_ref /\ m.action = "Replace"
      BY <1>6, <2>2, <3>1, QtysAssumption DEF ReplacingOrder, RestingOrder, ReplaceMsg
    <3> HIDE DEF op, o
    <3>3. ToReplace(op, o) /\ op \in ResolvedOp /\ op.ref = m.ref
      BY <1>4, <2>2, <3>1, <3>2 DEF ToReplace, Drops, op
    <3> QED BY <3>2, <3>3
  <2> QED BY <2>1, <2>3, <2>4 DEF Book!Unresolved, ToNothing
<1>7. CASE m \in TradeMsg
  <2>1. Book!Trade(m)
    BY <1>7 DEF resolve, TradeMsg
  <2>2. TradeOp(m) \in ResolvedOp /\ TradeOp(m).action = "Trade"
    BY <1>7, QtysAssumption DEF TradeOp, Op, ResolvedOp, TradeMsg
  <2>3. ops' = <<TradeOp(m)>> /\ book' = book
    BY <2>1 DEF Book!Trade, Book!TradeOp, Book!Op, TradeOp, Op
  <2> QED BY <2>2, <2>3 DEF ToTrade
<1> QED BY <1>1, <1>2, <1>3, <1>5, <1>6, <1>7 DEF Message

----------------------------------------------------------------------------
(* The table and the engine, operation by operation *)

\* The table has shares for r.
Shown(b, r) == b[r] # None /\ b[r].qty > 0

\* The engine has the orders of the table but those of out; nothing is said of
\* the references in dup.
Matched(b, e, out, dup) ==
  /\ Booked(b) /\ IsEngine(e)
  /\ \A r \in Refs \ dup : Keeps(e, r, b[r], Shown(b, r) /\ r \notin out)

\* Storing an order, or none, keeps the table a table.
LEMMA BookedSet ==
  ASSUME NEW b, Booked(b), NEW r \in Refs, NEW o \in RestingOrder \cup {None},
         o # None => o.ref = r
  PROVE  /\ Booked([b EXCEPT ![r] = o]) /\ [b EXCEPT ![r] = o][r] = o
         /\ \A x \in Refs : x # r => [b EXCEPT ![r] = o][x] = b[x]
BY DEF Booked

\* The engine's orders are the same for every reference but r.
EngineBut(e, e1, r) ==
  \A x \in Refs : \A o : \A there \in BOOLEAN :
    x # r /\ Keeps(e, x, o, there) => Keeps(e1, x, o, there)

\* So is what the table and the two sets have.
TableBut(b, b1, out, out1, dup, dup1, r) ==
  \A x \in Refs : x # r => /\ b1[x] = b[x]
                           /\ x \in out <=> x \in out1
                           /\ x \notin dup1 => x \notin dup

\* What becomes of r is all there is to what an operation on r does.
LEMMA MatchedAt ==
  ASSUME NEW b, NEW e, NEW out, NEW dup, Matched(b, e, out, dup), NEW b1, Booked(b1),
         NEW e1, IsEngine(e1), NEW out1, NEW dup1, NEW r \in Refs,
         TableBut(b, b1, out, out1, dup, dup1, r), EngineBut(e, e1, r),
         r \notin dup1 => Keeps(e1, r, b1[r], Shown(b1, r) /\ r \notin out1)
  PROVE  Matched(b1, e1, out1, dup1)
<1>1. ASSUME NEW x \in Refs, x \notin dup1
      PROVE  Keeps(e1, x, b1[x], Shown(b1, x) /\ x \notin out1)
  <2>1. CASE x = r
    BY <1>1, <2>1
  <2>2. CASE x # r
    <3>1. b1[x] = b[x] /\ (x \in out <=> x \in out1) /\ x \notin dup
      BY <1>1, <2>2 DEF TableBut
    <3>2. Keeps(e, x, b[x], Shown(b, x) /\ x \notin out)
      BY <3>1 DEF Matched
    <3>3. (Shown(b, x) /\ x \notin out) = (Shown(b1, x) /\ x \notin out1)
      BY <3>1 DEF Shown
    <3>4. (Shown(b, x) /\ x \notin out) \in BOOLEAN
      OBVIOUS
    <3>5. Keeps(e1, x, b[x], Shown(b, x) /\ x \notin out)
      BY <2>2, <3>2, <3>4 DEF EngineBut
    <3> QED BY <3>1, <3>3, <3>5
  <2> QED BY <2>1, <2>2
<1> QED BY <1>1 DEF Matched

\* An order is removed from both.
LEMMA MatchedDrop ==
  ASSUME NEW b, NEW e, NEW out, NEW dup, Matched(b, e, out, dup),
         NEW op \in ResolvedOp, Drops(b, op)
  PROVE  /\ Matched([b EXCEPT ![op.ref] = None], apply(e, op), out, dup)
         /\ op.ref \notin dup /\ Shown(b, op.ref) /\ op.ref \notin out
              => apply(e, op).orphan_ops = e.orphan_ops
<1> DEFINE r == op.ref
           b1 == [b EXCEPT ![r] = None]
           e1 == apply(e, op)
           there == Shown(b, r) /\ r \notin out
<1>1. r \in Refs /\ IsEngine(e) /\ Booked(b) /\ there \in BOOLEAN
  BY DEF ResolvedOp, Matched
<1>2. Booked(b1) /\ b1[r] = None /\ \A x \in Refs : x # r => b1[x] = b[x]
  BY <1>1, BookedSet
<1>3. IsEngine(e1)
  BY <1>1, ApplyOthers
<1>4. EngineBut(e, e1, r)
  BY <1>1, KeepsOthers DEF EngineBut
<1>5. b[r] \in RestingOrder
  BY <1>1 DEF Drops, Booked
<1>6. r \notin dup => Keeps(e, r, b[r], there)
  BY <1>1 DEF Matched
<1>7. op.action = "Delete" /\ b[r].side = op.side /\ b[r].price = op.price /\ b[r].qty \in Nat
  BY <1>5 DEF Drops, RestingOrder
<1> HIDE DEF there
<1>8. r \notin dup => Keeps(e1, r, b1[r], FALSE) /\ (there => e1.orphan_ops = e.orphan_ops)
  BY <1>1, <1>6, <1>7, OwnDelete
<1>9. (Shown(b1, r) /\ r \notin out) = FALSE
  BY <1>2 DEF Shown
<1> HIDE DEF r, b1, e1
<1>10. r \notin dup => Keeps(e1, r, b1[r], Shown(b1, r) /\ r \notin out)
  BY <1>8, <1>9
<1>11. Matched(b1, e1, out, dup)
  <2>1. TableBut(b, b1, out, out, dup, dup, r)
    BY <1>2 DEF TableBut
  <2> QED BY <1>1, <1>2, <1>3, <1>4, <1>10, <2>1, MatchedAt
<1> QED BY <1>8, <1>11 DEF r, b1, e1, there

\* Shares are taken off an order in both.
LEMMA MatchedTake ==
  ASSUME NEW b, NEW e, NEW out, NEW dup, Matched(b, e, out, dup),
         NEW op \in ResolvedOp, Takes(b, op)
  PROVE  /\ Matched([b EXCEPT ![op.ref] = Left(@, op.qty)], apply(e, op), out, dup)
         /\ op.ref \notin dup /\ Shown(b, op.ref) /\ op.ref \notin out
              => apply(e, op).orphan_ops = e.orphan_ops
<1> DEFINE r == op.ref
           n == op.qty
           o == b[r]
           o1 == [o EXCEPT !.qty = o.qty - n]
           left == Left(o, n)
           b1 == [b EXCEPT ![r] = left]
           e1 == apply(e, op)
           there == Shown(b, r) /\ r \notin out
<1>1. r \in Refs /\ n \in Nat /\ IsEngine(e) /\ Booked(b) /\ there \in BOOLEAN
  BY DEF ResolvedOp, Matched
<1>2. o \in RestingOrder /\ o # None /\ o.ref = r
  BY <1>1 DEF Takes, Booked
<1>3. /\ o.qty \in Nat /\ o.price \in Prices /\ o.side = op.side /\ n <= o.qty
      /\ op.action \in {"Cancel", "Execute"} /\ (op.action = "Cancel" => op.price = o.price)
  BY <1>2 DEF Takes, RestingOrder
<1>4. /\ o1.side = o.side /\ o1.price = o.price /\ o1.qty = o.qty - n /\ o1.ref = r
      /\ o1 \in RestingOrder /\ o1 # None
  BY <1>1, <1>2, <1>3, NoneAssumption DEF RestingOrder
<1>5. left = IF n < o.qty THEN o1 ELSE None
  BY <1>1, <1>3 DEF Left
<1> HIDE DEF o, o1, left
<1>6. left \in RestingOrder \cup {None} /\ (left # None => left.ref = r)
  BY <1>4, <1>5
<1>7. Booked(b1) /\ b1[r] = left /\ \A x \in Refs : x # r => b1[x] = b[x]
  BY <1>1, <1>6, BookedSet
<1>8. IsEngine(e1)
  BY <1>1, ApplyOthers
<1>9. EngineBut(e, e1, r)
  BY <1>1, KeepsOthers DEF EngineBut
<1>10. r \notin dup => Keeps(e, r, o, there)
  BY <1>1 DEF Matched, o
<1>11. r \notin dup =>
         Keeps(e1, r, o1, there /\ n < o.qty) /\ (there => e1.orphan_ops = e.orphan_ops)
  <2> HIDE DEF there
  <2> QED BY <1>1, <1>3, <1>4, <1>10, OwnReduce
<1>12. n < o.qty => there = (Shown(b1, r) /\ r \notin out) /\ b1[r] = o1
  <2>1. n < o.qty => o1.qty > 0 /\ o.qty > 0
    BY <1>1, <1>3, <1>4
  <2> QED BY <1>2, <1>4, <1>5, <1>7, <2>1 DEF Shown, o
<1>13. ~ (n < o.qty) => (Shown(b1, r) /\ r \notin out) = FALSE
  BY <1>5, <1>7 DEF Shown
<1> HIDE DEF r, n, b1, e1
<1>14. ASSUME r \notin dup PROVE Keeps(e1, r, b1[r], Shown(b1, r) /\ r \notin out)
  <2>1. CASE n < o.qty
    <3>1. (there /\ n < o.qty) = (Shown(b1, r) /\ r \notin out)
      BY <1>12, <2>1
    <3> QED BY <1>11, <1>12, <1>14, <2>1, <3>1
  <2>2. CASE ~ (n < o.qty)
    <3>1. Keeps(e1, r, o1, FALSE)
      <4>1. (there /\ n < o.qty) = FALSE
        BY <2>2
      <4> QED BY <1>11, <1>14, <4>1
    <3>2. Keeps(e1, r, b1[r], FALSE)
      BY <3>1 DEF Keeps
    <3> QED BY <1>13, <2>2, <3>2
  <2> QED BY <2>1, <2>2
<1>15. Matched(b1, e1, out, dup)
  <2>1. TableBut(b, b1, out, out, dup, dup, r)
    BY <1>7 DEF TableBut
  <2> QED BY <1>1, <1>7, <1>8, <1>9, <1>14, <2>1, MatchedAt
<1> QED BY <1>11, <1>15 DEF r, n, o, left, b1, e1, there

\* A new order comes to both, under a free reference or one not looked at.
LEMMA MatchedAdd ==
  ASSUME NEW b, NEW e, NEW out, NEW dup, Matched(b, e, out, dup),
         NEW o \in RestingOrder, NEW dup1, dup \subseteq dup1, b[o.ref] = None \/ o.ref \in dup1
  PROVE  /\ Matched([b EXCEPT ![o.ref] = o], apply(e, AddOp(o)), out \ {o.ref}, dup1)
         /\ b[o.ref] = None /\ o.ref \notin dup => apply(e, AddOp(o)).orphan_ops = e.orphan_ops
<1> DEFINE r == o.ref
           op == AddOp(o)
           b1 == [b EXCEPT ![r] = o]
           e1 == apply(e, op)
           out1 == out \ {r}
<1>1. r \in Refs /\ o.qty \in Nat /\ IsEngine(e) /\ Booked(b) /\ o # None
  BY NoneAssumption DEF RestingOrder, Matched
<1>2. /\ op \in ResolvedOp /\ op.action = "Add" /\ op.ref = r
      /\ op.side = o.side /\ op.price = o.price /\ op.qty = o.qty
  BY AddOpIs
<1>3. Booked(b1) /\ b1[r] = o /\ \A x \in Refs : x # r => b1[x] = b[x]
  BY <1>1, BookedSet
<1> HIDE DEF op
<1>4. IsEngine(e1)
  BY <1>1, <1>2, ApplyOthers
<1>5. EngineBut(e, e1, r)
  BY <1>1, <1>2, KeepsOthers DEF EngineBut
<1>6. b[r] = None /\ r \notin dup => Keeps(e, r, b[r], FALSE)
  <2>1. b[r] = None => (Shown(b, r) /\ r \notin out) = FALSE
    BY DEF Shown
  <2>2. r \notin dup => Keeps(e, r, b[r], Shown(b, r) /\ r \notin out)
    BY <1>1 DEF Matched
  <2> QED BY <2>1, <2>2
<1>7. b[r] = None /\ r \notin dup
        => Keeps(e1, r, op, op.qty # 0) /\ e1.orphan_ops = e.orphan_ops
  BY <1>1, <1>2, <1>6, OwnAdd
<1>8. (op.qty # 0) = (Shown(b1, r) /\ r \notin out1)
  BY <1>1, <1>2, <1>3 DEF Shown
<1> HIDE DEF r, b1, e1, out1
<1>9. b[r] = None /\ r \notin dup => Keeps(e1, r, b1[r], Shown(b1, r) /\ r \notin out1)
  BY <1>2, <1>3, <1>7, <1>8 DEF Keeps
<1>10. r \notin dup1 => b[r] = None /\ r \notin dup
  BY DEF r
<1>11. TableBut(b, b1, out, out1, dup, dup1, r)
  BY <1>3 DEF out1, TableBut
<1>12. r \notin dup1 => Keeps(e1, r, b1[r], Shown(b1, r) /\ r \notin out1)
  BY <1>9, <1>10
<1>13. Matched(b1, e1, out1, dup1)
  BY <1>1, <1>3, <1>4, <1>5, <1>11, <1>12, MatchedAt
<1> QED BY <1>7, <1>13 DEF r, b1, e1, out1, op

\* A new order stays in the table only.
LEMMA MatchedReject ==
  ASSUME NEW b, NEW e, NEW out, NEW dup, Matched(b, e, out, dup),
         NEW o \in RestingOrder, NEW dup1, dup \subseteq dup1, b[o.ref] = None \/ o.ref \in dup1
  PROVE  Matched([b EXCEPT ![o.ref] = o], e, out \cup {o.ref}, dup1)
<1> DEFINE r == o.ref
           b1 == [b EXCEPT ![r] = o]
           out1 == out \cup {r}
<1>1. r \in Refs /\ IsEngine(e) /\ Booked(b)
  BY DEF RestingOrder, Matched
<1>2. Booked(b1) /\ b1[r] = o /\ \A x \in Refs : x # r => b1[x] = b[x]
  BY <1>1, BookedSet
<1>3. /\ b[r] = None => (Shown(b, r) /\ r \notin out) = FALSE
      /\ (Shown(b1, r) /\ r \notin out1) = FALSE
  BY DEF Shown
<1>4. r \notin dup => Keeps(e, r, b[r], Shown(b, r) /\ r \notin out)
  BY <1>1 DEF Matched
<1>5. r \notin dup1 => b[r] = None /\ r \notin dup
  OBVIOUS
<1>6. r \notin dup1 => Keeps(e, r, b1[r], Shown(b1, r) /\ r \notin out1)
  <2>1. r \notin dup1 => Keeps(e, r, b[r], FALSE)
    BY <1>3, <1>4, <1>5
  <2>2. r \notin dup1 => Keeps(e, r, b1[r], FALSE)
    BY <2>1 DEF Keeps
  <2> QED BY <1>3, <2>2
<1>7. TableBut(b, b1, out, out1, dup, dup1, r) /\ EngineBut(e, e, r)
  BY <1>2 DEF TableBut, EngineBut
<1> HIDE DEF r, b1, out1
<1>8. Matched(b1, e, out1, dup1)
  BY <1>1, <1>2, <1>6, <1>7, MatchedAt
<1> QED BY <1>8 DEF r, b1, out1

\* A trade leaves both.
LEMMA MatchedTrade ==
  ASSUME NEW b, NEW e, NEW out, NEW dup, Matched(b, e, out, dup),
         NEW op \in ResolvedOp, op.action = "Trade"
  PROVE  /\ Matched(b, apply(e, op), out, dup) /\ apply(e, op).orphan_ops = e.orphan_ops
         /\ SameQueues(e, apply(e, op))
<1> DEFINE e1 == apply(e, op)
<1>1. Applied(e, op, e1)
  BY ApplyIs DEF Matched
<1> HIDE DEF e1
<1>2. IsEngine(e1) /\ SameQueues(e, e1) /\ e1.orphan_ops = e.orphan_ops
  BY <1>1 DEF Applied, Touches
<1>3. \A r, o : \A t \in BOOLEAN : Keeps(e, r, o, t) => Keeps(e1, r, o, t)
  BY <1>2 DEF Keeps, SameQueues
<1>4. ASSUME NEW r \in Refs \ dup PROVE Keeps(e1, r, b[r], Shown(b, r) /\ r \notin out)
  <2>1. Keeps(e, r, b[r], Shown(b, r) /\ r \notin out)
    BY DEF Matched
  <2>2. (Shown(b, r) /\ r \notin out) \in BOOLEAN
    OBVIOUS
  <2> QED BY <1>3, <2>1, <2>2
<1>5. Matched(b, e1, out, dup)
  BY <1>2, <1>4 DEF Matched
<1> QED BY <1>2, <1>5 DEF e1

\* What the queues hold is what rests in the engine.
LEMMA RestingIs ==
  ASSUME NEW e, IsEngine(e), NEW o
  PROVE  o \in Resting(e) <=>
           \E s \in Side, p \in Prices, r \in Refs, n \in Nat :
             o = [ref |-> r, side |-> s, price |-> p, qty |-> n] /\ Holds(Queue(e, s, p), r, n)
<1>1. ASSUME NEW s \in Side, NEW p
      PROVE  /\ p \in DOMAIN e[s] => p \in Prices /\ Queue(e, s, p) = e[s][p]
             /\ p \notin DOMAIN e[s] => Queue(e, s, p) = << >>
             /\ Queue(e, s, p) \in Seq(Queued)
             /\ DOMAIN Queue(e, s, p) = 1 .. Len(Queue(e, s, p))
  <2>1. Ladder(e[s]) /\ Queue(e, s, p) \in Seq(Queued)
    BY SideIs
  <2>2. DOMAIN Queue(e, s, p) = 1 .. Len(Queue(e, s, p))
    BY <2>1
  <2> QED BY <2>1, <2>2 DEF Ladder, Queue, Level
<1>2. ASSUME o \in Resting(e)
      PROVE  \E s \in Side, p \in Prices, r \in Refs, n \in Nat :
               o = [ref |-> r, side |-> s, price |-> p, qty |-> n] /\ Holds(Queue(e, s, p), r, n)
  <2>1. PICK x \in Places(e) : o = [ref |-> OrderAt(e, x).ref, side |-> x[1],
                                    price |-> x[2], qty |-> OrderAt(e, x).qty]
    BY <1>2 DEF Resting
  <2>2. PICK s \in Side : \E p \in DOMAIN e[s] : \E i \in DOMAIN e[s][p] : x = <<s, p, i>>
    BY DEF Places
  <2>2a. PICK p \in DOMAIN e[s] : \E i \in DOMAIN e[s][p] : x = <<s, p, i>>
    BY <2>2
  <2>3. PICK i \in DOMAIN e[s][p] : x = <<s, p, i>>
    BY <2>2a
  <2> DEFINE q == Queue(e, s, p)
  <2>4. /\ p \in Prices /\ q = e[s][p] /\ q \in Seq(Queued) /\ i \in 1 .. Len(q)
        /\ OrderAt(e, x) = q[i] /\ x[1] = s /\ x[2] = p
    BY <1>1, <2>3 DEF OrderAt
  <2> HIDE DEF q
  <2>5. q[i] \in Queued
    BY <2>4
  <2>6. q[i].ref \in Refs /\ q[i].qty \in Nat
    BY <2>5 DEF Queued
  <2>7. Holds(q, q[i].ref, q[i].qty)
    BY <2>4 DEF Holds
  <2> QED BY <2>1, <2>4, <2>6, <2>7 DEF q
<1>3. ASSUME NEW s \in Side, NEW p \in Prices, NEW r \in Refs, NEW n \in Nat,
             o = [ref |-> r, side |-> s, price |-> p, qty |-> n], Holds(Queue(e, s, p), r, n)
      PROVE  o \in Resting(e)
  <2>1. PICK i \in 1 .. Len(Queue(e, s, p)) :
               Queue(e, s, p)[i].ref = r /\ Queue(e, s, p)[i].qty = n
    BY <1>3 DEF Holds
  <2>2. p \in DOMAIN e[s] /\ Queue(e, s, p) = e[s][p] /\ i \in DOMAIN e[s][p]
    <3>1. Queue(e, s, p) # << >>
      BY <1>1, <2>1
    <3> QED BY <1>1, <2>1, <3>1
  <2> DEFINE x == <<s, p, i>>
  <2>3. x \in Places(e)
    BY <2>2 DEF Places
  <2>4. x[1] = s /\ x[2] = p /\ OrderAt(e, x) = Queue(e, s, p)[i]
    BY <2>2 DEF OrderAt
  <2> HIDE DEF x
  <2> QED BY <1>3, <2>1, <2>3, <2>4 DEF Resting
<1> QED BY <1>2, <1>3

\* What matches, mirrors.
LEMMA MatchedMirrors ==
  ASSUME NEW b, NEW e, NEW out, NEW dup, Matched(b, e, out, dup)
  PROVE  /\ {o \in Resting(e) : o.ref \notin dup}
              = {o \in Live(b) : o.ref \notin dup /\ o.ref \notin out}
         /\ RestsOnce(e, Refs \ dup)
<1>1. IsEngine(e) /\ Booked(b)
  BY DEF Matched
<1>2. ASSUME NEW r \in Refs \ dup, NEW s \in Side, NEW p \in Prices, NEW n \in Nat
      PROVE  Holds(Queue(e, s, p), r, n) <=>
               (/\ Shown(b, r) /\ r \notin out
                /\ s = b[r].side /\ p = b[r].price /\ n = b[r].qty)
  <2>1. Keeps(e, r, b[r], Shown(b, r) /\ r \notin out)
    BY DEF Matched
  <2> QED BY <2>1 DEF Keeps
<1>3. ASSUME NEW o \in Resting(e), o.ref \notin dup
      PROVE  o \in Live(b) /\ o.ref \notin out
  <2>1. PICK s \in Side, p \in Prices, r \in Refs, n \in Nat :
          o = [ref |-> r, side |-> s, price |-> p, qty |-> n] /\ Holds(Queue(e, s, p), r, n)
    BY <1>1, RestingIs
  <2>2. r \in Refs \ dup /\ o.ref = r
    BY <1>3, <2>1
  <2>3. /\ Shown(b, r) /\ r \notin out
        /\ s = b[r].side /\ p = b[r].price /\ n = b[r].qty
    BY <1>2, <2>1, <2>2
  <2>4. b[r] \in RestingOrder /\ b[r].ref = r
    BY <1>1, <2>3 DEF Booked, Shown
  <2>5. b[r] = o
    BY <2>1, <2>3, <2>4 DEF RestingOrder
  <2> QED BY <2>2, <2>3, <2>5 DEF Live, Shown
<1>4. ASSUME NEW o \in Live(b), o.ref \notin dup, o.ref \notin out
      PROVE  o \in Resting(e)
  <2>1. PICK r \in Refs : o = b[r] /\ Shown(b, r)
    BY DEF Live, Shown
  <2>2. b[r] \in RestingOrder /\ b[r].ref = r
    BY <1>1, <2>1 DEF Booked, Shown
  <2>3. o.side \in Side /\ o.price \in Prices /\ o.qty \in Nat /\ r \in Refs \ dup /\ r \notin out
    BY <1>4, <2>1, <2>2 DEF RestingOrder
  <2>4. Holds(Queue(e, o.side, o.price), r, o.qty)
    BY <1>2, <2>1, <2>3
  <2>5. o = [ref |-> r, side |-> o.side, price |-> o.price, qty |-> o.qty]
    BY <2>1, <2>2 DEF RestingOrder
  <2> QED BY <1>1, <2>3, <2>4, <2>5, RestingIs
<1>5. RestsOnce(e, Refs \ dup)
  <2> SUFFICES ASSUME NEW x \in Places(e), NEW y \in Places(e),
                      OrderAt(e, x).ref \in Refs \ dup, OrderAt(e, x).ref = OrderAt(e, y).ref
               PROVE  x = y
    BY DEF RestsOnce
  <2> DEFINE r == OrderAt(e, x).ref
  <2>1. ASSUME NEW z \in Places(e), OrderAt(e, z).ref = r
        PROVE  \E i \in 1 .. Len(Queue(e, b[r].side, b[r].price)) :
                 /\ z = <<b[r].side, b[r].price, i>> /\ b[r].side \in Side /\ b[r].price \in Prices
                 /\ Queue(e, b[r].side, b[r].price)[i].ref = r
    <3>1. PICK s \in Side : \E p \in DOMAIN e[s] : \E i \in DOMAIN e[s][p] : z = <<s, p, i>>
      BY DEF Places
    <3>1a. PICK p \in DOMAIN e[s] : \E i \in DOMAIN e[s][p] : z = <<s, p, i>>
      BY <3>1
    <3>2. PICK i \in DOMAIN e[s][p] : z = <<s, p, i>>
      BY <3>1a
    <3> DEFINE q == Queue(e, s, p)
    <3>3. Ladder(e[s]) /\ q \in Seq(Queued)
      BY <1>1, SideIs
    <3>4. p \in Prices /\ q = e[s][p]
      BY <3>3 DEF Ladder, Queue, Level
    <3>5. OrderAt(e, z) = e[s][p][i]
      BY <3>2 DEF OrderAt
    <3> HIDE DEF q, r
    <3>6. i \in 1 .. Len(q) /\ q[i].ref = r
      <4>1. DOMAIN q = 1 .. Len(q)
        BY <3>3
      <4> QED BY <2>1, <3>4, <3>5, <4>1
    <3>7. q[i] \in Queued
      BY <3>3, <3>6
    <3>8. q[i].qty \in Nat /\ Holds(q, r, q[i].qty)
      BY <3>6, <3>7 DEF Queued, Holds
    <3>9. s = b[r].side /\ p = b[r].price
      BY <1>2, <3>4, <3>8 DEF q, r
    <3> QED BY <3>2, <3>4, <3>6, <3>9 DEF q
  <2>2. Keeps(e, r, b[r], Shown(b, r) /\ r \notin out)
    BY DEF Matched
  <2>3. PICK i \in 1 .. Len(Queue(e, b[r].side, b[r].price)) :
          /\ x = <<b[r].side, b[r].price, i>> /\ b[r].side \in Side /\ b[r].price \in Prices
          /\ Queue(e, b[r].side, b[r].price)[i].ref = r
    BY <2>1
  <2>4. PICK j \in 1 .. Len(Queue(e, b[r].side, b[r].price)) :
          /\ y = <<b[r].side, b[r].price, j>>
          /\ Queue(e, b[r].side, b[r].price)[j].ref = r
    BY <2>1
  <2> HIDE DEF r
  <2>5. i = j
    BY <2>2, <2>3, <2>4 DEF Keeps, Single
  <2> QED BY <2>3, <2>4, <2>5
<1> QED BY <1>3, <1>4, <1>5

----------------------------------------------------------------------------
(* The log *)

\* k is what w has of refs among its first n entries, in the same order: h says
\* where each was.
Picks(k, h, w, refs, n) ==
  /\ h \in [1 .. Len(k) -> 1 .. n]
  /\ \A i, j \in 1 .. Len(k) : i < j => h[i] < h[j]
  /\ \A i \in 1 .. Len(k) : k[i] = w[h[i]] /\ w[h[i]].ref \in refs
  /\ \A j \in 1 .. n : w[j].ref \in refs => \E i \in 1 .. Len(k) : h[i] = j

\* One more entry, of refs or not.
LEMMA PicksNext ==
  ASSUME NEW S, NEW w \in Seq(S), NEW refs, NEW n \in 1 .. Len(w), NEW k \in Seq(S), NEW h,
         Picks(k, h, w, refs, n - 1)
  PROVE  IF w[n].ref \in refs THEN \E g : Picks(Append(k, w[n]), g, w, refs, n)
         ELSE Picks(k, h, w, refs, n)
<1> DEFINE m == Len(k)
<1>1. m \in Nat /\ n \in Nat /\ w[n] \in S
  OBVIOUS
<1>2. \A j \in 1 .. n : j \in 1 .. n - 1 \/ j = n
  BY <1>1
<1>3. \A j \in 1 .. n - 1 : j \in 1 .. n /\ j < n
  BY <1>1
<1>4. CASE w[n].ref \in refs
  <2> DEFINE k1 == Append(k, w[n])
             g == [i \in 1 .. m + 1 |-> IF i = m + 1 THEN n ELSE h[i]]
  <2>1. /\ k1 \in Seq(S) /\ Len(k1) = m + 1 /\ k1[m + 1] = w[n]
        /\ \A i \in 1 .. m : k1[i] = k[i]
    BY <1>1
  <2>2. /\ \A i \in 1 .. m : i \in 1 .. m + 1 /\ i # m + 1 /\ i < m + 1
        /\ \A i \in 1 .. m + 1 : i \in 1 .. m \/ i = m + 1
        /\ m + 1 \in 1 .. m + 1
    BY <1>1
  <2>3. g[m + 1] = n /\ \A i \in 1 .. m : g[i] = h[i]
    BY <2>2
  <2>4. \A i \in 1 .. m : h[i] \in 1 .. n - 1
    BY DEF Picks
  <2>5. g \in [1 .. m + 1 -> 1 .. n]
    BY <1>1, <1>3, <2>2, <2>4
  <2> HIDE DEF g, k1, m
  <2>6. \A i, j \in 1 .. m + 1 : i < j => g[i] < g[j]
    <3> SUFFICES ASSUME NEW i \in 1 .. m + 1, NEW j \in 1 .. m + 1, i < j PROVE g[i] < g[j]
      OBVIOUS
    <3>1. i \in 1 .. m
      BY <1>1
    <3>2. CASE j = m + 1
      BY <1>3, <2>3, <2>4, <3>1, <3>2
    <3>3. CASE j # m + 1
      BY <2>2, <2>3, <3>1, <3>3 DEF Picks, m
    <3> QED BY <3>2, <3>3
  <2>7. \A i \in 1 .. m + 1 : k1[i] = w[g[i]] /\ w[g[i]].ref \in refs
    BY <1>4, <2>1, <2>2, <2>3 DEF Picks, m
  <2>8. ASSUME NEW j \in 1 .. n, w[j].ref \in refs PROVE \E i \in 1 .. m + 1 : g[i] = j
    <3>1. CASE j = n
      BY <2>2, <2>3, <3>1
    <3>2. CASE j # n
      <4>1. PICK i \in 1 .. m : h[i] = j
        BY <1>2, <2>8, <3>2 DEF Picks, m
      <4> QED BY <2>2, <2>3, <4>1
    <3> QED BY <3>1, <3>2
  <2>9. Picks(k1, g, w, refs, n)
    BY <2>1, <2>5, <2>6, <2>7, <2>8 DEF Picks
  <2> QED BY <1>4, <2>9 DEF k1
<1>5. CASE w[n].ref \notin refs
  <2>1. h \in [1 .. m -> 1 .. n]
    BY <1>1, <1>3 DEF Picks
  <2> QED BY <1>2, <1>5, <2>1 DEF Picks
<1> QED BY <1>4, <1>5

\* Kept is what w has of refs.
LEMMA KeptIs ==
  ASSUME NEW S, NEW w \in Seq(S), NEW refs
  PROVE  Kept(w, refs) \in Seq(S) /\ \E h : Picks(Kept(w, refs), h, w, refs, Len(w))
<1> DEFINE n == Len(w)
           V == Seq(S)
           G == [i \in 1 .. n |-> [v \in V |-> IF w[i].ref \in refs THEN Append(v, w[i]) ELSE v]]
           Body(g) == [i \in 0 .. n |->
                         IF i = 0 THEN << >>
                         ELSE IF w[i].ref \in refs THEN Append(g[i - 1], w[i]) ELSE g[i - 1]]
           f == CHOOSE g : g = Body(g)
<1>1. n \in Nat /\ << >> \in V /\ \A i \in 1 .. n : w[i] \in S
  OBVIOUS
<1>2. G \in [1 .. n -> [V -> V]]
  BY <1>1
<1>3. \A i \in 1 .. n, v \in V : G[i][v] = IF w[i].ref \in refs THEN Append(v, w[i]) ELSE v
  OBVIOUS
<1>4. Kept(w, refs) = f[n]
  BY DEF Kept
<1> HIDE DEF G
<1>5. PICK h : Iterates(h, n, V, << >>, G)
  <2> HIDE DEF n, V
  <2> QED BY <1>1, <1>2, RecursionExists
<1>6. h = Body(h)
  <2>1. h \in [0 .. n -> V] /\ h[0] = << >>
    BY <1>5 DEF Iterates
  <2>2. ASSUME NEW i \in 0 .. n PROVE h[i] = Body(h)[i]
    <3>1. CASE i = 0
      BY <2>1, <3>1
    <3>2. CASE i # 0
      <4>1. i \in 1 .. n /\ i - 1 \in 0 .. n
        BY <1>1, <3>2
      <4>2. h[i] = G[i][h[i - 1]] /\ h[i - 1] \in V
        BY <1>5, <2>1, <4>1 DEF Iterates
      <4>3. h[i] = IF w[i].ref \in refs THEN Append(h[i - 1], w[i]) ELSE h[i - 1]
        BY <1>3, <4>1, <4>2
      <4> QED BY <3>2, <4>3
    <3> QED BY <3>1, <3>2
  <2> QED BY <2>1, <2>2
<1>7. f = Body(f)
  <2> HIDE DEF Body
  <2> QED BY <1>6
<1> HIDE DEF f
<1>8. /\ f[0] = << >> /\ f = [i \in 0 .. n |-> f[i]]
      /\ \A i \in 1 .. n :
           f[i] = IF w[i].ref \in refs THEN Append(f[i - 1], w[i]) ELSE f[i - 1]
  <2>1. 0 \in 0 .. n /\ \A i \in 1 .. n : i \in 0 .. n /\ i # 0
    BY <1>1
  <2>2. \A i \in 0 .. n :
          f[i] = IF i = 0 THEN << >>
                 ELSE IF w[i].ref \in refs THEN Append(f[i - 1], w[i]) ELSE f[i - 1]
    BY <1>7
  <2>3. DOMAIN f = 0 .. n
    BY <1>7
  <2>4. f = [i \in 0 .. n |-> f[i]]
    BY <1>7, <2>3
  <2> QED BY <2>1, <2>2, <2>4
<1>9. Iterates(f, n, V, << >>, G)
  <2>1. \A i \in 1 .. n : f[i - 1] \in V => f[i] = G[i][f[i - 1]]
    BY <1>3, <1>8
  <2> HIDE DEF n, V
  <2> QED BY <1>1, <1>2, <1>8, <2>1, RecursionIs
<1>10. \A i \in 0 .. n : f[i] \in V
  BY <1>9 DEF Iterates
<1>11. \A i \in 0 .. n : \E g : Picks(f[i], g, w, refs, i)
  <2> DEFINE T == {i \in 0 .. n : ~ \E g : Picks(f[i], g, w, refs, i)}
  <2> SUFFICES ASSUME T # {} PROVE FALSE
    OBVIOUS
  <2>1. T \in SUBSET Nat
    OBVIOUS
  <2>2. PICK i \in T : \A m \in T : i <= m
    <3> HIDE DEF T
    <3> QED BY <2>1, LeastNatural
  <2>3. i # 0
    <3>1. Len(f[0]) = 0
      BY <1>8
    <3>2. Picks(f[0], [x \in {} |-> 0], w, refs, 0)
      BY <3>1 DEF Picks
    <3> QED BY <2>2, <3>2
  <2>4. i \in 1 .. n /\ i - 1 \in 0 .. n /\ i - 1 \notin T
    BY <1>1, <2>2, <2>3
  <2>5. PICK g : Picks(f[i - 1], g, w, refs, i - 1)
    BY <2>4
  <2>6. f[i - 1] \in Seq(S)
    BY <1>10, <2>4
  <2>7. IF w[i].ref \in refs THEN \E x : Picks(Append(f[i - 1], w[i]), x, w, refs, i)
        ELSE Picks(f[i - 1], g, w, refs, i)
    BY <2>4, <2>5, <2>6, PicksNext
  <2>8. \E x : Picks(f[i], x, w, refs, i)
    <3> HIDE DEF T, n, V
    <3> QED BY <1>8, <2>4, <2>7
  <2> QED BY <2>2, <2>8
<1>12. n \in 0 .. n
  BY <1>1
<1> QED BY <1>4, <1>10, <1>11, <1>12

----------------------------------------------------------------------------
(* The file replay: the engine mirrors the table *)

\* At the start nothing rests.
LEMMA MatchedInit ==
  ASSUME BookInit
  PROVE  Matched(book, engine, {}, {})
<1>1. Booked(book)
  BY DEF BookInit, Book!Init, Booked
<1>2. EmptyLadder \in [DOMAIN EmptyLadder -> Seq(Queued) \ {<< >>}] /\ DOMAIN EmptyLadder = {}
  BY DEF EmptyLadder
<1>3. Ladder(EmptyLadder)
  BY <1>2 DEF Ladder
<1>4. IsEngine(engine) /\ \A s \in Side, p \in Prices : Queue(engine, s, p) = << >>
  <2>1. /\ engine = [Buy |-> EmptyLadder, Sell |-> EmptyLadder, orphan_ops |-> 0,
                     last_price |-> 0]
        /\ engine.Buy = EmptyLadder /\ engine.Sell = EmptyLadder
    BY DEF BookInit, NewEngine
  <2>2. IsEngine(engine)
    BY <1>3, <2>1 DEF IsEngine
  <2>3. \A s \in Side : engine[s] = EmptyLadder
    BY <2>1, SideAssumption
  <2> QED BY <1>2, <2>2, <2>3 DEF Queue, Level
<1>5. \A r \in Refs : ~ Shown(book, r)
  <2>1. book = [r \in Refs |-> None]
    BY DEF BookInit, Book!Init
  <2> QED BY <2>1 DEF Shown
<1>6. ASSUME NEW r \in Refs PROVE Keeps(engine, r, book[r], Shown(book, r) /\ r \notin {})
  <2>1. \A s \in Side, p \in Prices, n \in Nat :
          ~ Holds(Queue(engine, s, p), r, n) /\ Single(Queue(engine, s, p), r)
    <3>1. \A n \in Nat : ~ Holds(<< >>, r, n) /\ Single(<< >>, r)
      BY DEF Holds, Single
    <3> QED BY <1>4, <3>1
  <2> QED BY <1>5, <2>1 DEF Keeps
<1> QED BY <1>1, <1>4, <1>6 DEF Matched

\* Nothing need be said of more references.
LEMMA MatchedLess ==
  ASSUME NEW b, NEW e, NEW out, NEW dup, Matched(b, e, out, dup), NEW dup1, dup \subseteq dup1
  PROVE  Matched(b, e, out, dup1)
<1>1. Refs \ dup1 \subseteq Refs \ dup
  OBVIOUS
<1> HIDE DEF Booked, IsEngine
<1> QED BY <1>1 DEF Matched

\* The loop over no operation and over one.
LEMMA HandleIs ==
  ASSUME NEW s, NEW a
  PROVE  /\ ForEachOp(Handle, s, << >>) = s
         /\ ForEachOp(Handle, s, <<a>>) = Handle(s, a)
BY DEF ForEachOp

\* The state the loop starts from.
Before1 == [engine |-> engine, micro |-> micro]

\* The engine after the operations of a message.
LEMMA ReplayEngine ==
  ASSUME NEW m, NEW ts, on_message(m, ts)
  PROVE  /\ engine' = ForEachOp(Handle, Before1, ops').engine
         /\ ops' = << >> => engine' = engine
         /\ \A a : ops' = <<a>> => engine' = apply(engine, a)
         /\ \A a, c : ops' = <<a, c>> => engine' = apply(apply(engine, a), c)
<1>1. engine' = ForEachOp(Handle, Before1, ops').engine
  BY DEF on_message, Before1
<1>2. \A s, a : Handle(s, a).engine = apply(s.engine, a)
  BY DEF Handle
<1>3. Before1.engine = engine
  BY DEF Before1
<1> HIDE DEF Before1
<1>4. ops' = << >> => engine' = engine
  BY <1>1, <1>3, HandleIs
<1>5. ASSUME NEW a, ops' = <<a>> PROVE engine' = apply(engine, a)
  BY <1>1, <1>2, <1>3, <1>5, HandleIs
<1>6. ASSUME NEW a, NEW c, ops' = <<a, c>> PROVE engine' = apply(apply(engine, a), c)
  <2>1. engine' = Handle(Handle(Before1, a), c).engine
    <3>1. ForEachOp(Handle, Before1, <<a, c>>) = Handle(Handle(Before1, a), c)
      BY DEF ForEachOp
    <3> QED BY <1>1, <1>6, <3>1
  <2>2. Handle(Handle(Before1, a), c).engine = apply(Handle(Before1, a).engine, c)
    BY <1>2
  <2>3. Handle(Before1, a).engine = apply(engine, a)
    BY <1>2, <1>3
  <2> QED BY <2>1, <2>2, <2>3
<1> QED BY <1>1, <1>4, <1>5, <1>6

\* A message keeps the engine a mirror of the table.
LEMMA ReplayMatched ==
  ASSUME Matched(book, engine, {}, reused), NEW m \in Feed, NEW ts, on_message(m, ts)
  PROVE  Matched(book', engine', {}, reused')
<1>1. m \in Message /\ resolve(m)
  BY FeedAssumption DEF on_message
<1>2. reused \subseteq reused'
  BY DEF on_message
<1>3. SUFFICES \/ Matched(book', engine', {}, reused)
               \/ Matched(book', engine', {}, reused')
  BY <1>2, MatchedLess
<1>4. Booked(book)
  BY DEF Matched
<1>5. CASE ToNothing
  BY <1>5, ReplayEngine DEF ToNothing
<1>6. CASE ToTrade
  <2>1. PICK op \in ResolvedOp : op.action = "Trade" /\ ops' = <<op>>
    BY <1>6 DEF ToTrade
  <2>2. book' = book /\ engine' = apply(engine, op)
    BY <1>6, <2>1, ReplayEngine DEF ToTrade
  <2> QED BY <2>1, <2>2, MatchedTrade
<1>7. ASSUME NEW o \in RestingOrder, m.action = "Add", m.ref = o.ref, ToAdd(o)
      PROVE  Matched(book', engine', {}, reused')
  <2>1. book' = [book EXCEPT ![o.ref] = o] /\ ops' = <<AddOp(o)>>
    BY <1>7 DEF ToAdd
  <2>2. engine' = apply(engine, AddOp(o))
    BY <2>1, ReplayEngine
  <2>3. book[o.ref] = None \/ o.ref \in reused'
    <3>1. book[m.ref] # None => Reuses(m)
      BY <1>7 DEF Reuses
    <3>2. Reuses(m) => m.ref \in reused'
      BY <1>7 DEF on_message
    <3> QED BY <1>7, <3>1, <3>2
  <2>4. Matched([book EXCEPT ![o.ref] = o], apply(engine, AddOp(o)), {} \ {o.ref}, reused')
    BY <1>2, <2>3, MatchedAdd
  <2>5. {} \ {o.ref} = {}
    OBVIOUS
  <2> QED BY <2>1, <2>2, <2>4, <2>5
<1>8. ASSUME NEW op \in ResolvedOp, ToReduce(op)
      PROVE  Matched(book', engine', {}, reused)
  <2>1. /\ Takes(book, op) /\ ops' = <<op>>
        /\ book' = [book EXCEPT ![op.ref] = Left(@, op.qty)]
    BY <1>8 DEF ToReduce
  <2>2. engine' = apply(engine, op)
    BY <2>1, ReplayEngine
  <2> QED BY <2>1, <2>2, MatchedTake
<1>9. ASSUME NEW op \in ResolvedOp, ToDelete(op)
      PROVE  Matched(book', engine', {}, reused)
  <2>1. Drops(book, op) /\ ops' = <<op>> /\ book' = [book EXCEPT ![op.ref] = None]
    BY <1>9 DEF ToDelete
  <2>2. engine' = apply(engine, op)
    BY <2>1, ReplayEngine
  <2> QED BY <2>1, <2>2, MatchedDrop
<1>10. ASSUME NEW op \in ResolvedOp, NEW o \in RestingOrder, m.action = "Replace",
              op.ref = m.ref, o.ref = m.new_ref, ToReplace(op, o)
       PROVE  Matched(book', engine', {}, reused')
  <2> DEFINE b1 == [book EXCEPT ![op.ref] = None]
             e1 == apply(engine, op)
  <2>1. /\ Drops(book, op) /\ ops' = <<op, AddOp(o)>>
        /\ book' = [b1 EXCEPT ![o.ref] = o]
    BY <1>10 DEF ToReplace
  <2>2. engine' = apply(e1, AddOp(o))
    BY <2>1, ReplayEngine
  <2>3. Matched(b1, e1, {}, reused)
    BY <2>1, MatchedDrop
  <2>4. b1[o.ref] = None \/ o.ref \in reused'
    <3>1. op.ref \in Refs /\ o.ref \in Refs /\ book \in [Refs -> RestingOrder \cup {None}]
      BY <1>4 DEF Booked, ResolvedOp, RestingOrder
    <3>2. b1[o.ref] = IF o.ref = op.ref THEN None ELSE book[o.ref]
      BY <3>1
    <3>3. o.ref # op.ref /\ book[o.ref] # None => Reuses(m)
      BY <1>10, <2>1 DEF Reuses, Drops
    <3>4. Reuses(m) => m.new_ref \in reused'
      BY <1>10 DEF on_message
    <3> QED BY <1>10, <3>2, <3>3, <3>4
  <2> HIDE DEF b1, e1
  <2>5. Matched([b1 EXCEPT ![o.ref] = o], apply(e1, AddOp(o)), {} \ {o.ref}, reused')
    BY <1>2, <2>3, <2>4, MatchedAdd
  <2>6. {} \ {o.ref} = {}
    OBVIOUS
  <2> QED BY <2>1, <2>2, <2>5, <2>6
<1> QED BY <1>1, <1>4, <1>5, <1>6, <1>7, <1>8, <1>9, <1>10, ResolveIs

\* In the file replay the engine's book is at every moment BookState's book,
\* order by order, but for the references the feed gives out again while they
\* are live: no order of replaces, partial executions, prints away from the
\* order's level and messages without room strands or doubles another.
THEOREM ReplayMirrors == Spec => []Mirror
<1> DEFINE Inv == Matched(book, engine, {}, reused)
<1>1. Init => Inv
  BY MatchedInit DEF Init
<1>2. Inv /\ [Next]_vars => Inv'
  <2> SUFFICES ASSUME Inv, [Next]_vars PROVE Inv'
    OBVIOUS
  <2>1. CASE UNCHANGED vars
    BY <2>1 DEF vars, history, Matched, Booked, IsEngine, Keeps, Shown, Queue
  <2>2. ASSUME NEW m \in Feed, NEW ts \in time .. MaxTime, on_message(m, ts) PROVE Inv'
    BY <2>2, ReplayMatched
  <2> QED BY <2>1, <2>2 DEF Next, Done
<1>3. Inv => Mirror
  <2> SUFFICES ASSUME Inv PROVE Mirror
    OBVIOUS
  <2>1. /\ {o \in Resting(engine) : o.ref \notin reused}
             = {o \in Live(book) : o.ref \notin reused /\ o.ref \notin {}}
        /\ RestsOnce(engine, Refs \ reused)
    BY MatchedMirrors
  <2>2. {o \in Live(book) : o.ref \notin reused /\ o.ref \notin {}}
          = {o \in Live(book) : o.ref \notin reused}
    OBVIOUS
  <2> QED BY <2>1, <2>2 DEF Mirror
<1> HIDE DEF Inv
<1> QED BY <1>1, <1>2, <1>3, PTL DEF Spec

----------------------------------------------------------------------------
(* The live exchange: the log and the engine *)

\* An entry of the log.
WalEntry == [type : {"OrderSubmitted", "OrderRejected"}, ref : Refs, side : Side,
             price : Prices, qty : Nat]

\* The entry submits an order of r at s and p, with n shares or more.
Submits(x, r, s, p, n) ==
  x.type = "OrderSubmitted" /\ x.ref = r /\ x.side = s /\ x.price = p /\ n <= x.qty

Submitted(w, r, s, p, n) == \E i \in 1 .. Len(w) : Submits(w[i], r, s, p, n)

\* The log has one entry of a reference at most.
OncePerRef(w) == \A i, j \in 1 .. Len(w) : w[i].ref = w[j].ref => i = j

\* The entry of y comes after that of x.
Later(w, x, y) == \E i, j \in 1 .. Len(w) : i < j /\ w[i].ref = x /\ w[j].ref = y

\* What the engine holds was submitted, but for the references in U, and the
\* log has it in the order of the queues.
HeldSubmitted(e, w, U) ==
  \A s \in Side, p \in Prices, r \in Refs, n \in Nat :
    r \notin U /\ Holds(Queue(e, s, p), r, n) => Submitted(w, r, s, p, n)

QueuedInOrder(e, w, U) ==
  \A s \in Side, p \in Prices, x, y \in Refs :
    x \notin U /\ y \notin U /\ Before(Queue(e, s, p), x, y) => Later(w, x, y)

Ahead(e, w, U) ==
  /\ w \in Seq(WalEntry) /\ OncePerRef(w)
  /\ HeldSubmitted(e, w, U) /\ QueuedInOrder(e, w, U)

\* What is kept of a log.
LEMMA KeptHas ==
  ASSUME NEW w \in Seq(WalEntry), OncePerRef(w), NEW refs
  PROVE  LET k == Kept(w, refs)
         IN  /\ k \in Seq(WalEntry) /\ OncePerRef(k)
             /\ \A i \in 1 .. Len(k) : k[i].ref \in refs
             /\ \A i \in 1 .. Len(w) :
                  w[i].ref \in refs => \E j \in 1 .. Len(k) : k[j] = w[i]
             /\ \A x, y \in refs : Later(w, x, y) => Later(k, x, y)
<1> DEFINE k == Kept(w, refs)
<1>1. k \in Seq(WalEntry)
  BY KeptIs
<1>2. PICK h : Picks(k, h, w, refs, Len(w))
  BY KeptIs
<1> HIDE DEF k
<1>3. Len(k) \in Nat /\ Len(w) \in Nat
  BY <1>1
<1>4. /\ \A i \in 1 .. Len(k) : h[i] \in 1 .. Len(w)
      /\ \A i, j \in 1 .. Len(k) : i < j => h[i] < h[j]
      /\ \A i \in 1 .. Len(k) : k[i] = w[h[i]] /\ w[h[i]].ref \in refs
      /\ \A j \in 1 .. Len(w) : w[j].ref \in refs => \E i \in 1 .. Len(k) : h[i] = j
  BY <1>2 DEF Picks
<1>5. OncePerRef(k)
  <2> SUFFICES ASSUME NEW i \in 1 .. Len(k), NEW j \in 1 .. Len(k), k[i].ref = k[j].ref, i # j
               PROVE  FALSE
    BY DEF OncePerRef
  <2>1. h[i] = h[j]
    <3>1. h[i] \in 1 .. Len(w) /\ h[j] \in 1 .. Len(w)
      BY <1>4
    <3>2. k[i] = w[h[i]] /\ k[j] = w[h[j]]
      BY <1>4
    <3>3. w[h[i]].ref = w[h[j]].ref
      BY <3>2
    <3> QED BY <3>1, <3>3 DEF OncePerRef
  <2>2. h[i] < h[j] \/ h[j] < h[i]
    BY <1>3, <1>4
  <2> QED BY <1>4, <2>1, <2>2
<1>6. ASSUME NEW x \in refs, NEW y \in refs, Later(w, x, y) PROVE Later(k, x, y)
  <2>1. PICK i, j \in 1 .. Len(w) : i < j /\ w[i].ref = x /\ w[j].ref = y
    BY <1>6 DEF Later
  <2>2. PICK a \in 1 .. Len(k) : h[a] = i
    BY <1>4, <2>1
  <2>3. PICK c \in 1 .. Len(k) : h[c] = j
    BY <1>4, <2>1
  <2>4. a < c
    <3>1. a # c /\ ~ (c < a)
      BY <1>4, <2>1, <2>2, <2>3
    <3> QED BY <1>3, <3>1
  <2>5. k[a].ref = x /\ k[c].ref = y
    BY <1>4, <2>1, <2>2, <2>3
  <2> QED BY <2>4, <2>5 DEF Later
<1>7. \A i \in 1 .. Len(k) : k[i].ref \in refs
  BY <1>4
<1>8. ASSUME NEW i \in 1 .. Len(w), w[i].ref \in refs PROVE \E j \in 1 .. Len(k) : k[j] = w[i]
  BY <1>4, <1>8
<1> QED BY <1>1, <1>5, <1>6, <1>7, <1>8 DEF k

\* The entry of a reference takes the place of the one it had.
LEMMA AppendedHas ==
  ASSUME NEW w \in Seq(WalEntry), OncePerRef(w), NEW x \in WalEntry
  PROVE  LET k == Append(Kept(w, Refs \ {x.ref}), x)
         IN  /\ k \in Seq(WalEntry) /\ OncePerRef(k)
             /\ \E j \in 1 .. Len(k) : k[j] = x
             /\ \A i \in 1 .. Len(w) :
                  w[i].ref # x.ref => /\ \E j \in 1 .. Len(k) : k[j] = w[i]
                                      /\ Later(k, w[i].ref, x.ref)
             /\ \A r, t \in Refs \ {x.ref} : Later(w, r, t) => Later(k, r, t)
<1> DEFINE l == Kept(w, Refs \ {x.ref})
           k == Append(l, x)
           n == Len(l)
<1>1. /\ l \in Seq(WalEntry) /\ OncePerRef(l)
      /\ \A i \in 1 .. Len(l) : l[i].ref \in Refs \ {x.ref}
      /\ \A i \in 1 .. Len(w) :
           w[i].ref \in Refs \ {x.ref} => \E j \in 1 .. Len(l) : l[j] = w[i]
      /\ \A r, t \in Refs \ {x.ref} : Later(w, r, t) => Later(l, r, t)
  BY KeptHas
<1> HIDE DEF l
<1>2. /\ k \in Seq(WalEntry) /\ n \in Nat /\ Len(k) = n + 1 /\ k[n + 1] = x
      /\ \A i \in 1 .. n : k[i] = l[i] /\ i \in 1 .. Len(k)
      /\ \A i \in 1 .. Len(k) : i \in 1 .. n \/ i = n + 1
  BY <1>1
<1> HIDE DEF k, n
<1>3. n + 1 \in 1 .. Len(k) /\ \A i \in 1 .. n : i < n + 1
  BY <1>2
<1>4. OncePerRef(k)
  <2>1. \A i, j \in 1 .. n : l[i].ref = l[j].ref => i = j
    BY <1>1 DEF OncePerRef, n
  <2>2. \A i \in 1 .. n : l[i].ref # x.ref
    BY <1>1 DEF n
  <2> QED BY <1>2, <2>1, <2>2 DEF OncePerRef
<1>5. ASSUME NEW i \in 1 .. Len(w), w[i].ref # x.ref
      PROVE  (\E j \in 1 .. Len(k) : k[j] = w[i]) /\ Later(k, w[i].ref, x.ref)
  <2>1. w[i].ref \in Refs \ {x.ref}
    <3>1. w[i] \in WalEntry
      OBVIOUS
    <3> QED BY <1>5, <3>1 DEF WalEntry
  <2>2. PICK j \in 1 .. n : l[j] = w[i]
    BY <1>1, <2>1 DEF n
  <2>3. k[j] = w[i] /\ j \in 1 .. Len(k)
    BY <1>2, <2>2
  <2>4. Later(k, w[i].ref, x.ref)
    BY <1>2, <1>3, <2>3 DEF Later
  <2> QED BY <2>3, <2>4
<1>6. ASSUME NEW r \in Refs \ {x.ref}, NEW t \in Refs \ {x.ref}, Later(w, r, t)
      PROVE  Later(k, r, t)
  <2>1. PICK i, j \in 1 .. n : i < j /\ l[i].ref = r /\ l[j].ref = t
    BY <1>1, <1>6 DEF Later, n
  <2> QED BY <1>2, <2>1 DEF Later
<1> QED BY <1>2, <1>3, <1>4, <1>5, <1>6 DEF k, l

\* Engines whose orders only shrink and keep their places leave the log ahead.
LEMMA AheadLess ==
  ASSUME NEW e, NEW e1, NEW w, NEW U, Ahead(e, w, U),
         \A s \in Side, p \in Prices : NoneGrows(Queue(e, s, p), Queue(e1, s, p)),
         \A s \in Side, p \in Prices, x, y \in Refs :
           Before(Queue(e1, s, p), x, y) => Before(Queue(e, s, p), x, y)
  PROVE  Ahead(e1, w, U)
<1>1. ASSUME NEW s \in Side, NEW p \in Prices, NEW r \in Refs, NEW n \in Nat,
             r \notin U, Holds(Queue(e1, s, p), r, n)
      PROVE  Submitted(w, r, s, p, n)
  <2>1. PICK k \in Nat : n <= k /\ Holds(Queue(e, s, p), r, k)
    BY <1>1 DEF NoneGrows
  <2>2. Submitted(w, r, s, p, k)
    BY <1>1, <2>1 DEF Ahead, HeldSubmitted
  <2>3. w \in Seq(WalEntry)
    BY DEF Ahead
  <2>4. PICK i \in 1 .. Len(w) : Submits(w[i], r, s, p, k)
    BY <2>2 DEF Submitted
  <2>5. w[i].qty \in Nat
    <3>1. w[i] \in WalEntry
      BY <2>3
    <3> QED BY <3>1 DEF WalEntry
  <2>6. Submits(w[i], r, s, p, n)
    BY <2>1, <2>4, <2>5 DEF Submits
  <2> QED BY <2>6 DEF Submitted
<1>2. QueuedInOrder(e1, w, U)
  BY DEF Ahead, QueuedInOrder
<1> QED BY <1>1, <1>2 DEF Ahead, HeldSubmitted

\* An operation that is no Add is such a step.
LEMMA AheadApply ==
  ASSUME NEW e, IsEngine(e), NEW w, NEW U, Ahead(e, w, U), NEW op \in ResolvedOp,
         op.action # "Add"
  PROVE  Ahead(apply(e, op), w, U)
<1> DEFINE e1 == apply(e, op)
<1>1. \A s \in Side, p \in Prices : NoneGrows(Queue(e, s, p), Queue(e1, s, p))
  BY ApplyOthers
<1>2. KeepsOrder(e, e1, op)
  BY ApplyOthers
<1> HIDE DEF e1
<1>3. \A s \in Side, p \in Prices, x, y \in Refs :
        Before(Queue(e1, s, p), x, y) => Before(Queue(e, s, p), x, y)
  BY <1>2 DEF KeepsOrder
<1>4. Ahead(e1, w, U)
  BY <1>1, <1>3, AheadLess
<1> QED BY <1>4 DEF e1

\* The engine holds an order of r.
Rests(e, r) == \E s \in Side, p \in Prices : Has(Queue(e, s, p), r)

\* What is in a queue rests.
LEMMA InQueue ==
  ASSUME NEW e, IsEngine(e), NEW s \in Side, NEW p \in Prices
  PROVE  /\ \A r, n : Holds(Queue(e, s, p), r, n) => Rests(e, r)
         /\ \A x, y : Before(Queue(e, s, p), x, y) => /\ Rests(e, x) /\ Rests(e, y)
                                                      /\ Has(Queue(e, s, p), x)
                                                      /\ Has(Queue(e, s, p), y)
BY DEF Holds, Has, Before, Rests

\* The log may forget what does not rest.
LEMMA AheadKept ==
  ASSUME NEW e, IsEngine(e), NEW w, NEW U, Ahead(e, w, U), NEW refs, NEW U1,
         \A r \in Refs : Rests(e, r) /\ r \notin U1 => r \in refs /\ r \notin U
  PROVE  Ahead(e, Kept(w, refs), U1)
<1> DEFINE k == Kept(w, refs)
<1>1. w \in Seq(WalEntry) /\ OncePerRef(w)
  BY DEF Ahead
<1>2. /\ k \in Seq(WalEntry) /\ OncePerRef(k)
      /\ \A i \in 1 .. Len(w) :
           w[i].ref \in refs => \E j \in 1 .. Len(k) : k[j] = w[i]
      /\ \A x, y \in refs : Later(w, x, y) => Later(k, x, y)
  BY <1>1, KeptHas
<1> HIDE DEF k
<1>3. ASSUME NEW s \in Side, NEW p \in Prices, NEW r \in Refs, NEW n \in Nat,
             r \notin U1, Holds(Queue(e, s, p), r, n)
      PROVE  Submitted(k, r, s, p, n)
  <2>1. Rests(e, r)
    BY <1>3, InQueue
  <2>2. r \in refs /\ r \notin U
    BY <1>3, <2>1
  <2>3. Submitted(w, r, s, p, n)
    BY <1>3, <2>2 DEF Ahead, HeldSubmitted
  <2>4. PICK i \in 1 .. Len(w) : Submits(w[i], r, s, p, n)
    BY <2>3 DEF Submitted
  <2>5. PICK j \in 1 .. Len(k) : k[j] = w[i]
    BY <1>2, <2>2, <2>4 DEF Submits
  <2> QED BY <2>4, <2>5 DEF Submitted
<1>4. ASSUME NEW s \in Side, NEW p \in Prices, NEW x \in Refs, NEW y \in Refs,
             x \notin U1, y \notin U1, Before(Queue(e, s, p), x, y)
      PROVE  Later(k, x, y)
  <2>1. Rests(e, x) /\ Rests(e, y)
    BY <1>4, InQueue
  <2>2. x \in refs /\ x \notin U /\ y \in refs /\ y \notin U
    BY <1>4, <2>1
  <2>3. Later(w, x, y)
    BY <1>4, <2>2 DEF Ahead, QueuedInOrder
  <2> QED BY <1>2, <2>2, <2>3
<1>5. HeldSubmitted(e, k, U1) /\ QueuedInOrder(e, k, U1)
  BY <1>3, <1>4 DEF HeldSubmitted, QueuedInOrder
<1> QED BY <1>2, <1>5 DEF Ahead, k

\* Nothing need be said of more references.
LEMMA AheadMore ==
  ASSUME NEW e, NEW w, NEW U, Ahead(e, w, U), NEW U1, U \subseteq U1
  PROVE  Ahead(e, w, U1)
<1>1. HeldSubmitted(e, w, U1)
  BY DEF Ahead, HeldSubmitted
<1>2. QueuedInOrder(e, w, U1)
  BY DEF Ahead, QueuedInOrder
<1> QED BY <1>1, <1>2 DEF Ahead

\* From e to e1 only the orders of r changed.
OnlyOf(e, e1, r) ==
  \A s \in Side, p \in Prices :
    /\ \A x \in Refs, n \in Nat :
         x # r => (Holds(Queue(e1, s, p), x, n) <=> Holds(Queue(e, s, p), x, n))
    /\ \A x, y \in Refs :
         x # r /\ y # r /\ Before(Queue(e1, s, p), x, y) => Before(Queue(e, s, p), x, y)

\* So it is from an operation.
LEMMA ApplyOnly ==
  ASSUME NEW e, IsEngine(e), NEW op \in ResolvedOp
  PROVE  OnlyOf(e, apply(e, op), op.ref)
<1>1. \A s \in Side, p \in Prices :
        OthersStay(Queue(e, s, p), Queue(apply(e, op), s, p), op.ref)
  BY ApplyOthers
<1> QED BY <1>1 DEF OnlyOf, OthersStay

\* A change to the orders of one reference, with an entry or without, leaves
\* the log ahead of the others.
LEMMA AheadOnly ==
  ASSUME NEW e, NEW w, NEW U, Ahead(e, w, U), NEW x \in WalEntry, NEW e1, OnlyOf(e, e1, x.ref),
         NEW U1, U \subseteq U1, x.ref \in U1
  PROVE  /\ Ahead(e1, w, U1)
         /\ Ahead(e1, Append(Kept(w, Refs \ {x.ref}), x), U1)
<1> DEFINE k == Append(Kept(w, Refs \ {x.ref}), x)
<1>1. w \in Seq(WalEntry) /\ OncePerRef(w)
  BY DEF Ahead
<1>2. /\ k \in Seq(WalEntry) /\ OncePerRef(k)
      /\ \A i \in 1 .. Len(w) : w[i].ref # x.ref => \E j \in 1 .. Len(k) : k[j] = w[i]
      /\ \A r, t \in Refs \ {x.ref} : Later(w, r, t) => Later(k, r, t)
  BY <1>1, AppendedHas
<1> HIDE DEF k
<1>3. ASSUME NEW s \in Side, NEW p \in Prices, NEW r \in Refs, NEW n \in Nat,
             r \notin U1, Holds(Queue(e1, s, p), r, n)
      PROVE  Submitted(w, r, s, p, n) /\ Submitted(k, r, s, p, n)
  <2>1. Holds(Queue(e, s, p), r, n) /\ r \notin U /\ r # x.ref
    BY <1>3 DEF OnlyOf
  <2>2. Submitted(w, r, s, p, n)
    BY <1>3, <2>1 DEF Ahead, HeldSubmitted
  <2>3. PICK i \in 1 .. Len(w) : Submits(w[i], r, s, p, n)
    BY <2>2 DEF Submitted
  <2>4. PICK j \in 1 .. Len(k) : k[j] = w[i]
    BY <1>2, <2>1, <2>3 DEF Submits
  <2> QED BY <2>2, <2>3, <2>4 DEF Submitted
<1>4. ASSUME NEW s \in Side, NEW p \in Prices, NEW a \in Refs, NEW c \in Refs,
             a \notin U1, c \notin U1, Before(Queue(e1, s, p), a, c)
      PROVE  Later(w, a, c) /\ Later(k, a, c)
  <2>1. Before(Queue(e, s, p), a, c) /\ a \notin U /\ c \notin U /\ a # x.ref /\ c # x.ref
    BY <1>4 DEF OnlyOf
  <2>2. Later(w, a, c)
    BY <1>4, <2>1 DEF Ahead, QueuedInOrder
  <2> QED BY <1>2, <2>1, <2>2
<1>5. HeldSubmitted(e1, w, U1) /\ HeldSubmitted(e1, k, U1)
  BY <1>3 DEF HeldSubmitted
<1>6. QueuedInOrder(e1, w, U1) /\ QueuedInOrder(e1, k, U1)
  BY <1>4 DEF QueuedInOrder
<1> QED BY <1>1, <1>2, <1>5, <1>6 DEF Ahead, k

\* An entry for an order that does not rest changes nothing for the others.
LEMMA AheadRejected ==
  ASSUME NEW e, IsEngine(e), NEW w, NEW U, Ahead(e, w, U), NEW x \in WalEntry,
         ~ Rests(e, x.ref)
  PROVE  Ahead(e, Append(Kept(w, Refs \ {x.ref}), x), U \ {x.ref})
<1> DEFINE k == Append(Kept(w, Refs \ {x.ref}), x)
<1>1. w \in Seq(WalEntry) /\ OncePerRef(w)
  BY DEF Ahead
<1>2. /\ k \in Seq(WalEntry) /\ OncePerRef(k)
      /\ \A i \in 1 .. Len(w) : w[i].ref # x.ref => \E j \in 1 .. Len(k) : k[j] = w[i]
      /\ \A r, t \in Refs \ {x.ref} : Later(w, r, t) => Later(k, r, t)
  BY <1>1, AppendedHas
<1> HIDE DEF k
<1>3. ASSUME NEW s \in Side, NEW p \in Prices, NEW r \in Refs, NEW n \in Nat,
             r \notin U \ {x.ref}, Holds(Queue(e, s, p), r, n)
      PROVE  Submitted(k, r, s, p, n)
  <2>1. r # x.ref
    BY <1>3, InQueue
  <2>2. Submitted(w, r, s, p, n)
    BY <1>3, <2>1 DEF Ahead, HeldSubmitted
  <2>3. PICK i \in 1 .. Len(w) : Submits(w[i], r, s, p, n)
    BY <2>2 DEF Submitted
  <2>4. PICK j \in 1 .. Len(k) : k[j] = w[i]
    BY <1>2, <2>1, <2>3 DEF Submits
  <2> QED BY <2>3, <2>4 DEF Submitted
<1>4. ASSUME NEW s \in Side, NEW p \in Prices, NEW a \in Refs, NEW c \in Refs,
             a \notin U \ {x.ref}, c \notin U \ {x.ref}, Before(Queue(e, s, p), a, c)
      PROVE  Later(k, a, c)
  <2>1. a # x.ref /\ c # x.ref
    BY <1>4, InQueue
  <2>2. Later(w, a, c)
    BY <1>4, <2>1 DEF Ahead, QueuedInOrder
  <2> QED BY <1>2, <2>1, <2>2
<1>5. HeldSubmitted(e, k, U \ {x.ref}) /\ QueuedInOrder(e, k, U \ {x.ref})
  BY <1>3, <1>4 DEF HeldSubmitted, QueuedInOrder
<1> QED BY <1>2, <1>5 DEF Ahead, k

\* What an Add means for the queues, when its reference is free.
Brings(e, e1, op) ==
  /\ ~ Rests(e, op.ref)
  /\ \A s \in Side, p \in Prices :
       /\ \A r \in Refs, n \in Nat :
            Holds(Queue(e1, s, p), r, n) =>
              IF r = op.ref THEN s = op.side /\ p = op.price /\ n = op.qty
              ELSE Holds(Queue(e, s, p), r, n)
       /\ \A x, y \in Refs :
            Before(Queue(e1, s, p), x, y) =>
              /\ x # op.ref
              /\ IF y = op.ref THEN Has(Queue(e, s, p), x) ELSE Before(Queue(e, s, p), x, y)

\* An Add brings its order to the end of its queue.
LEMMA AddBrings ==
  ASSUME NEW e, IsEngine(e), NEW op \in ResolvedOp, op.action = "Add", NEW o,
         Keeps(e, op.ref, o, FALSE)
  PROVE  Brings(e, apply(e, op), op)
<1> DEFINE e1 == apply(e, op)
<1>1. KeepsOrder(e, e1, op) /\ IsEngine(e1)
  BY ApplyOthers
<1>2. \A s \in Side, p \in Prices :
        OthersStay(Queue(e, s, p), Queue(e1, s, p), op.ref)
  BY ApplyOthers
<1>3. Keeps(e1, op.ref, op, op.qty # 0)
  BY OwnAdd
<1> HIDE DEF e1
<1>4. \A s \in Side, p \in Prices : ~ Has(Queue(e, s, p), op.ref)
  BY KeepsIs
<1>5. ~ Rests(e, op.ref)
  BY <1>4 DEF Rests
<1>6. ASSUME NEW s \in Side, NEW p \in Prices, NEW r \in Refs, NEW n \in Nat,
             Holds(Queue(e1, s, p), r, n)
      PROVE  IF r = op.ref THEN s = op.side /\ p = op.price /\ n = op.qty
             ELSE Holds(Queue(e, s, p), r, n)
  <2>1. CASE r = op.ref
    BY <1>3, <1>6, <2>1 DEF Keeps
  <2>2. CASE r # op.ref
    BY <1>2, <1>6, <2>2 DEF OthersStay
  <2> QED BY <2>1, <2>2
<1>7. ASSUME NEW s \in Side, NEW p \in Prices, NEW x \in Refs, NEW y \in Refs,
             Before(Queue(e1, s, p), x, y)
      PROVE  /\ x # op.ref
             /\ IF y = op.ref THEN Has(Queue(e, s, p), x) ELSE Before(Queue(e, s, p), x, y)
  <2>1. \/ Before(Queue(e, s, p), x, y)
        \/ y = op.ref /\ Has(Queue(e, s, p), x)
    BY <1>1, <1>7 DEF KeepsOrder
  <2>2. Before(Queue(e, s, p), x, y) => Has(Queue(e, s, p), x) /\ Has(Queue(e, s, p), y)
    BY InQueue
  <2> QED BY <1>4, <2>1, <2>2
<1>8. Brings(e, e1, op)
  BY <1>5, <1>6, <1>7 DEF Brings
<1> QED BY <1>8 DEF e1

\* A new order whose submission the log has is the last of both.
LEMMA AheadSubmitted ==
  ASSUME NEW e, IsEngine(e), NEW w, NEW U, Ahead(e, w, U), NEW e1, NEW op, Brings(e, e1, op),
         NEW x \in WalEntry, op.qty \in Nat,
         x.ref = op.ref, Submits(x, op.ref, op.side, op.price, op.qty)
  PROVE  Ahead(e1, Append(Kept(w, Refs \ {x.ref}), x), U \ {x.ref})
<1> DEFINE k == Append(Kept(w, Refs \ {x.ref}), x)
<1>1. w \in Seq(WalEntry) /\ OncePerRef(w)
  BY DEF Ahead
<1>2. /\ k \in Seq(WalEntry) /\ OncePerRef(k)
      /\ \E j \in 1 .. Len(k) : k[j] = x
      /\ \A i \in 1 .. Len(w) : w[i].ref # x.ref => /\ \E j \in 1 .. Len(k) : k[j] = w[i]
                                                    /\ Later(k, w[i].ref, x.ref)
      /\ \A r, t \in Refs \ {x.ref} : Later(w, r, t) => Later(k, r, t)
  BY <1>1, AppendedHas
<1> HIDE DEF k
<1>3. ASSUME NEW s \in Side, NEW p \in Prices, NEW r \in Refs, NEW n \in Nat,
             r \notin U, r # x.ref, Holds(Queue(e, s, p), r, n)
      PROVE  \E i \in 1 .. Len(w) : Submits(w[i], r, s, p, n) /\ w[i].ref = r
  <2>1. Submitted(w, r, s, p, n)
    BY <1>3 DEF Ahead, HeldSubmitted
  <2> QED BY <2>1 DEF Submitted, Submits
<1>4. ASSUME NEW s \in Side, NEW p \in Prices, NEW r \in Refs, NEW n \in Nat,
             r \notin U \ {x.ref}, Holds(Queue(e1, s, p), r, n)
      PROVE  Submitted(k, r, s, p, n)
  <2>1. CASE r = x.ref
    <3>1. s = op.side /\ p = op.price /\ n = op.qty
      BY <1>4, <2>1 DEF Brings
    <3> QED BY <1>2, <2>1, <3>1 DEF Submitted
  <2>2. CASE r # x.ref
    <3>1. Holds(Queue(e, s, p), r, n) /\ r \notin U
      BY <1>4, <2>2 DEF Brings
    <3>2. PICK i \in 1 .. Len(w) : Submits(w[i], r, s, p, n) /\ w[i].ref = r
      BY <1>3, <1>4, <2>2, <3>1
    <3>3. PICK j \in 1 .. Len(k) : k[j] = w[i]
      BY <1>2, <2>2, <3>2
    <3> QED BY <3>2, <3>3 DEF Submitted
  <2> QED BY <2>1, <2>2
<1>5. ASSUME NEW s \in Side, NEW p \in Prices, NEW a \in Refs, NEW c \in Refs,
             a \notin U \ {x.ref}, c \notin U \ {x.ref}, Before(Queue(e1, s, p), a, c)
      PROVE  Later(k, a, c)
  <2>1. /\ a # x.ref
        /\ IF c = x.ref THEN Has(Queue(e, s, p), a) ELSE Before(Queue(e, s, p), a, c)
    BY <1>5 DEF Brings
  <2>2. CASE c = x.ref
    <3>1. Queue(e, s, p) \in Seq(Queued)
      BY SideIs
    <3>2. PICK n \in Nat : Holds(Queue(e, s, p), a, n)
      BY <2>1, <2>2, <3>1, HasIsHolds
    <3>3. a \notin U
      BY <1>5, <2>1
    <3>4. PICK i \in 1 .. Len(w) : Submits(w[i], a, s, p, n) /\ w[i].ref = a
      BY <1>3, <1>5, <2>1, <3>2, <3>3
    <3> QED BY <1>2, <2>1, <2>2, <3>4
  <2>3. CASE c # x.ref
    <3>1. Before(Queue(e, s, p), a, c) /\ a \notin U /\ c \notin U
      BY <1>5, <2>1, <2>3
    <3>2. Later(w, a, c)
      BY <1>5, <3>1 DEF Ahead, QueuedInOrder
    <3> QED BY <1>2, <2>1, <2>3, <3>2
  <2> QED BY <2>2, <2>3
<1>6. HeldSubmitted(e1, k, U \ {x.ref}) /\ QueuedInOrder(e1, k, U \ {x.ref})
  BY <1>4, <1>5 DEF HeldSubmitted, QueuedInOrder
<1> QED BY <1>2, <1>6 DEF Ahead, k

----------------------------------------------------------------------------
(* The live exchange: the risk engine *)

\* The risk table, which holds the one symbol and never a fill.
Table0 == <<[stock |-> Stock, net |-> 0, ref_price |-> RefPrice]>>

\* What the risk engine lets through.
Within(s, p, n) ==
  /\ n # 0 /\ p # 0 /\ ~ (n > MAX_ORDER_SIZE)
  /\ ~ (RefPrice > 0 /\ Distance(p, RefPrice) >= MAX_PRICE_BAND)
  /\ ~ (Signed(s, n) > MAX_NET_POSITION \/ Signed(s, n) < -MAX_NET_POSITION)

\* The symbol is found in the table, so nothing is added to it.
LEMMA TableHas == Create(Table0, Stock) = Table0 /\ Slot(Table0, Stock) = 1
<1>1. Len(Table0) = 1 /\ Table0[1].stock = Stock
  BY DEF Table0
<1>2. Listed(Table0, Stock) = 1
  <2> DEFINE I == {i \in 1 .. Len(Table0) : Table0[i].stock = Stock}
  <2>1. Listed(Table0, Stock) = IF I # {} THEN Min(I) ELSE 0
    BY DEF Listed, SelectInSeq
  <2>2. I = {1}
    BY <1>1
  <2> HIDE DEF I
  <2>3. Min(I) = 1
    BY <2>2 DEF Min
  <2> QED BY <2>1, <2>2, <2>3
<1>3. Create(Table0, Stock) = Table0
  BY <1>2 DEF Create
<1> QED BY <1>2, <1>3 DEF Slot

\* The reference price is set on the empty table.
LEMMA TableInit ==
  set_reference_price(<< >>, Stock, RefPrice) = Table0
<1>1. Listed(<< >>, Stock) = 0
  BY DEF Listed, SelectInSeq
<1> DEFINE t == <<NewEntry(Stock)>>
<1>2. Create(<< >>, Stock) = t
  BY <1>1, LimitsAssumption DEF Create
<1>3. Len(t) = 1 /\ t[1] = NewEntry(Stock) /\ t[1].stock = Stock
  BY DEF NewEntry
<1>4. Listed(t, Stock) = 1
  <2> HIDE DEF t
  <2> DEFINE I == {i \in 1 .. Len(t) : t[i].stock = Stock}
  <2>1. Listed(t, Stock) = IF I # {} THEN Min(I) ELSE 0
    BY DEF Listed, SelectInSeq
  <2>2. I = {1}
    BY <1>3
  <2> HIDE DEF I
  <2>3. Min(I) = 1
    BY <2>2 DEF Min
  <2> QED BY <2>1, <2>2, <2>3
<1>5. Slot(<< >>, Stock) = 1
  BY <1>2, <1>4 DEF Slot
<1>6. set_reference_price(<< >>, Stock, RefPrice) = [t EXCEPT ![1].ref_price = RefPrice]
  BY <1>2, <1>5 DEF set_reference_price
<1>7. [t EXCEPT ![1].ref_price = RefPrice] = <<[NewEntry(Stock) EXCEPT !.ref_price = RefPrice]>>
  BY <1>3
<1>8. [NewEntry(Stock) EXCEPT !.ref_price = RefPrice]
        = [stock |-> Stock, net |-> 0, ref_price |-> RefPrice]
  BY DEF NewEntry
<1> QED BY <1>6, <1>7, <1>8 DEF Table0

\* A check leaves the table.
LEMMA TableChecked ==
  ASSUME NEW op
  PROVE  Checked(Table0, ProbeOf(op)) = Table0
<1>1. ProbeOf(op).stock = Stock
  BY DEF ProbeOf
<1> QED BY <1>1, TableHas DEF Checked

\* So what it lets through stays the same.
LEMMA AcceptsIs ==
  ASSUME risk = Table0, NEW op, op.side \in Side, op.qty \in Nat
  PROVE  Accepts(op) <=> Within(op.side, op.price, op.qty)
<1> DEFINE o == ProbeOf(op)
           x == Create(Table0, o.stock)[Slot(Table0, o.stock)]
<1>1. /\ o.stock = Stock /\ o.side = op.side /\ o.price = op.price /\ o.qty = op.qty
  BY DEF ProbeOf
<1>2. x.net = 0 /\ x.ref_price = RefPrice
  BY <1>1, TableHas DEF Table0
<1>3. Signed(op.side, op.qty) \in Int
  BY DEF Signed
<1>4. x.net + Signed(o.side, o.qty) = Signed(op.side, op.qty)
  BY <1>1, <1>2, <1>3
<1> HIDE DEF o
<1>5. check(Table0, o) = "Accepted" <=> Within(op.side, op.price, op.qty)
  <2> DEFINE far == x.ref_price > 0 /\ Distance(o.price, x.ref_price) >= MAX_PRICE_BAND
             pos == x.net + Signed(o.side, o.qty)
             over == pos > MAX_NET_POSITION \/ pos < -MAX_NET_POSITION
  <2>1. check(Table0, o) =
          IF Malformed(o) THEN "InvalidOrder"
          ELSE IF o.qty > MAX_ORDER_SIZE THEN "ExceedsMaxSize"
          ELSE IF far THEN "PriceOutOfBand"
          ELSE IF over THEN "ExceedsPosition" ELSE "Accepted"
    BY DEF check
  <2>2. far <=> RefPrice > 0 /\ Distance(op.price, RefPrice) >= MAX_PRICE_BAND
    BY <1>1, <1>2
  <2>3. over <=> \/ Signed(op.side, op.qty) > MAX_NET_POSITION
                 \/ Signed(op.side, op.qty) < -MAX_NET_POSITION
    BY <1>4
  <2> HIDE DEF far, over, x
  <2> QED BY <1>1, <2>1, <2>2, <2>3 DEF Within, Malformed
<1> QED BY <1>5 DEF Accepts, o

\* Fewer shares pass where more did.
LEMMA WithinLess ==
  ASSUME NEW s, NEW p, NEW n \in Nat, NEW k \in Nat \ {0}, k <= n, Within(s, p, n)
  PROVE  Within(s, p, k)
BY LimitsAssumption DEF Within, Signed

\* What the engine holds would pass.
Passing(e) ==
  \A s \in Side, p \in Prices, r \in Refs, n \in Nat :
    Holds(Queue(e, s, p), r, n) => Within(s, p, n)

\* It still does when orders shrink.
LEMMA PassingApply ==
  ASSUME NEW e, IsEngine(e), Passing(e), NEW op \in ResolvedOp, op.action # "Add"
  PROVE  Passing(apply(e, op))
<1> DEFINE e1 == apply(e, op)
<1>1. IsEngine(e1) /\ \A s \in Side, p \in Prices : NoneGrows(Queue(e, s, p), Queue(e1, s, p))
  BY ApplyOthers
<1> HIDE DEF e1
<1>2. ASSUME NEW s \in Side, NEW p \in Prices, NEW r \in Refs, NEW n \in Nat,
             Holds(Queue(e1, s, p), r, n)
      PROVE  Within(s, p, n)
  <2>1. PICK k \in Nat : n <= k /\ Holds(Queue(e, s, p), r, k)
    BY <1>1, <1>2 DEF NoneGrows
  <2>2. Within(s, p, k)
    BY <2>1 DEF Passing
  <2>3. Queue(e1, s, p) \in Seq(Queued)
    BY <1>1, SideIs
  <2>4. n \in Nat \ {0}
    BY <1>2, <2>3, HasIsHolds
  <2> QED BY <2>1, <2>2, <2>4, WithinLess
<1> QED BY <1>2 DEF Passing, e1

\* And when an order comes that passes.
LEMMA PassingAdd ==
  ASSUME NEW e, IsEngine(e), Passing(e), NEW op \in ResolvedOp, op.action = "Add",
         Within(op.side, op.price, op.qty)
  PROVE  Passing(apply(e, op))
<1> DEFINE e1 == apply(e, op)
<1>1. op.qty # 0
  BY DEF Within
<1>2. \A s \in Side, p \in Prices, r \in Refs, n \in Nat :
        Holds(Queue(e1, s, p), r, n)
          <=> \/ Holds(Queue(e, s, p), r, n)
              \/ r = op.ref /\ s = op.side /\ p = op.price /\ n = op.qty
  BY <1>1, AddHolds
<1> HIDE DEF e1
<1>3. Passing(e1)
  BY <1>2 DEF Passing
<1> QED BY <1>3 DEF e1

----------------------------------------------------------------------------
(* The live exchange: table, engine, log and risk together *)

\* A live order of no shares was refused.
NoShares(b, out) == \A r \in Refs : b[r] # None /\ b[r].qty = 0 => r \in out

\* The engine has the shares of the table's order of r, at its level.
CoveredAt(b, e, r) ==
  \E n \in Nat : n >= b[r].qty /\ Holds(Queue(e, b[r].side, b[r].price), r, n)

\* It has those of every order that was not refused.
Covered(b, e, out) == \A r \in Refs : Shown(b, r) /\ r \notin out => CoveredAt(b, e, r)

\* The engine has the accepted orders of the table, all of which pass the risk
\* checks, and the log is ahead of it.  Of a reference in dup, which was given
\* out again, only its last order is looked at, and the log is not.
Sound(b, e, w, out, U, dup) ==
  /\ Matched(b, e, out, dup) /\ Covered(b, e, out)
  /\ NoShares(b, out) /\ Passing(e) /\ Ahead(e, w, U \cup dup)

\* The parts of it.
LEMMA SoundHas ==
  ASSUME NEW b, NEW e, NEW w, NEW out, NEW U, NEW dup, Sound(b, e, w, out, U, dup)
  PROVE  /\ Matched(b, e, out, dup) /\ Covered(b, e, out) /\ NoShares(b, out)
         /\ Passing(e) /\ Ahead(e, w, U \cup dup) /\ IsEngine(e) /\ Booked(b)
BY DEF Sound, Matched

\* What becomes of r is all there is to what an operation on r does.
LEMMA CoveredBut ==
  ASSUME NEW b, NEW e, NEW out, Covered(b, e, out), Booked(b), NEW r \in Refs,
         NEW b1, NEW e1, NEW out1, OnlyOf(e, e1, r),
         \A x \in Refs : x # r => b1[x] = b[x] /\ (x \in out <=> x \in out1),
         Shown(b1, r) /\ r \notin out1 => CoveredAt(b1, e1, r)
  PROVE  Covered(b1, e1, out1)
<1>1. ASSUME NEW x \in Refs, x # r, Shown(b1, x), x \notin out1
      PROVE  CoveredAt(b1, e1, x)
  <2>1. b1[x] = b[x] /\ x \notin out /\ Shown(b, x)
    BY <1>1 DEF Shown
  <2>2. b[x].side \in Side /\ b[x].price \in Prices
    BY <2>1 DEF Booked, RestingOrder, Shown
  <2>3. PICK n \in Nat : n >= b[x].qty /\ Holds(Queue(e, b[x].side, b[x].price), x, n)
    BY <2>1 DEF Covered, CoveredAt
  <2>4. Holds(Queue(e1, b[x].side, b[x].price), x, n)
    BY <1>1, <2>2, <2>3 DEF OnlyOf
  <2> QED BY <2>1, <2>3, <2>4 DEF CoveredAt
<1> QED BY <1>1 DEF Covered

\* An order the engine covers is found by every operation on it.
LEMMA CoveredFound ==
  ASSUME NEW b, NEW e, NEW r \in Refs, Booked(b), b[r] # None, CoveredAt(b, e, r)
  PROVE  /\ b[r].side \in Side /\ b[r].price \in Prices /\ b[r].qty \in Nat
         /\ Has(Queue(e, b[r].side, b[r].price), r)
<1>1. b[r].side \in Side /\ b[r].price \in Prices /\ b[r].qty \in Nat
  BY DEF Booked, RestingOrder
<1>2. Has(Queue(e, b[r].side, b[r].price), r)
  BY DEF CoveredAt, Holds, Has
<1> QED BY <1>1, <1>2

\* An order is removed from both.
LEMMA CoveredDrop ==
  ASSUME NEW b, NEW e, NEW out, Covered(b, e, out), Booked(b), IsEngine(e),
         NEW op \in ResolvedOp, Drops(b, op)
  PROVE  /\ Covered([b EXCEPT ![op.ref] = None], apply(e, op), out)
         /\ Shown(b, op.ref) /\ op.ref \notin out => apply(e, op).orphan_ops = e.orphan_ops
<1> DEFINE r == op.ref
           b1 == [b EXCEPT ![r] = None]
<1>1. r \in Refs /\ op.action = "Delete" /\ b[r] # None
      /\ op.side = b[r].side /\ op.price = b[r].price
  BY DEF ResolvedOp, Drops
<1>2. b1[r] = None /\ \A x \in Refs : x # r => b1[x] = b[x]
  BY <1>1 DEF Booked
<1>3. OnlyOf(e, apply(e, op), r)
  BY ApplyOnly
<1>4. ~ Shown(b1, r)
  BY <1>2 DEF Shown
<1>5. ASSUME Shown(b, r), r \notin out PROVE apply(e, op).orphan_ops = e.orphan_ops
  <2>1. CoveredAt(b, e, r)
    BY <1>1, <1>5 DEF Covered
  <2>2. b[r].price \in Prices /\ Has(Queue(e, b[r].side, b[r].price), r)
    BY <1>1, <2>1, CoveredFound
  <2> QED BY <1>1, <2>2, FoundIsNoOrphan
<1> HIDE DEF r, b1
<1>6. Covered(b1, apply(e, op), out)
  BY <1>1, <1>2, <1>3, <1>4, CoveredBut
<1> QED BY <1>5, <1>6 DEF r, b1

\* Shares are taken off an order in both.
LEMMA CoveredTake ==
  ASSUME NEW b, NEW e, NEW out, Covered(b, e, out), Booked(b), IsEngine(e),
         NEW op \in ResolvedOp, Takes(b, op)
  PROVE  /\ Covered([b EXCEPT ![op.ref] = Left(@, op.qty)], apply(e, op), out)
         /\ Shown(b, op.ref) /\ op.ref \notin out => apply(e, op).orphan_ops = e.orphan_ops
<1> DEFINE r == op.ref
           n == op.qty
           o == b[r]
           left == Left(o, n)
           b1 == [b EXCEPT ![r] = left]
           e1 == apply(e, op)
<1>1. /\ r \in Refs /\ n \in Nat /\ op.action \in {"Cancel", "Execute"} /\ o # None
      /\ op.side = o.side /\ n <= o.qty /\ (op.action = "Cancel" => op.price = o.price)
  BY DEF ResolvedOp, Takes
<1>2. o \in RestingOrder /\ o.price \in Prices /\ o.qty \in Nat
  BY <1>1 DEF Booked, RestingOrder
<1>3. b1[r] = left /\ \A x \in Refs : x # r => b1[x] = b[x]
  BY <1>1 DEF Booked
<1>4. left # None => left.side = o.side /\ left.price = o.price /\ left.qty = o.qty - n
  BY <1>2 DEF Left, RestingOrder
<1>5. OnlyOf(e, e1, r)
  BY ApplyOnly
<1>6. ASSUME Shown(b, r), r \notin out
      PROVE  e1.orphan_ops = e.orphan_ops /\ (Shown(b1, r) => CoveredAt(b1, e1, r))
  <2>1. PICK k \in Nat : k >= o.qty /\ Holds(Queue(e, o.side, o.price), r, k)
    BY <1>1, <1>6 DEF Covered, CoveredAt
  <2>2. Holds(Queue(e, op.side, o.price), op.ref, k)
    BY <1>1, <2>1
  <2>3. /\ e1.orphan_ops = e.orphan_ops
        /\ n < k => \E h \in Nat : h >= k - n /\ Holds(Queue(e1, op.side, o.price), r, h)
    BY <1>1, <1>2, <2>2, TakeLeaves
  <2> HIDE DEF r, n, o, left, b1, e1
  <2>4. ASSUME Shown(b1, r) PROVE CoveredAt(b1, e1, r)
    <3>1. left # None /\ left.qty > 0
      BY <1>3, <2>4 DEF Shown
    <3>2. n < k
      BY <1>1, <1>2, <1>4, <2>1, <3>1
    <3>3. PICK h \in Nat : h >= k - n /\ Holds(Queue(e1, op.side, o.price), r, h)
      BY <2>3, <3>2
    <3>4. h >= left.qty
      BY <1>1, <1>2, <1>4, <2>1, <3>1, <3>3
    <3> QED BY <1>1, <1>3, <1>4, <3>1, <3>3, <3>4 DEF CoveredAt
  <2> QED BY <2>3, <2>4
<1>7. Shown(b1, r) /\ r \notin out => CoveredAt(b1, e1, r)
  <2>1. Shown(b1, r) => Shown(b, r)
    BY <1>1, <1>2, <1>3, <1>4 DEF Shown
  <2> QED BY <1>6, <2>1
<1>8. [b EXCEPT ![op.ref] = Left(@, op.qty)] = b1
  OBVIOUS
<1> HIDE DEF b1, e1, r
<1>9. Covered(b1, e1, out)
  BY <1>1, <1>3, <1>5, <1>7, CoveredBut
<1> QED BY <1>6, <1>8, <1>9 DEF e1, r

\* A new order comes to both, or to the table only.
LEMMA CoveredAdd ==
  ASSUME NEW b, NEW e, NEW out, Covered(b, e, out), Booked(b), IsEngine(e),
         NEW o \in RestingOrder
  PROVE  /\ o.qty # 0 =>
              /\ Covered([b EXCEPT ![o.ref] = o], apply(e, AddOp(o)), out \ {o.ref})
              /\ apply(e, AddOp(o)).orphan_ops = e.orphan_ops
         /\ Covered([b EXCEPT ![o.ref] = o], e, out \cup {o.ref})
<1> DEFINE r == o.ref
           op == AddOp(o)
           b1 == [b EXCEPT ![r] = o]
           e1 == apply(e, op)
<1>1. r \in Refs /\ o.qty \in Nat /\ o.side \in Side /\ o.price \in Prices
  BY DEF RestingOrder
<1>2. /\ op \in ResolvedOp /\ op.action = "Add" /\ op.ref = r
      /\ op.side = o.side /\ op.price = o.price /\ op.qty = o.qty
  BY AddOpIs
<1>3. b1[r] = o /\ \A x \in Refs : x # r => b1[x] = b[x]
  BY <1>1 DEF Booked
<1> HIDE DEF op
<1>4. OnlyOf(e, e1, r) /\ OnlyOf(e, e, r)
  <2>1. OnlyOf(e, e, r)
    BY DEF OnlyOf
  <2> QED BY <1>2, <2>1, ApplyOnly
<1>5. ASSUME o.qty # 0
      PROVE  Covered(b1, e1, out \ {r}) /\ e1.orphan_ops = e.orphan_ops
  <2>1. /\ \A s \in Side, p \in Prices, x \in Refs, n \in Nat :
             Holds(Queue(e1, s, p), x, n)
               <=> \/ Holds(Queue(e, s, p), x, n)
                   \/ x = op.ref /\ s = op.side /\ p = op.price /\ n = op.qty
        /\ e1.orphan_ops = e.orphan_ops
    BY <1>2, <1>5, AddHolds
  <2> HIDE DEF e1, b1, r
  <2>2. Holds(Queue(e1, o.side, o.price), r, o.qty)
    BY <1>1, <1>2, <2>1
  <2>3. CoveredAt(b1, e1, r)
    BY <1>1, <1>3, <2>2 DEF CoveredAt
  <2>4. Covered(b1, e1, out \ {r})
    BY <1>1, <1>3, <1>4, <2>3, CoveredBut
  <2> QED BY <2>1, <2>4
<1> HIDE DEF b1, r, e1
<1>6. Covered(b1, e, out \cup {r})
  BY <1>1, <1>3, <1>4, CoveredBut
<1> QED BY <1>5, <1>6 DEF r, b1, e1, op

\* A trade leaves both.
LEMMA CoveredTrade ==
  ASSUME NEW b, NEW e, NEW out, Covered(b, e, out), Booked(b), NEW e1, SameQueues(e, e1)
  PROVE  Covered(b, e1, out)
<1>1. ASSUME NEW r \in Refs, Shown(b, r), r \notin out PROVE CoveredAt(b, e1, r)
  <2>1. CoveredAt(b, e, r)
    BY <1>1 DEF Covered
  <2>2. b[r].side \in Side /\ b[r].price \in Prices
    BY <1>1 DEF Booked, RestingOrder, Shown
  <2>3. Queue(e1, b[r].side, b[r].price) = Queue(e, b[r].side, b[r].price)
    BY <2>2 DEF SameQueues
  <2> QED BY <2>1, <2>3 DEF CoveredAt
<1> QED BY <1>1 DEF Covered

\* No operation became an orphan from e to e1.
SameOrphans(e, e1) == e1.orphan_ops = e.orphan_ops

\* Removing an order keeps all of it, and is no orphan unless it was refused.
LEMMA SoundDrop ==
  ASSUME NEW b, NEW e, NEW w, NEW out, NEW U, NEW dup, Sound(b, e, w, out, U, dup),
         NEW op \in ResolvedOp, Drops(b, op)
  PROVE  /\ Sound([b EXCEPT ![op.ref] = None], apply(e, op), w, out, U, dup)
         /\ op.ref \notin out => SameOrphans(e, apply(e, op))
<1> DEFINE b1 == [b EXCEPT ![op.ref] = None]
           e1 == apply(e, op)
<1>1. /\ Matched(b, e, out, dup) /\ Covered(b, e, out) /\ NoShares(b, out)
      /\ Passing(e) /\ Ahead(e, w, U \cup dup) /\ IsEngine(e) /\ Booked(b)
  BY SoundHas
<1>2. op.ref \in Refs /\ op.action # "Add" /\ b[op.ref] # None
  BY DEF Drops, ResolvedOp
<1>3. Matched(b1, e1, out, dup)
  BY <1>1, MatchedDrop
<1>4. /\ Covered(b1, e1, out)
      /\ Shown(b, op.ref) /\ op.ref \notin out => e1.orphan_ops = e.orphan_ops
  BY <1>1, CoveredDrop
<1>5. Passing(e1) /\ Ahead(e1, w, U \cup dup)
  BY <1>1, <1>2, PassingApply, AheadApply
<1>6. NoShares(b1, out)
  <2>1. b1[op.ref] = None /\ \A x \in Refs : x # op.ref => b1[x] = b[x]
    BY <1>1, <1>2 DEF Booked
  <2> HIDE DEF b1
  <2> QED BY <1>1, <2>1 DEF NoShares
<1>7. op.ref \notin out => Shown(b, op.ref)
  <2>1. b[op.ref] \in RestingOrder
    BY <1>1, <1>2 DEF Booked
  <2>2. b[op.ref].qty \in Nat
    BY <2>1 DEF RestingOrder
  <2> QED BY <1>1, <1>2, <2>2 DEF NoShares, Shown
<1> HIDE DEF b1, e1
<1>8. Sound(b1, e1, w, out, U, dup)
  BY <1>3, <1>4, <1>5, <1>6 DEF Sound
<1> QED BY <1>4, <1>7, <1>8 DEF b1, e1, SameOrphans

\* Taking shares off an order does too.
LEMMA SoundTake ==
  ASSUME NEW b, NEW e, NEW w, NEW out, NEW U, NEW dup, Sound(b, e, w, out, U, dup),
         NEW op \in ResolvedOp, Takes(b, op)
  PROVE  /\ Sound([b EXCEPT ![op.ref] = Left(@, op.qty)], apply(e, op), w, out, U, dup)
         /\ op.ref \notin out => SameOrphans(e, apply(e, op))
<1> DEFINE o1 == Left(b[op.ref], op.qty)
           b1 == [b EXCEPT ![op.ref] = o1]
           e1 == apply(e, op)
<1>1. /\ Matched(b, e, out, dup) /\ Covered(b, e, out) /\ NoShares(b, out)
      /\ Passing(e) /\ Ahead(e, w, U \cup dup) /\ IsEngine(e) /\ Booked(b)
  BY SoundHas
<1>2. /\ op.ref \in Refs /\ op.qty \in Nat
      /\ op.action # "Add" /\ b[op.ref] # None /\ op.qty <= b[op.ref].qty
  BY DEF Takes, ResolvedOp
<1>3. Matched([b EXCEPT ![op.ref] = Left(@, op.qty)], e1, out, dup)
  BY <1>1, MatchedTake
<1>4. /\ Covered([b EXCEPT ![op.ref] = Left(@, op.qty)], e1, out)
      /\ Shown(b, op.ref) /\ op.ref \notin out => e1.orphan_ops = e.orphan_ops
  BY <1>1, CoveredTake
<1>5. [b EXCEPT ![op.ref] = Left(@, op.qty)] = b1
  OBVIOUS
<1>6. Passing(e1) /\ Ahead(e1, w, U \cup dup)
  BY <1>1, <1>2, PassingApply, AheadApply
<1>7. b[op.ref] \in RestingOrder /\ b[op.ref].qty \in Nat
  BY <1>1, <1>2 DEF Booked, RestingOrder
<1>8. NoShares(b1, out)
  <2>1. o1 # None => o1.qty = b[op.ref].qty - op.qty /\ o1.qty # 0
    BY <1>1, <1>2, <1>7 DEF Left, RestingOrder
  <2>2. b1[op.ref] = o1 /\ \A x \in Refs : x # op.ref => b1[x] = b[x]
    BY <1>1, <1>2 DEF Booked
  <2> HIDE DEF b1, o1
  <2> QED BY <1>1, <2>1, <2>2 DEF NoShares
<1>9. op.ref \notin out => Shown(b, op.ref)
  BY <1>1, <1>2, <1>7 DEF NoShares, Shown
<1> HIDE DEF b1, e1
<1>10. Sound(b1, e1, w, out, U, dup)
  BY <1>3, <1>4, <1>5, <1>6, <1>8 DEF Sound
<1> QED BY <1>4, <1>5, <1>9, <1>10 DEF e1, SameOrphans

\* And so does a trade.
LEMMA SoundTrade ==
  ASSUME NEW b, NEW e, NEW w, NEW out, NEW U, NEW dup, Sound(b, e, w, out, U, dup),
         NEW op \in ResolvedOp, op.action = "Trade"
  PROVE  Sound(b, apply(e, op), w, out, U, dup) /\ SameOrphans(e, apply(e, op))
<1> DEFINE e1 == apply(e, op)
<1>1. /\ Matched(b, e, out, dup) /\ Covered(b, e, out) /\ NoShares(b, out)
      /\ Passing(e) /\ Ahead(e, w, U \cup dup) /\ IsEngine(e) /\ Booked(b)
  BY SoundHas
<1>2. Matched(b, e1, out, dup) /\ e1.orphan_ops = e.orphan_ops /\ SameQueues(e, e1)
  BY <1>1, MatchedTrade
<1>3. Passing(e1) /\ Ahead(e1, w, U \cup dup)
  BY <1>1, PassingApply, AheadApply
<1> HIDE DEF e1
<1>4. Covered(b, e1, out)
  BY <1>1, <1>2, CoveredTrade
<1>5. Sound(b, e1, w, out, U, dup)
  BY <1>1, <1>2, <1>3, <1>4 DEF Sound
<1> QED BY <1>2, <1>5 DEF e1, SameOrphans

\* A reference that is free, and was not given out again, rests nowhere.
LEMMA FreeRests ==
  ASSUME NEW b, NEW e, NEW out, NEW dup, Matched(b, e, out, dup),
         NEW r \in Refs, r \notin dup, b[r] = None
  PROVE  Keeps(e, r, b[r], FALSE) /\ ~ Rests(e, r)
<1>1. (Shown(b, r) /\ r \notin out) = FALSE
  BY DEF Shown
<1>2. Keeps(e, r, b[r], Shown(b, r) /\ r \notin out) /\ IsEngine(e)
  BY DEF Matched
<1>3. Keeps(e, r, b[r], FALSE)
  BY <1>1, <1>2
<1>4. \A s \in Side, p \in Prices : ~ Has(Queue(e, s, p), r)
  BY <1>2, <1>3, KeepsIs
<1> QED BY <1>3, <1>4 DEF Rests

\* An accepted order rests, with its submission in the log or without.
LEMMA SoundAccept ==
  ASSUME NEW b, NEW e, NEW w, NEW out, NEW U, NEW dup, Sound(b, e, w, out, U, dup),
         NEW o \in RestingOrder, Within(o.side, o.price, o.qty),
         NEW dup1, dup \subseteq dup1, b[o.ref] = None \/ o.ref \in dup1
  PROVE  LET op == AddOp(o)
             b1 == [b EXCEPT ![o.ref] = o]
             x  == Entry("OrderSubmitted", op)
         IN  /\ Sound(b1, apply(e, op), Append(Kept(w, Refs \ {o.ref}), x), out \ {o.ref},
                      U \ {o.ref}, dup1)
             /\ Sound(b1, apply(e, op), w, out \ {o.ref}, U \cup {o.ref}, dup1)
             /\ SameOrphans(e, apply(e, op))
<1> DEFINE op == AddOp(o)
           b1 == [b EXCEPT ![o.ref] = o]
           e1 == apply(e, op)
           x  == Entry("OrderSubmitted", op)
           k  == Append(Kept(w, Refs \ {x.ref}), x)
<1>1. /\ Matched(b, e, out, dup) /\ Covered(b, e, out) /\ NoShares(b, out)
      /\ Passing(e) /\ Ahead(e, w, U \cup dup) /\ IsEngine(e) /\ Booked(b)
  BY SoundHas
<1>2. /\ op \in ResolvedOp /\ op.action = "Add" /\ op.ref = o.ref
      /\ op.side = o.side /\ op.price = o.price /\ op.qty = o.qty
  BY AddOpIs
<1>3. /\ o.ref \in Refs /\ o.side \in Side /\ o.price \in Prices /\ o.qty \in Nat
      /\ o.qty # 0
  BY DEF RestingOrder, Within
<1>4. /\ x \in WalEntry /\ x.ref = o.ref /\ Submits(x, op.ref, op.side, op.price, op.qty)
  <2> HIDE DEF op
  <2> QED BY <1>2, <1>3 DEF Entry, WalEntry, Submits
<1>5. Matched(b1, e1, out \ {o.ref}, dup1)
  BY <1>1, MatchedAdd
<1>6. Covered(b1, e1, out \ {o.ref}) /\ e1.orphan_ops = e.orphan_ops
  BY <1>1, <1>3, CoveredAdd
<1> HIDE DEF op, x
<1>7. Passing(e1)
  BY <1>1, <1>2, PassingAdd
<1>8. NoShares(b1, out \ {o.ref})
  <2>1. b1[o.ref] = o /\ \A r \in Refs : r # o.ref => b1[r] = b[r]
    BY <1>1, <1>3 DEF Booked
  <2> HIDE DEF b1
  <2> QED BY <1>1, <1>3, <2>1 DEF NoShares
<1>9. OnlyOf(e, e1, x.ref)
  BY <1>1, <1>2, <1>4, ApplyOnly
<1>10. Ahead(e1, w, (U \cup {o.ref}) \cup dup1)
  <2>1. U \cup dup \subseteq (U \cup {o.ref}) \cup dup1 /\ x.ref \in (U \cup {o.ref}) \cup dup1
    BY <1>4
  <2> HIDE DEF e1
  <2> QED BY <1>1, <1>4, <1>9, <2>1, AheadOnly
<1>11. Ahead(e1, k, (U \ {o.ref}) \cup dup1)
  <2>1. CASE o.ref \in dup1
    <3>1. U \cup dup \subseteq (U \ {o.ref}) \cup dup1 /\ x.ref \in (U \ {o.ref}) \cup dup1
      BY <1>4, <2>1
    <3> HIDE DEF e1
    <3> QED BY <1>1, <1>4, <1>9, <3>1, AheadOnly
  <2>2. CASE o.ref \notin dup1
    <3>1. b[o.ref] = None /\ o.ref \notin dup
      BY <2>2
    <3>2. Keeps(e, op.ref, b[o.ref], FALSE)
      BY <1>1, <1>2, <1>3, <3>1, FreeRests
    <3>3. Brings(e, e1, op)
      BY <1>1, <1>2, <3>2, AddBrings
    <3> HIDE DEF e1
    <3>4. Ahead(e1, k, (U \cup dup) \ {x.ref})
      BY <1>1, <1>2, <1>3, <1>4, <3>3, AheadSubmitted
    <3>5. (U \cup dup) \ {x.ref} \subseteq (U \ {o.ref}) \cup dup1
      BY <1>4
    <3> HIDE DEF k
    <3> QED BY <3>4, <3>5, AheadMore
  <2> QED BY <2>1, <2>2
<1> HIDE DEF b1, e1
<1>12. Sound(b1, e1, w, out \ {o.ref}, U \cup {o.ref}, dup1)
  BY <1>5, <1>6, <1>7, <1>8, <1>10 DEF Sound
<1>13. Sound(b1, e1, k, out \ {o.ref}, U \ {o.ref}, dup1)
  <2> HIDE DEF k
  <2> QED BY <1>5, <1>6, <1>7, <1>8, <1>11 DEF Sound
<1>14. k = Append(Kept(w, Refs \ {o.ref}), x)
  BY <1>4
<1> HIDE DEF k
<1> QED BY <1>6, <1>12, <1>13, <1>14 DEF op, b1, e1, x, SameOrphans

\* A rejected order stays in the table and does not rest.
LEMMA SoundReject ==
  ASSUME NEW b, NEW e, NEW w, NEW out, NEW U, NEW dup, Sound(b, e, w, out, U, dup),
         NEW o \in RestingOrder,
         NEW dup1, dup \subseteq dup1, b[o.ref] = None \/ o.ref \in dup1
  PROVE  LET b1 == [b EXCEPT ![o.ref] = o]
             x  == Entry("OrderRejected", AddOp(o))
         IN  /\ Sound(b1, e, Append(Kept(w, Refs \ {o.ref}), x), out \cup {o.ref}, U \ {o.ref},
                      dup1)
             /\ Sound(b1, e, w, out \cup {o.ref}, U \cup {o.ref}, dup1)
<1> DEFINE op == AddOp(o)
           b1 == [b EXCEPT ![o.ref] = o]
           x  == Entry("OrderRejected", op)
           k  == Append(Kept(w, Refs \ {x.ref}), x)
<1>1. /\ Matched(b, e, out, dup) /\ Covered(b, e, out) /\ NoShares(b, out)
      /\ Passing(e) /\ Ahead(e, w, U \cup dup) /\ IsEngine(e) /\ Booked(b)
  BY SoundHas
<1>2. /\ op \in ResolvedOp /\ op.action = "Add" /\ op.ref = o.ref
      /\ op.side = o.side /\ op.price = o.price /\ op.qty = o.qty
  BY AddOpIs
<1>3. o.ref \in Refs /\ o.side \in Side /\ o.price \in Prices /\ o.qty \in Nat
  BY DEF RestingOrder
<1>4. x \in WalEntry /\ x.ref = o.ref
  <2> HIDE DEF op
  <2> QED BY <1>2, <1>3 DEF Entry, WalEntry
<1>5. Matched(b1, e, out \cup {o.ref}, dup1)
  BY <1>1, MatchedReject
<1>6. Covered(b1, e, out \cup {o.ref})
  BY <1>1, CoveredAdd
<1>7. NoShares(b1, out \cup {o.ref})
  <2>1. \A r \in Refs : r # o.ref => b1[r] = b[r]
    BY <1>1 DEF Booked
  <2> HIDE DEF b1
  <2> QED BY <1>1, <2>1 DEF NoShares
<1> HIDE DEF x, op, b1
<1>8. Ahead(e, w, (U \cup {o.ref}) \cup dup1)
  <2>1. U \cup dup \subseteq (U \cup {o.ref}) \cup dup1
    OBVIOUS
  <2> QED BY <1>1, <2>1, AheadMore
<1>9. Ahead(e, k, (U \ {o.ref}) \cup dup1)
  <2>1. CASE o.ref \in dup1
    <3>1. U \cup dup \subseteq (U \ {o.ref}) \cup dup1 /\ x.ref \in (U \ {o.ref}) \cup dup1
      BY <1>4, <2>1
    <3>2. OnlyOf(e, e, x.ref)
      BY DEF OnlyOf
    <3> QED BY <1>1, <1>4, <3>1, <3>2, AheadOnly
  <2>2. CASE o.ref \notin dup1
    <3>1. b[o.ref] = None /\ o.ref \notin dup
      BY <2>2
    <3>2. ~ Rests(e, x.ref)
      BY <1>1, <1>3, <1>4, <3>1, FreeRests
    <3>3. Ahead(e, k, (U \cup dup) \ {x.ref})
      BY <1>1, <1>4, <3>2, AheadRejected
    <3>4. (U \cup dup) \ {x.ref} \subseteq (U \ {o.ref}) \cup dup1
      BY <1>4
    <3> HIDE DEF k
    <3> QED BY <3>3, <3>4, AheadMore
  <2> QED BY <2>1, <2>2
<1>10. k = Append(Kept(w, Refs \ {o.ref}), x)
  BY <1>4
<1> HIDE DEF k
<1>11. Sound(b1, e, k, out \cup {o.ref}, U \ {o.ref}, dup1)
  BY <1>1, <1>5, <1>6, <1>7, <1>9 DEF Sound
<1>12. Sound(b1, e, w, out \cup {o.ref}, U \cup {o.ref}, dup1)
  BY <1>1, <1>5, <1>6, <1>7, <1>8 DEF Sound
<1> QED BY <1>10, <1>11, <1>12 DEF b1, x, op

\* The references that rest.
LEMMA RestingRefsIs ==
  ASSUME NEW e, IsEngine(e), NEW r \in Refs
  PROVE  r \in RestingRefs(e) <=> Rests(e, r)
<1>1. ASSUME r \in RestingRefs(e) PROVE Rests(e, r)
  <2>1. PICK o \in Resting(e) : o.ref = r
    BY <1>1 DEF RestingRefs
  <2>2. PICK s \in Side, p \in Prices, t \in Refs, n \in Nat :
          o = [ref |-> t, side |-> s, price |-> p, qty |-> n] /\ Holds(Queue(e, s, p), t, n)
    BY RestingIs
  <2>3. Holds(Queue(e, s, p), r, n)
    BY <2>1, <2>2
  <2> QED BY <2>3, InQueue
<1>2. ASSUME Rests(e, r) PROVE r \in RestingRefs(e)
  <2>1. PICK s \in Side, p \in Prices : Has(Queue(e, s, p), r)
    BY <1>2 DEF Rests
  <2>2. Queue(e, s, p) \in Seq(Queued)
    BY SideIs
  <2>3. PICK n \in Nat : Holds(Queue(e, s, p), r, n)
    BY <2>1, <2>2, HasIsHolds
  <2> DEFINE o == [ref |-> r, side |-> s, price |-> p, qty |-> n]
  <2>4. o \in Resting(e)
    <3> HIDE DEF o
    <3>1. o = [ref |-> r, side |-> s, price |-> p, qty |-> n]
      BY DEF o
    <3> QED BY <2>3, <3>1, RestingIs
  <2>5. o.ref = r
    OBVIOUS
  <2> HIDE DEF o
  <2> QED BY <2>4, <2>5 DEF RestingRefs
<1> QED BY <1>1, <1>2

\* After a message the log keeps what rests, and the histories what is live.
LEMMA SoundClose ==
  ASSUME NEW b, NEW e, NEW w, NEW out, NEW U, NEW dup, Sound(b, e, w, out, U, dup)
  PROVE  LET live == {r \in Refs : b[r] # None}
         IN  Sound(b, e, Kept(w, RestingRefs(e)), out \cap live, RestingRefs(e) \cap U,
                   (live \cup RestingRefs(e)) \cap dup)
<1> DEFINE live == {r \in Refs : b[r] # None}
           out1 == out \cap live
           dup1 == (live \cup RestingRefs(e)) \cap dup
           U1 == RestingRefs(e) \cap U
<1>1. /\ Matched(b, e, out, dup) /\ Covered(b, e, out) /\ NoShares(b, out)
      /\ Passing(e) /\ Ahead(e, w, U \cup dup) /\ IsEngine(e) /\ Booked(b)
  BY SoundHas
<1>2. Matched(b, e, out1, dup1)
  <2>1. ASSUME NEW r \in Refs, r \notin dup1
        PROVE  Keeps(e, r, b[r], Shown(b, r) /\ r \notin out1)
    <3>1. CASE r \notin dup
      <4>1. Keeps(e, r, b[r], Shown(b, r) /\ r \notin out)
        BY <1>1, <3>1 DEF Matched
      <4>2. (Shown(b, r) /\ r \notin out) = (Shown(b, r) /\ r \notin out1)
        BY DEF Shown
      <4> QED BY <4>1, <4>2
    <3>2. CASE r \in dup
      <4>1. b[r] = None /\ r \notin RestingRefs(e)
        BY <2>1, <3>2
      <4>2. ~ Rests(e, r)
        BY <1>1, <4>1, RestingRefsIs
      <4>3. \A s \in Side, p \in Prices : ~ Has(Queue(e, s, p), r)
        BY <4>2 DEF Rests
      <4>4. Keeps(e, r, b[r], FALSE)
        BY <4>3 DEF Keeps, Has, Holds, Single
      <4>5. (Shown(b, r) /\ r \notin out1) = FALSE
        BY <4>1 DEF Shown
      <4> QED BY <4>4, <4>5
    <3> QED BY <3>1, <3>2
  <2> HIDE DEF dup1, out1
  <2> QED BY <1>1, <2>1 DEF Matched
<1>3. NoShares(b, out1)
  BY <1>1 DEF NoShares
<1>4. Covered(b, e, out1)
  BY <1>1 DEF Covered, Shown
<1>5. Ahead(e, Kept(w, RestingRefs(e)), U1 \cup dup1)
  <2>1. \A r \in Refs : Rests(e, r) /\ r \notin U1 \cup dup1
                          => r \in RestingRefs(e) /\ r \notin U \cup dup
    BY <1>1, RestingRefsIs
  <2> HIDE DEF U1, dup1
  <2> QED BY <1>1, <2>1, AheadKept
<1> HIDE DEF out1, dup1, U1
<1>6. Sound(b, e, Kept(w, RestingRefs(e)), out1, U1, dup1)
  BY <1>1, <1>2, <1>3, <1>4, <1>5 DEF Sound
<1> QED BY <1>6 DEF out1, dup1, U1

\* The state of the loop: the engine, the log and the refused references.
InLoop(s) == s = [i \in {"engine", "wal", "refused"} |-> s[i]]

\* What Admit makes of it.
Admitted(s, op, written, t) ==
  \/ /\ op.action # "Add"
     /\ t.engine = apply(s.engine, op) /\ t.wal = s.wal /\ t.refused = s.refused
  \/ /\ op.action = "Add" /\ Accepts(op)
     /\ t.engine = apply(s.engine, op) /\ t.refused = s.refused \ {op.ref}
     /\ t.wal = append(s.wal, Entry("OrderSubmitted", op), written)
  \/ /\ op.action = "Add" /\ ~ Accepts(op)
     /\ t.engine = s.engine /\ t.refused = s.refused \cup {op.ref}
     /\ t.wal = append(s.wal, Entry("OrderRejected", op), written)

\* The body of the loop, operation by operation.
LEMMA AdmitIs ==
  ASSUME NEW s, InLoop(s), NEW op, NEW written
  PROVE  InLoop(Admit(s, op, written)) /\ Admitted(s, op, written, Admit(s, op, written))
<1> DEFINE t == Admit(s, op, written)
<1>1. DOMAIN s = {"engine", "wal", "refused"}
  BY DEF InLoop
<1>2. InLoop(t)
  BY <1>1 DEF InLoop, Admit
<1>3. CASE op.action # "Add"
  <2>1. t.engine = apply(s.engine, op) /\ t.wal = s.wal /\ t.refused = s.refused
    BY <1>1, <1>3 DEF Admit
  <2> QED BY <1>2, <1>3, <2>1 DEF Admitted
<1>4. CASE op.action = "Add" /\ Accepts(op)
  <2>1. /\ t.engine = apply(s.engine, op) /\ t.refused = s.refused \ {op.ref}
        /\ t.wal = append(s.wal, Entry("OrderSubmitted", op), written)
    BY <1>1, <1>4 DEF Admit
  <2> QED BY <1>2, <1>4, <2>1 DEF Admitted
<1>5. CASE op.action = "Add" /\ ~ Accepts(op)
  <2>1. /\ t.engine = s.engine /\ t.refused = s.refused \cup {op.ref}
        /\ t.wal = append(s.wal, Entry("OrderRejected", op), written)
    BY <1>1, <1>5 DEF Admit
  <2> QED BY <1>2, <1>5, <2>1 DEF Admitted
<1> QED BY <1>3, <1>4, <1>5

\* The body of the loop on a new order.
LEMMA SoundAdmit ==
  ASSUME NEW b, NEW s, NEW U, NEW dup, InLoop(s),
         Sound(b, s.engine, s.wal, s.refused, U, dup),
         risk = Table0, NEW o \in RestingOrder, NEW written,
         NEW dup1, dup \subseteq dup1, b[o.ref] = None \/ o.ref \in dup1
  PROVE  LET t == Admit(s, AddOp(o), written)
         IN  /\ Sound([b EXCEPT ![o.ref] = o], t.engine, t.wal, t.refused,
                      IF written THEN U \ {o.ref} ELSE U \cup {o.ref}, dup1)
             /\ SameOrphans(s.engine, t.engine)
<1> DEFINE op == AddOp(o)
           t  == Admit(s, op, written)
           b1 == [b EXCEPT ![o.ref] = o]
           x1 == Entry("OrderSubmitted", op)
           x2 == Entry("OrderRejected", op)
           k(x) == Append(Kept(s.wal, Refs \ {o.ref}), x)
<1>1. /\ op \in ResolvedOp /\ op.action = "Add" /\ op.ref = o.ref
      /\ op.side = o.side /\ op.price = o.price /\ op.qty = o.qty
      /\ o.side \in Side /\ o.qty \in Nat
  BY AddOpIs DEF RestingOrder
<1>2. Within(o.side, o.price, o.qty) =>
        /\ Sound(b1, apply(s.engine, op), k(x1), s.refused \ {o.ref}, U \ {o.ref}, dup1)
        /\ Sound(b1, apply(s.engine, op), s.wal, s.refused \ {o.ref}, U \cup {o.ref}, dup1)
        /\ SameOrphans(s.engine, apply(s.engine, op))
  BY SoundAccept
<1>3. /\ Sound(b1, s.engine, k(x2), s.refused \cup {o.ref}, U \ {o.ref}, dup1)
      /\ Sound(b1, s.engine, s.wal, s.refused \cup {o.ref}, U \cup {o.ref}, dup1)
  BY SoundReject
<1> HIDE DEF op, b1
<1>4. Admitted(s, op, written, t)
  BY AdmitIs
<1>5. Accepts(op) => Within(o.side, o.price, o.qty)
  BY <1>1, AcceptsIs
<1>6. \A x : x.ref = o.ref => append(s.wal, x, written) = IF written THEN k(x) ELSE s.wal
  BY DEF append
<1>7. x1.ref = o.ref /\ x2.ref = o.ref
  BY <1>1 DEF Entry
<1> HIDE DEF t, x1, x2, k
<1>8. CASE Accepts(op)
  <2>1. /\ t.engine = apply(s.engine, op) /\ t.refused = s.refused \ {o.ref}
        /\ t.wal = append(s.wal, x1, written)
    BY <1>1, <1>4, <1>8 DEF Admitted, x1
  <2>2. t.wal = IF written THEN k(x1) ELSE s.wal
    BY <1>6, <1>7, <2>1
  <2>3. CASE written
    BY <1>2, <1>5, <1>8, <2>1, <2>2, <2>3 DEF t, b1, op
  <2>4. CASE ~ written
    BY <1>2, <1>5, <1>8, <2>1, <2>2, <2>4 DEF t, b1, op
  <2> QED BY <2>3, <2>4
<1>9. CASE ~ Accepts(op)
  <2>1. /\ t.engine = s.engine /\ t.refused = s.refused \cup {o.ref}
        /\ t.wal = append(s.wal, x2, written)
    BY <1>1, <1>4, <1>9 DEF Admitted, x2
  <2>2. t.wal = IF written THEN k(x2) ELSE s.wal
    BY <1>6, <1>7, <2>1
  <2>3. CASE written
    BY <1>3, <2>1, <2>2, <2>3 DEF t, b1, op, SameOrphans
  <2>4. CASE ~ written
    BY <1>3, <2>1, <2>2, <2>4 DEF t, b1, op, SameOrphans
  <2> QED BY <2>3, <2>4
<1> QED BY <1>8, <1>9

\* The references of which the engine may have more than one order, after the
\* message m.
DoubledBy(m) == IF Reuses(m) THEN doubled \cup Added ELSE doubled

\* on_order with the state s after its loop.
Closes(m, s, written) ==
  /\ engine' = s.engine /\ wal' = Kept(s.wal, RestingRefs(s.engine))
  /\ refused' = s.refused \cap {r \in Refs : book'[r] # None}
  /\ unlogged' = RestingRefs(s.engine)
                   \cap (IF written THEN unlogged \ Added ELSE unlogged \cup Added)
  /\ doubled' = ({r \in Refs : book'[r] # None} \cup RestingRefs(s.engine)) \cap DoubledBy(m)

\* The loop over none, one or two operations.
LEMMA OrderLoop ==
  ASSUME NEW m, NEW written, on_order(m, written)
  PROVE  LET s == [engine |-> engine, wal |-> wal, refused |-> refused]
         IN  /\ ops' = << >> => Closes(m, s, written)
             /\ \A a : ops' = <<a>> => Closes(m, Admit(s, a, written), written)
             /\ \A a, c : ops' = <<a, c>> =>
                  Closes(m, Admit(Admit(s, a, written), c, written), written)
<1> DEFINE s == [engine |-> engine, wal |-> wal, refused |-> refused]
           t == ForEachOp(LAMBDA st, op : Admit(st, op, written),
                          [engine |-> engine, wal |-> wal, refused |-> refused], ops')
<1>1. Closes(m, t, written)
  <2>1. \E st \in {t} : \E resting \in {RestingRefs(st.engine)} :
          /\ engine' = st.engine
          /\ wal' = Kept(st.wal, resting)
          /\ refused' = st.refused \cap LiveRefs'
          /\ unlogged' = resting \cap (IF written THEN unlogged \ Added ELSE unlogged \cup Added)
          /\ doubled' = (LiveRefs' \cup resting) \cap DoubledBy(m)
    BY DEF on_order, DoubledBy
  <2> HIDE DEF t
  <2>2. LiveRefs' = {r \in Refs : book'[r] # None}
    BY DEF LiveRefs
  <2> QED BY <2>1, <2>2 DEF Closes
<1>2. ops' = << >> => t = s
  BY DEF ForEachOp
<1>3. ASSUME NEW a, ops' = <<a>> PROVE t = Admit(s, a, written)
  BY <1>3 DEF ForEachOp
<1>4. ASSUME NEW a, NEW c, ops' = <<a, c>> PROVE t = Admit(Admit(s, a, written), c, written)
  BY <1>4 DEF ForEachOp
<1> HIDE DEF s, t
<1> QED BY <1>1, <1>2, <1>3, <1>4 DEF s

\* What the operations of a message add.
LEMMA AddedIs ==
  /\ ops' = << >> => Added = {}
  /\ \A a : ops' = <<a>> => Added = IF a.action = "Add" THEN {a.ref} ELSE {}
  /\ \A a, c : ops' = <<a, c>> /\ a.action # "Add" /\ c.action = "Add" => Added = {c.ref}
<1>1. ops' = << >> => Added = {}
  BY DEF Added
<1>2. ASSUME NEW a, ops' = <<a>> PROVE Added = IF a.action = "Add" THEN {a.ref} ELSE {}
  <2>1. DOMAIN ops' = {1} /\ ops'[1] = a
    BY <1>2
  <2> QED BY <2>1 DEF Added
<1>3. ASSUME NEW a, NEW c, ops' = <<a, c>>, a.action # "Add", c.action = "Add"
      PROVE  Added = {c.ref}
  <2>1. DOMAIN ops' = {1, 2} /\ ops'[1] = a /\ ops'[2] = c
    BY <1>3
  <2>2. {j \in DOMAIN ops' : ops'[j].action = "Add"} = {2}
    BY <1>3, <2>1
  <2> QED BY <2>1, <2>2 DEF Added
<1> QED BY <1>1, <1>2, <1>3

\* What is sound after the loop is sound after the message.
LEMMA SoundCloses ==
  ASSUME NEW m, NEW s, NEW written, Closes(m, s, written), NEW U,
         U = (IF written THEN unlogged \ Added ELSE unlogged \cup Added),
         Sound(book', s.engine, s.wal, s.refused, U, DoubledBy(m))
  PROVE  Sound(book', engine', wal', refused', unlogged', doubled')
<1>1. Sound(book', s.engine, Kept(s.wal, RestingRefs(s.engine)),
            s.refused \cap {r \in Refs : book'[r] # None}, RestingRefs(s.engine) \cap U,
            ({r \in Refs : book'[r] # None} \cup RestingRefs(s.engine)) \cap DoubledBy(m))
  BY SoundClose
<1> QED BY <1>1 DEF Closes

\* Only an operation on a refused order can become an orphan.
OrphanRefused ==
  engine'.orphan_ops # engine.orphan_ops
    => ops' # << >> /\ ops'[1].action # "Add" /\ ops'[1].ref \in refused

\* An operation that adds nothing.
LEMMA SoundOther ==
  ASSUME NEW m, NEW written, on_order(m, written), NEW op, ops' = <<op>>, op.action # "Add",
         Sound(book', apply(engine, op), wal, refused, unlogged, doubled)
  PROVE  /\ Sound(book', engine', wal', refused', unlogged', doubled')
         /\ engine' = apply(engine, op) /\ Added = {}
<1> DEFINE s == [engine |-> engine, wal |-> wal, refused |-> refused]
           t == Admit(s, op, written)
           U == IF written THEN unlogged \ Added ELSE unlogged \cup Added
<1>1. InLoop(s) /\ s.engine = engine /\ s.wal = wal /\ s.refused = refused
  BY DEF InLoop
<1>2. Closes(m, t, written)
  BY OrderLoop
<1> HIDE DEF s
<1>3. Admitted(s, op, written, t)
  BY <1>1, AdmitIs
<1> HIDE DEF t
<1>4. t.engine = apply(engine, op) /\ t.wal = wal /\ t.refused = refused
  BY <1>1, <1>3 DEF Admitted
<1>5. Added = {}
  BY AddedIs
<1>6. U = unlogged /\ DoubledBy(m) = doubled
  BY <1>5 DEF DoubledBy
<1> HIDE DEF U
<1>7. Sound(book', t.engine, t.wal, t.refused, U, DoubledBy(m))
  BY <1>4, <1>6
<1>8. Sound(book', engine', wal', refused', unlogged', doubled')
  BY <1>2, <1>7, SoundCloses DEF U
<1> QED BY <1>2, <1>4, <1>5, <1>8 DEF Closes

\* A message keeps all of it.
LEMMA SoundStep ==
  ASSUME Sound(book, engine, wal, refused, unlogged, doubled), risk = Table0,
         NEW m \in Feed, NEW written, on_order(m, written)
  PROVE  /\ Sound(book', engine', wal', refused', unlogged', doubled')
         /\ risk' = Table0 /\ OrphanRefused
<1> DEFINE s == [engine |-> engine, wal |-> wal, refused |-> refused]
           U == IF written THEN unlogged \ Added ELSE unlogged \cup Added
<1>1. m \in Message /\ resolve(m) /\ doubled \subseteq DoubledBy(m)
  BY FeedAssumption DEF on_order, DoubledBy
<1>2. Booked(book)
  BY DEF Sound, Matched
<1>3. risk' = Table0
  <2>1. risk' = IF Added # {} THEN Checked(risk, ProbeOf(ops'[Len(ops')])) ELSE risk
    BY DEF on_order
  <2> QED BY <2>1, TableChecked
<1>4. InLoop(s) /\ s.engine = engine /\ s.wal = wal /\ s.refused = refused
  BY DEF InLoop
<1>5. CASE ToNothing
  <2>1. ops' = << >> /\ book' = book
    BY <1>5 DEF ToNothing
  <2>2. Closes(m, s, written)
    BY <2>1, OrderLoop
  <2>3. Added = {}
    BY <2>1, AddedIs
  <2>4. U = unlogged /\ DoubledBy(m) = doubled
    BY <2>3 DEF DoubledBy
  <2> HIDE DEF s, U
  <2>5. Sound(book', s.engine, s.wal, s.refused, U, DoubledBy(m))
    BY <1>4, <2>1, <2>4
  <2>6. Sound(book', engine', wal', refused', unlogged', doubled')
    BY <2>2, <2>5, SoundCloses DEF U
  <2> QED BY <1>3, <1>4, <2>2, <2>6 DEF Closes, OrphanRefused
<1>6. CASE ToTrade
  <2>1. PICK op \in ResolvedOp : op.action = "Trade" /\ ops' = <<op>>
    BY <1>6 DEF ToTrade
  <2>2. /\ book' = book /\ Sound(book, apply(engine, op), wal, refused, unlogged, doubled)
        /\ SameOrphans(engine, apply(engine, op))
    BY <1>6, <2>1, SoundTrade DEF ToTrade
  <2>3. Sound(book', engine', wal', refused', unlogged', doubled') /\ engine' = apply(engine, op)
    BY <2>1, <2>2, SoundOther
  <2> QED BY <1>3, <2>2, <2>3 DEF OrphanRefused, SameOrphans
<1>7. ASSUME NEW o \in RestingOrder, m.action = "Add", m.ref = o.ref, ToAdd(o)
      PROVE  Sound(book', engine', wal', refused', unlogged', doubled') /\ OrphanRefused
  <2> DEFINE t == Admit(s, AddOp(o), written)
  <2>1. book' = [book EXCEPT ![o.ref] = o] /\ ops' = <<AddOp(o)>>
    BY <1>7 DEF ToAdd
  <2>2. Closes(m, t, written)
    BY <2>1, OrderLoop
  <2>3. AddOp(o).action = "Add" /\ AddOp(o).ref = o.ref
    BY AddOpIs
  <2>4. Added = {o.ref}
    BY <2>1, <2>3, AddedIs
  <2>5. book[o.ref] = None \/ o.ref \in DoubledBy(m)
    BY <1>7, <2>4 DEF Reuses, DoubledBy
  <2> HIDE DEF s
  <2>6. /\ Sound([book EXCEPT ![o.ref] = o], t.engine, t.wal, t.refused,
                 IF written THEN unlogged \ {o.ref} ELSE unlogged \cup {o.ref}, DoubledBy(m))
        /\ SameOrphans(s.engine, t.engine)
    BY <1>1, <1>4, <2>5, SoundAdmit
  <2> HIDE DEF t
  <2>7. Sound(book', t.engine, t.wal, t.refused, U, DoubledBy(m))
    BY <2>1, <2>4, <2>6
  <2> HIDE DEF U
  <2>8. Sound(book', engine', wal', refused', unlogged', doubled')
    BY <2>2, <2>7, SoundCloses DEF U
  <2> QED BY <1>4, <2>2, <2>6, <2>8 DEF Closes, OrphanRefused, SameOrphans
<1>8. ASSUME NEW op \in ResolvedOp, ToReduce(op)
      PROVE  Sound(book', engine', wal', refused', unlogged', doubled') /\ OrphanRefused
  <2>1. /\ Takes(book, op) /\ ops' = <<op>>
        /\ book' = [book EXCEPT ![op.ref] = Left(@, op.qty)]
    BY <1>8 DEF ToReduce
  <2>2. /\ Sound([book EXCEPT ![op.ref] = Left(@, op.qty)], apply(engine, op), wal, refused,
                 unlogged, doubled)
        /\ op.ref \notin refused => SameOrphans(engine, apply(engine, op))
    BY <2>1, SoundTake
  <2>3. op.action # "Add" /\ ops' # << >> /\ ops'[1] = op
    BY <2>1 DEF Takes
  <2>4. Sound(book', apply(engine, op), wal, refused, unlogged, doubled)
    BY <2>1, <2>2
  <2>5. Sound(book', engine', wal', refused', unlogged', doubled') /\ engine' = apply(engine, op)
    BY <2>1, <2>3, <2>4, SoundOther
  <2> QED BY <2>2, <2>3, <2>5 DEF OrphanRefused, SameOrphans
<1>9. ASSUME NEW op \in ResolvedOp, ToDelete(op)
      PROVE  Sound(book', engine', wal', refused', unlogged', doubled') /\ OrphanRefused
  <2>1. Drops(book, op) /\ ops' = <<op>> /\ book' = [book EXCEPT ![op.ref] = None]
    BY <1>9 DEF ToDelete
  <2>2. /\ Sound([book EXCEPT ![op.ref] = None], apply(engine, op), wal, refused, unlogged,
                 doubled)
        /\ op.ref \notin refused => SameOrphans(engine, apply(engine, op))
    BY <2>1, SoundDrop
  <2>3. op.action # "Add" /\ ops' # << >> /\ ops'[1] = op
    BY <2>1 DEF Drops
  <2>4. Sound(book', apply(engine, op), wal, refused, unlogged, doubled)
    BY <2>1, <2>2
  <2>5. Sound(book', engine', wal', refused', unlogged', doubled') /\ engine' = apply(engine, op)
    BY <2>1, <2>3, <2>4, SoundOther
  <2> QED BY <2>2, <2>3, <2>5 DEF OrphanRefused, SameOrphans
<1>10. ASSUME NEW op \in ResolvedOp, NEW o \in RestingOrder, m.action = "Replace",
              op.ref = m.ref, o.ref = m.new_ref, ToReplace(op, o)
       PROVE  Sound(book', engine', wal', refused', unlogged', doubled') /\ OrphanRefused
  <2> DEFINE b1 == [book EXCEPT ![op.ref] = None]
             t1 == Admit(s, op, written)
             t  == Admit(t1, AddOp(o), written)
  <2>1. /\ Drops(book, op) /\ ops' = <<op, AddOp(o)>>
        /\ book' = [b1 EXCEPT ![o.ref] = o]
    BY <1>10 DEF ToReplace
  <2>2. Closes(m, t, written)
    BY <2>1, OrderLoop
  <2>3. op.action # "Add" /\ ops' # << >> /\ ops'[1] = op
    BY <2>1 DEF Drops
  <2>4. AddOp(o).action = "Add" /\ AddOp(o).ref = o.ref
    BY AddOpIs
  <2>5. Added = {o.ref}
    BY <2>1, <2>3, <2>4, AddedIs
  <2>6. /\ Sound(b1, apply(engine, op), wal, refused, unlogged, doubled)
        /\ op.ref \notin refused => SameOrphans(engine, apply(engine, op))
    BY <2>1, SoundDrop
  <2>7. b1[o.ref] = None \/ o.ref \in DoubledBy(m)
    <3>1. op.ref \in Refs /\ o.ref \in Refs /\ book \in [Refs -> RestingOrder \cup {None}]
      BY <1>2 DEF Booked, ResolvedOp, RestingOrder
    <3>2. b1[o.ref] = IF o.ref = op.ref THEN None ELSE book[o.ref]
      BY <3>1
    <3>3. o.ref # op.ref /\ book[o.ref] # None => o.ref \in DoubledBy(m)
      BY <1>10, <2>1, <2>5 DEF Reuses, Drops, DoubledBy
    <3> QED BY <3>2, <3>3
  <2> HIDE DEF s, b1
  <2>8. InLoop(t1) /\ Admitted(s, op, written, t1)
    BY <1>4, AdmitIs
  <2> HIDE DEF t1
  <2>9. t1.engine = apply(engine, op) /\ t1.wal = wal /\ t1.refused = refused
    BY <1>4, <2>3, <2>8 DEF Admitted
  <2>10. Sound(b1, t1.engine, t1.wal, t1.refused, unlogged, doubled)
    BY <2>6, <2>9
  <2>11. /\ Sound([b1 EXCEPT ![o.ref] = o], t.engine, t.wal, t.refused,
                  IF written THEN unlogged \ {o.ref} ELSE unlogged \cup {o.ref}, DoubledBy(m))
         /\ SameOrphans(t1.engine, t.engine)
    BY <1>1, <2>7, <2>8, <2>10, SoundAdmit
  <2> HIDE DEF t
  <2>12. Sound(book', t.engine, t.wal, t.refused, U, DoubledBy(m))
    BY <2>1, <2>5, <2>11
  <2> HIDE DEF U
  <2>13. Sound(book', engine', wal', refused', unlogged', doubled')
    BY <2>2, <2>12, SoundCloses DEF U
  <2>14. op.ref \notin refused => engine'.orphan_ops = engine.orphan_ops
    BY <2>2, <2>6, <2>9, <2>11 DEF Closes, SameOrphans
  <2> QED BY <2>3, <2>13, <2>14 DEF OrphanRefused
<1> QED BY <1>1, <1>2, <1>3, <1>5, <1>6, <1>7, <1>8, <1>9, <1>10, ResolveIs

\* The inductive invariant of the live exchange.
LiveInv == Sound(book, engine, wal, refused, unlogged, doubled) /\ risk = Table0

\* At the start there is nothing.
LEMMA SoundInit ==
  ASSUME LiveInit
  PROVE  LiveInv
<1>1. Matched(book, engine, {}, {})
  BY MatchedInit DEF LiveInit
<1>2. \A s \in Side, p \in Prices, r \in Refs, n \in Nat : ~ Holds(Queue(engine, s, p), r, n)
  <2>1. \A r \in Refs : ~ Shown(book, r)
    <3>1. book = [r \in Refs |-> None]
      BY DEF LiveInit, BookInit, Book!Init
    <3> QED BY <3>1 DEF Shown
  <2>2. \A r \in Refs : Keeps(engine, r, book[r], FALSE)
    <3>1. \A r \in Refs : Keeps(engine, r, book[r], Shown(book, r) /\ r \notin {})
      BY <1>1 DEF Matched
    <3>2. \A r \in Refs : (Shown(book, r) /\ r \notin {}) = FALSE
      BY <2>1
    <3> QED BY <3>1, <3>2
  <2> QED BY <2>2 DEF Keeps
<1>3. Passing(engine)
  BY <1>2 DEF Passing
<1>4. NoShares(book, {})
  <2>1. book = [r \in Refs |-> None]
    BY DEF LiveInit, BookInit, Book!Init
  <2> QED BY <2>1 DEF NoShares
<1>5. Ahead(engine, << >>, {})
  <2>1. << >> \in Seq(WalEntry) /\ OncePerRef(<< >>)
    BY DEF OncePerRef
  <2>2. HeldSubmitted(engine, << >>, {})
    BY <1>2 DEF HeldSubmitted
  <2>3. QueuedInOrder(engine, << >>, {})
    <3> SUFFICES ASSUME NEW s \in Side, NEW p \in Prices, NEW x \in Refs, NEW y \in Refs,
                        Before(Queue(engine, s, p), x, y)
                 PROVE  FALSE
      BY DEF QueuedInOrder
    <3>1. IsEngine(engine)
      BY <1>1 DEF Matched
    <3>2. Queue(engine, s, p) \in Seq(Queued)
      BY <3>1, SideIs
    <3>3. Has(Queue(engine, s, p), x)
      BY <3>1, InQueue
    <3> QED BY <1>2, <3>2, <3>3, HasIsHolds
  <2> QED BY <2>1, <2>2, <2>3 DEF Ahead
<1>6. /\ wal = << >> /\ refused = {} /\ unlogged = {} /\ doubled = {} /\ risk = Table0
      /\ {} \cup {} = {}
  BY TableInit DEF LiveInit
<1>7. Covered(book, engine, {})
  <2>1. book = [r \in Refs |-> None]
    BY DEF LiveInit, BookInit, Book!Init
  <2> QED BY <2>1 DEF Covered, Shown
<1> QED BY <1>1, <1>3, <1>4, <1>5, <1>6, <1>7 DEF LiveInv, Sound

\* It is kept by every step.
LEMMA LiveInvStep ==
  ASSUME LiveInv, [LiveNext]_liveVars
  PROVE  LiveInv'
<1>1. CASE UNCHANGED liveVars
  <2>1. /\ book' = book /\ engine' = engine /\ risk' = risk /\ wal' = wal
        /\ refused' = refused /\ unlogged' = unlogged /\ doubled' = doubled
    BY <1>1 DEF liveVars
  <2>2. Sound(book', engine', wal', refused', unlogged', doubled') /\ risk' = Table0
    BY <2>1 DEF LiveInv
  <2> QED BY <2>2 DEF LiveInv, Sound, Matched, Booked, IsEngine, Keeps, Shown, Queue, NoShares,
             Covered, CoveredAt, Passing, Ahead, HeldSubmitted, QueuedInOrder, Table0, Within
<1>2. ASSUME NEW m \in Feed, NEW written \in BOOLEAN, on_order(m, written) PROVE LiveInv'
  <2>1. Sound(book', engine', wal', refused', unlogged', doubled') /\ risk' = Table0
    BY <1>2, SoundStep DEF LiveInv
  <2> QED BY <2>1 DEF LiveInv, Sound, Matched, Booked, IsEngine, Keeps, Shown, Queue, NoShares,
             Covered, CoveredAt, Passing, Ahead, HeldSubmitted, QueuedInOrder, Table0, Within
<1> QED BY <1>1, <1>2 DEF LiveNext

\* The invariant holds throughout.
THEOREM LiveInvariant == LiveSpec => []LiveInv
<1>1. LiveInit => LiveInv
  BY SoundInit
<1>2. LiveInv /\ [LiveNext]_liveVars => LiveInv'
  BY LiveInvStep
<1> QED BY <1>1, <1>2, PTL DEF LiveSpec

\* In the live exchange the engine's book is at every moment BookState's book
\* without the orders risk rejected, each once, whatever becomes of a rejected
\* order afterwards and whatever references the feed gives out again: of those,
\* the engine has at least the order the table has.
THEOREM LiveMirrors == LiveSpec => []MirrorsAccepted
<1>1. LiveInv => MirrorsAccepted
  <2> SUFFICES ASSUME LiveInv PROVE MirrorsAccepted
    OBVIOUS
  <2>1. /\ Matched(book, engine, refused, doubled) /\ Covered(book, engine, refused)
        /\ IsEngine(engine) /\ Booked(book)
    BY DEF LiveInv, Sound, Matched
  <2>2. /\ {o \in Resting(engine) : o.ref \notin doubled}
             = {o \in Live(book) : o.ref \notin doubled /\ o.ref \notin refused}
        /\ RestsOnce(engine, Refs \ doubled)
    BY <2>1, MatchedMirrors
  <2>3. {o \in Live(book) : o.ref \notin doubled /\ o.ref \notin refused}
          = {o \in Live(book) : o.ref \notin refused \cup doubled}
    OBVIOUS
  <2>4. ASSUME NEW o \in Live(book), o.ref \notin refused
        PROVE  \E x \in Resting(engine) : Covers(x, o)
    <3>1. PICK r \in Refs : book[r] # None /\ book[r].qty > 0 /\ o = book[r]
      BY DEF Live
    <3>2. Shown(book, r) /\ o.ref = r /\ o \in RestingOrder
      BY <2>1, <3>1 DEF Shown, Booked
    <3>3. PICK n \in Nat : n >= o.qty /\ Holds(Queue(engine, o.side, o.price), r, n)
      BY <2>1, <2>4, <3>1, <3>2 DEF Covered, CoveredAt
    <3>4. o.side \in Side /\ o.price \in Prices
      BY <3>2 DEF RestingOrder
    <3> DEFINE x == [ref |-> r, side |-> o.side, price |-> o.price, qty |-> n]
    <3>5. Covers(x, o)
      BY <3>2, <3>3 DEF Covers
    <3>6. x \in Resting(engine)
      <4> HIDE DEF x
      <4>1. x = [ref |-> r, side |-> o.side, price |-> o.price, qty |-> n]
        BY DEF x
      <4> QED BY <2>1, <3>3, <3>4, <4>1, RestingIs
    <3> HIDE DEF x
    <3> QED BY <3>5, <3>6
  <2> QED BY <2>2, <2>3, <2>4 DEF MirrorsAccepted
<1> QED BY <1>1, LiveInvariant, PTL

\* An operation of the live exchange that finds nothing in the engine names an
\* order risk rejected, whatever references the feed gives out again.
THEOREM LiveOrphans == LiveSpec => OrphansAreRefused
<1>1. LiveInv /\ [LiveNext]_liveVars =>
        [engine'.orphan_ops # engine.orphan_ops
           => ops' # << >> /\ ops'[1].action # "Add" /\ ops'[1].ref \in refused]_liveVars
  <2> SUFFICES ASSUME LiveInv, LiveNext PROVE OrphanRefused
    BY DEF OrphanRefused
  <2>1. PICK m \in Feed, written \in BOOLEAN : on_order(m, written)
    BY DEF LiveNext
  <2> QED BY <2>1, SoundStep DEF LiveInv
<1> QED BY <1>1, LiveInvariant, PTL DEF LiveSpec, OrphansAreRefused

\* What rests in the live exchange's engine would pass the risk engine at every
\* later moment: no partial execution and no replace brings in what was to be
\* kept out.
THEOREM LivePassesRisk == LiveSpec => []RestingPassesRisk
<1>1. LiveInv => RestingPassesRisk
  <2> SUFFICES ASSUME LiveInv, NEW o \in Resting(engine) PROVE Accepts(o)
    BY DEF RestingPassesRisk
  <2>1. IsEngine(engine) /\ Passing(engine) /\ risk = Table0
    BY DEF LiveInv, Sound, Matched
  <2>2. PICK s \in Side, p \in Prices, r \in Refs, n \in Nat :
          o = [ref |-> r, side |-> s, price |-> p, qty |-> n] /\ Holds(Queue(engine, s, p), r, n)
    BY <2>1, RestingIs
  <2>3. Within(s, p, n)
    BY <2>1, <2>2 DEF Passing
  <2>4. o.side = s /\ o.price = p /\ o.qty = n
    BY <2>2
  <2> QED BY <2>1, <2>3, <2>4, AcceptsIs
<1> QED BY <1>1, LiveInvariant, PTL

\* The entry of a resting order is found, and it is the one of its reference.
LEMMA LoggedIs ==
  ASSUME wal \in Seq(WalEntry), NEW o, Submitted(wal, o.ref, o.side, o.price, o.qty)
  PROVE  Logged(o) \in 1 .. Len(wal) /\ wal[Logged(o)].ref = o.ref
<1> DEFINE P(x) == /\ x.type = "OrderSubmitted"
                   /\ <<x.ref, x.side, x.price>> = <<o.ref, o.side, o.price>>
                   /\ o.qty <= x.qty
           I == {i \in 1 .. Len(wal) : P(wal[i])}
<1>1. Logged(o) = IF I # {} THEN Min(I) ELSE 0
  BY DEF Logged, SelectInSeq
<1>2. \A x : Submits(x, o.ref, o.side, o.price, o.qty) <=> P(x)
  BY DEF Submits
<1>3. I # {}
  BY <1>2 DEF Submitted
<1>4. I \in SUBSET Nat
  OBVIOUS
<1>5. Min(I) \in I
  <2>1. \E i \in I : \A j \in I : i <= j
    <3> HIDE DEF I
    <3> QED BY <1>3, <1>4, LeastNatural
  <2> HIDE DEF I
  <2> QED BY <2>1 DEF Min
<1> QED BY <1>1, <1>3, <1>5

\* Where the engine holds an order, it holds it at its index.
LEMMA HeldAt ==
  ASSUME NEW e, IsEngine(e), NEW s \in Side, NEW p \in Prices, NEW r, Has(Queue(e, s, p), r)
  PROVE  /\ e[s][p] = Queue(e, s, p)
         /\ IndexOf(e[s][p], r) \in 1 .. Len(Queue(e, s, p))
         /\ Queue(e, s, p)[IndexOf(e[s][p], r)].ref = r
<1>1. Queue(e, s, p) \in Seq(Queued) /\ (Queue(e, s, p) # << >> <=> p \in DOMAIN e[s])
  BY SideIs
<1>2. Queue(e, s, p) # << >>
  BY DEF Has
<1>3. e[s][p] = Queue(e, s, p)
  BY <1>1, <1>2 DEF Queue, Level
<1>4. /\ IndexOf(Queue(e, s, p), r) \in 1 .. Len(Queue(e, s, p))
      /\ Queue(e, s, p)[IndexOf(Queue(e, s, p), r)].ref = r
  BY <1>1, IndexOfIs
<1> QED BY <1>3, <1>4

\* The log of the live exchange is ahead of its engine, in what it has and in
\* what order, for every order whose append did not fail and whose reference was
\* not given out again.
THEOREM LiveLogIsAhead == LiveSpec => []LogIsAhead
<1>1. LiveInv => LogIsAhead
  <2> SUFFICES ASSUME LiveInv PROVE LogIsAhead
    OBVIOUS
  <2> DEFINE known == {o \in Resting(engine) : o.ref \notin unlogged \cup doubled}
  <2>1. IsEngine(engine) /\ Ahead(engine, wal, unlogged \cup doubled)
    BY DEF LiveInv, Sound, Matched
  <2>2. wal \in Seq(WalEntry) /\ OncePerRef(wal)
    BY <2>1 DEF Ahead
  <2>3. ASSUME NEW o \in known
        PROVE  /\ o.side \in Side /\ o.price \in Prices /\ o.ref \in Refs
               /\ Has(Queue(engine, o.side, o.price), o.ref)
               /\ Logged(o) \in 1 .. Len(wal) /\ wal[Logged(o)].ref = o.ref
    <3>1. PICK s \in Side, p \in Prices, r \in Refs, n \in Nat :
            /\ o = [ref |-> r, side |-> s, price |-> p, qty |-> n]
            /\ Holds(Queue(engine, s, p), r, n)
      BY <2>1, <2>3, RestingIs
    <3>2. o.ref = r /\ o.side = s /\ o.price = p /\ o.qty = n
      BY <3>1
    <3>3. Submitted(wal, r, s, p, n)
      BY <2>1, <2>3, <3>1, <3>2 DEF Ahead, HeldSubmitted
    <3>4. Has(Queue(engine, s, p), r)
      BY <3>1 DEF Holds, Has
    <3>5. Logged(o) \in 1 .. Len(wal) /\ wal[Logged(o)].ref = o.ref
      BY <2>2, <3>2, <3>3, LoggedIs
    <3> QED BY <3>2, <3>4, <3>5
  <2>4. ASSUME NEW x \in known, NEW y \in known, x.side = y.side, x.price = y.price,
               IndexOf(engine[x.side][x.price], x.ref) < IndexOf(engine[y.side][y.price], y.ref)
        PROVE  Logged(x) < Logged(y)
    <3> DEFINE q == Queue(engine, x.side, x.price)
    <3>1. /\ x.side \in Side /\ x.price \in Prices /\ x.ref \in Refs /\ y.ref \in Refs
          /\ Has(q, x.ref) /\ Has(q, y.ref)
      BY <2>3, <2>4
    <3>2. /\ IndexOf(engine[x.side][x.price], x.ref) \in 1 .. Len(q)
          /\ q[IndexOf(engine[x.side][x.price], x.ref)].ref = x.ref
          /\ IndexOf(engine[x.side][x.price], y.ref) \in 1 .. Len(q)
          /\ q[IndexOf(engine[x.side][x.price], y.ref)].ref = y.ref
      BY <2>1, <3>1, HeldAt
    <3>3. Before(q, x.ref, y.ref)
      BY <2>4, <3>2 DEF Before
    <3>4. x.ref \notin unlogged \cup doubled /\ y.ref \notin unlogged \cup doubled
      OBVIOUS
    <3>5. Later(wal, x.ref, y.ref)
      BY <2>1, <3>1, <3>3, <3>4 DEF Ahead, QueuedInOrder
    <3>6. PICK i, j \in 1 .. Len(wal) : i < j /\ wal[i].ref = x.ref /\ wal[j].ref = y.ref
      BY <3>5 DEF Later
    <3>7. /\ Logged(x) \in 1 .. Len(wal) /\ wal[Logged(x)].ref = x.ref
          /\ Logged(y) \in 1 .. Len(wal) /\ wal[Logged(y)].ref = y.ref
      BY <2>3
    <3>8. Logged(x) = i /\ Logged(y) = j
      BY <2>2, <3>6, <3>7 DEF OncePerRef
    <3> QED BY <3>6, <3>8
  <2>5. \A o \in known : Logged(o) # 0
    BY <2>2, <2>3
  <2>6. ASSUME NEW x \in known, NEW y \in known, <<x.side, x.price>> = <<y.side, y.price>>,
               IndexOf(engine[x.side][x.price], x.ref) < IndexOf(engine[y.side][y.price], y.ref)
        PROVE  Logged(x) < Logged(y)
    BY <2>4, <2>6
  <2> HIDE DEF known
  <2>7. \A x, y \in known :
          (/\ <<x.side, x.price>> = <<y.side, y.price>>
           /\ IndexOf(engine[x.side][x.price], x.ref) < IndexOf(engine[y.side][y.price], y.ref))
            => Logged(x) < Logged(y)
    BY <2>6
  <2> QED BY <2>5, <2>7 DEF LogIsAhead, known
<1> QED BY <1>1, LiveInvariant, PTL

----------------------------------------------------------------------------
(* The file replay: the snapshot at the bell *)

\* Until the snapshot is taken no message came after the bell; then the clock
\* is past it and stays there.
BellInv ==
  /\ time \in Nat
  /\ ~ close_taken => bell = Snapshot(engine, micro)
  /\ close_taken => close = bell /\ time >= MARKET_CLOSE

\* The snapshot taken at the closing bell is what the last message before the
\* bell left: the message that triggers it is not in it, nor any later one.
THEOREM ReplayClose == Spec => []CloseIsBell
<1>1. Init => BellInv
  <2> SUFFICES ASSUME Init PROVE BellInv
    OBVIOUS
  <2>1. engine = NewEngine /\ micro = reset /\ bell = Snapshot(NewEngine, reset)
    BY DEF Init, BookInit
  <2>2. time = 0 /\ close_taken = FALSE
    BY DEF Init
  <2> QED BY <2>1, <2>2 DEF BellInv
<1>2. BellInv /\ [Next]_vars => BellInv'
  <2> SUFFICES ASSUME BellInv, [Next]_vars PROVE BellInv'
    OBVIOUS
  <2>1. CASE UNCHANGED vars
    BY <2>1 DEF vars, history, BellInv, Snapshot
  <2>2. ASSUME NEW m \in Feed, NEW ts \in time .. MaxTime, on_message(m, ts) PROVE BellInv'
    <3>1. /\ close_taken' = (close_taken \/ TakesClose(ts))
          /\ close' = IF TakesClose(ts) THEN Snapshot(engine, micro) ELSE close
          /\ time' = ts
          /\ bell' = IF ts < MARKET_CLOSE THEN Snapshot(engine', micro') ELSE bell
      BY <2>2 DEF on_message
    <3>2. ts \in Nat /\ time <= ts /\ MARKET_CLOSE \in Nat /\ time \in Nat
      BY TimeAssumption DEF BellInv
    <3>3. TakesClose(ts) <=> ~ close_taken /\ ts >= MARKET_CLOSE
      BY DEF TakesClose
    <3>4. CASE ts < MARKET_CLOSE
      <4>1. ~ close_taken /\ ~ TakesClose(ts)
        BY <3>2, <3>3, <3>4 DEF BellInv
      <4>2. ~ close_taken' /\ bell' = Snapshot(engine', micro') /\ time' \in Nat
        BY <3>1, <3>2, <3>4, <4>1
      <4> QED BY <4>2 DEF BellInv, Snapshot
    <3>5. CASE ts >= MARKET_CLOSE
      <4>1. bell' = bell
        BY <3>1, <3>2, <3>5
      <4>2. close_taken' /\ close' = bell'
        <5>1. CASE close_taken
          BY <3>1, <3>3, <4>1, <5>1 DEF BellInv
        <5>2. CASE ~ close_taken
          BY <3>1, <3>3, <3>5, <4>1, <5>2 DEF BellInv
        <5> QED BY <5>1, <5>2
      <4> QED BY <3>1, <3>2, <3>5, <4>2 DEF BellInv
    <3> QED BY <3>2, <3>4, <3>5
  <2> QED BY <2>1, <2>2 DEF Next, Done
<1>3. BellInv => CloseIsBell
  BY DEF BellInv, CloseIsBell
<1> QED BY <1>1, <1>2, <1>3, PTL DEF Spec

----------------------------------------------------------------------------
(* The file replay: the top of the book *)

\* A level's shares are counted, and there are some.
LEMMA LevelQtyIs ==
  ASSUME NEW q \in Seq(Queued), q # << >>
  PROVE  LevelQty(q) \in Nat \ {0}
<1> DEFINE n == Len(q)
           G == [i \in 1 .. n |-> [v \in Nat |-> v + q[i].qty]]
           Body(g) == [i \in 0 .. n |-> IF i = 0 THEN 0 ELSE g[i - 1] + q[i].qty]
           f == CHOOSE g : g = Body(g)
<1>1. n \in Nat \ {0} /\ \A i \in 1 .. n : q[i].qty \in Nat \ {0}
  <2>1. \A i \in 1 .. n : q[i] \in Queued
    OBVIOUS
  <2> QED BY <2>1 DEF Queued
<1>2. G \in [1 .. n -> [Nat -> Nat]]
  BY <1>1
<1>3. \A i \in 1 .. n, v \in Nat : G[i][v] = v + q[i].qty
  OBVIOUS
<1>4. LevelQty(q) = f[n]
  BY DEF LevelQty
<1> HIDE DEF G, n
<1>5. PICK h : Iterates(h, n, Nat, 0, G)
  BY <1>1, <1>2, RecursionExists
<1>6. h = Body(h)
  <2>1. h \in [0 .. n -> Nat] /\ h[0] = 0
    BY <1>5 DEF Iterates
  <2>2. ASSUME NEW i \in 0 .. n PROVE h[i] = Body(h)[i]
    <3>1. CASE i = 0
      BY <2>1, <3>1
    <3>2. CASE i # 0
      <4>1. i \in 1 .. n /\ i - 1 \in 0 .. n
        BY <1>1, <3>2
      <4>2. h[i] = G[i][h[i - 1]] /\ h[i - 1] \in Nat
        BY <1>5, <2>1, <4>1 DEF Iterates
      <4>3. h[i] = h[i - 1] + q[i].qty
        BY <1>3, <4>1, <4>2
      <4> QED BY <3>2, <4>3
    <3> QED BY <3>1, <3>2
  <2> QED BY <2>1, <2>2
<1>7. f = Body(f)
  <2> HIDE DEF Body
  <2> QED BY <1>6
<1> HIDE DEF f
<1>8. /\ f[0] = 0 /\ f = [i \in 0 .. n |-> f[i]]
      /\ \A i \in 1 .. n : f[i] = f[i - 1] + q[i].qty
  <2>1. 0 \in 0 .. n /\ \A i \in 1 .. n : i \in 0 .. n /\ i # 0
    BY <1>1
  <2>2. \A i \in 0 .. n : f[i] = IF i = 0 THEN 0 ELSE f[i - 1] + q[i].qty
    BY <1>7
  <2>3. DOMAIN f = 0 .. n
    BY <1>7
  <2>4. f = [i \in 0 .. n |-> f[i]]
    BY <1>7, <2>3
  <2> QED BY <2>1, <2>2, <2>4
<1>9. Iterates(f, n, Nat, 0, G)
  <2>1. \A i \in 1 .. n : f[i - 1] \in Nat => f[i] = G[i][f[i - 1]]
    BY <1>3, <1>8
  <2> QED BY <1>1, <1>2, <1>8, <2>1, RecursionIs
<1>10. f[n - 1] \in Nat /\ f[n] = f[n - 1] + q[n].qty /\ q[n].qty \in Nat \ {0}
  <2>1. n - 1 \in 0 .. n /\ n \in 1 .. n
    BY <1>1
  <2>2. f \in [0 .. n -> Nat]
    BY <1>9 DEF Iterates
  <2> QED BY <1>1, <1>8, <2>1, <2>2
<1> QED BY <1>4, <1>10

\* The prices and the sizes of a quote.
Quotes == [bp : Nat \ {0}, bq : Nat \ {0}, ap : Nat \ {0}, aq : Nat \ {0}]

\* The top of a side that has levels.
LEMMA BestLevel ==
  ASSUME NEW e, NEW side, Ladder(e[side]), DOMAIN e[side] # {}
  PROVE  best(e, side).px \in Nat \ {0} /\ best(e, side).qty \in Nat \ {0}
<1> DEFINE b == e[side]
           p == Best(side, DOMAIN b)
<1>1. p \in DOMAIN b
  <2>1. DOMAIN b \in SUBSET DOMAIN b
    OBVIOUS
  <2> HIDE DEF b
  <2> QED BY <2>1, BestIs DEF b
<1> HIDE DEF p
<1>2. p \in Nat \ {0} /\ b[p] \in Seq(Queued) /\ b[p] # << >>
  <2>1. b \in [DOMAIN b -> Seq(Queued) \ {<< >>}] /\ DOMAIN b \subseteq Prices
    BY DEF Ladder
  <2> QED BY <1>1, <2>1, PricesAssumption
<1>3. LevelQty(b[p]) \in Nat \ {0}
  BY <1>2, LevelQtyIs
<1>4. best(e, side) = [px |-> p, qty |-> LevelQty(b[p])]
  BY DEF best, p
<1> QED BY <1>2, <1>3, <1>4

\* The top of a book that has both sides is a quote.
LEMMA TopIs ==
  ASSUME NEW e, IsEngine(e), TwoSided(e)
  PROVE  Top(e) \in Quotes
<1>1. Ladder(e["Buy"]) /\ Ladder(e["Sell"]) /\ DOMAIN e["Buy"] # {} /\ DOMAIN e["Sell"] # {}
  BY DEF IsEngine, TwoSided
<1> DEFINE x == best(e, "Buy")
           y == best(e, "Sell")
<1>2. x.px \in Nat \ {0} /\ x.qty \in Nat \ {0} /\ y.px \in Nat \ {0} /\ y.qty \in Nat \ {0}
  BY <1>1, BestLevel
<1>3. Top(e) = Quote(x, y)
  BY DEF Top
<1> HIDE DEF x, y
<1> QED BY <1>2, <1>3 DEF Quote, Quotes

----------------------------------------------------------------------------
(* The file replay: sums over the history *)

\* g adds up the numbers of s.
Adds(g, s) ==
  /\ g \in [0 .. Len(s) -> Int] /\ g[0] = 0
  /\ \A i \in 1 .. Len(s) : g[i] = g[i - 1] + s[i]

\* The sum is what such a g ends with.
LEMMA SumIs ==
  ASSUME NEW s \in Seq(Int)
  PROVE  \E g : Adds(g, s) /\ Sum(s) = g[Len(s)]
<1> DEFINE n == Len(s)
           V == Int
           G == [i \in 1 .. n |-> [v \in Int |-> v + s[i]]]
           Body(g) == [i \in 0 .. n |-> IF i = 0 THEN 0 ELSE g[i - 1] + s[i]]
           f == CHOOSE g : g = Body(g)
<1>1. n \in Nat /\ \A i \in 1 .. n : s[i] \in Int
  OBVIOUS
<1>2. G \in [1 .. n -> [V -> V]] /\ 0 \in V
  BY <1>1
<1>3. \A i \in 1 .. n, v \in Int : G[i][v] = v + s[i]
  OBVIOUS
<1>4. Sum(s) = f[n]
  BY DEF Sum
<1> HIDE DEF G, n, V
<1>5. PICK h : Iterates(h, n, V, 0, G)
  BY <1>1, <1>2, RecursionExists
<1>6. h = Body(h)
  <2>1. h \in [0 .. n -> Int] /\ h[0] = 0
    BY <1>5 DEF Iterates, V
  <2>2. ASSUME NEW i \in 0 .. n PROVE h[i] = Body(h)[i]
    <3>1. CASE i = 0
      BY <2>1, <3>1
    <3>2. CASE i # 0
      <4>1. i \in 1 .. n /\ i - 1 \in 0 .. n
        BY <1>1, <3>2
      <4>2. h[i] = G[i][h[i - 1]] /\ h[i - 1] \in Int
        BY <1>5, <2>1, <4>1 DEF Iterates
      <4>3. h[i] = h[i - 1] + s[i]
        BY <1>3, <4>1, <4>2
      <4> QED BY <3>2, <4>3
    <3> QED BY <3>1, <3>2
  <2> QED BY <2>1, <2>2
<1>7. f = Body(f)
  <2> HIDE DEF Body
  <2> QED BY <1>6
<1> HIDE DEF f
<1>8. /\ f[0] = 0 /\ f = [i \in 0 .. n |-> f[i]]
      /\ \A i \in 1 .. n : f[i] = f[i - 1] + s[i]
  <2>1. 0 \in 0 .. n /\ \A i \in 1 .. n : i \in 0 .. n /\ i # 0
    BY <1>1
  <2>2. \A i \in 0 .. n : f[i] = IF i = 0 THEN 0 ELSE f[i - 1] + s[i]
    BY <1>7
  <2>3. DOMAIN f = 0 .. n
    BY <1>7
  <2>4. f = [i \in 0 .. n |-> f[i]]
    BY <1>7, <2>3
  <2> QED BY <2>1, <2>2, <2>4
<1>9. Iterates(f, n, V, 0, G)
  <2>1. \A i \in 1 .. n : f[i - 1] \in V => f[i] = G[i][f[i - 1]]
    BY <1>3, <1>8 DEF V
  <2> QED BY <1>1, <1>2, <1>8, <2>1, RecursionIs
<1>10. f \in [0 .. n -> Int]
  BY <1>9 DEF Iterates, V
<1> QED BY <1>4, <1>8, <1>10 DEF Adds, n

\* One more number adds to the sum.
LEMMA SumNext ==
  ASSUME NEW s \in Seq(Int), NEW x \in Int
  PROVE  Sum(s) \in Int /\ Sum(Append(s, x)) = Sum(s) + x
<1> DEFINE n == Len(s)
           u == Append(s, x)
<1>1. PICK g : Adds(g, s) /\ Sum(s) = g[n]
  BY SumIs
<1>2. /\ n \in Nat /\ u \in Seq(Int) /\ Len(u) = n + 1 /\ u[n + 1] = x
      /\ \A i \in 1 .. n : u[i] = s[i]
  OBVIOUS
<1> HIDE DEF u
<1>3. PICK h : Adds(h, u) /\ Sum(u) = h[n + 1]
  BY <1>2, SumIs
<1>4. /\ g \in [0 .. n -> Int] /\ g[0] = 0
      /\ \A i \in 1 .. n : g[i] = g[i - 1] + s[i]
  BY <1>1 DEF Adds
<1> HIDE DEF n
<1>5. h[0] = 0 /\ \A i \in 1 .. n + 1 : h[i] = h[i - 1] + u[i]
  BY <1>2, <1>3 DEF Adds
<1>6. \A i \in 0 .. n : h[i] = g[i]
  <2> DEFINE T == {i \in 0 .. n : h[i] # g[i]}
  <2> SUFFICES ASSUME T # {} PROVE FALSE
    OBVIOUS
  <2>1. T \in SUBSET Nat
    OBVIOUS
  <2>2. PICK i \in T : \A m \in T : i <= m
    <3> HIDE DEF T
    <3> QED BY <2>1, LeastNatural
  <2>3. i \in 1 .. n /\ i \in 1 .. n + 1 /\ i - 1 \in 0 .. n
    BY <1>2, <1>4, <1>5, <2>2
  <2>4. h[i - 1] = g[i - 1]
    BY <1>2, <2>2, <2>3
  <2>5. h[i] = h[i - 1] + s[i] /\ g[i] = g[i - 1] + s[i]
    BY <1>2, <1>4, <1>5, <2>3
  <2> QED BY <2>2, <2>4, <2>5
<1>7. Sum(s) \in Int
  BY <1>1, <1>2, <1>4
<1>8. h[n + 1] = h[n] + x
  <2>1. n + 1 \in 1 .. n + 1 /\ (n + 1) - 1 = n
    BY <1>2
  <2> QED BY <1>2, <1>5, <2>1
<1>9. h[n] = g[n]
  BY <1>2, <1>6
<1> QED BY <1>1, <1>3, <1>7, <1>8, <1>9 DEF u

\* Nothing adds up to nothing.
LEMMA SumEmpty == Sum(<< >>) = 0
<1>1. << >> \in Seq(Int) /\ Len(<< >>) = 0
  OBVIOUS
<1>2. PICK g : Adds(g, << >>) /\ Sum(<< >>) = g[0]
  BY <1>1, SumIs
<1> QED BY <1>2 DEF Adds

\* Natural numbers add up to one.
LEMMA SumNat ==
  ASSUME NEW s \in Seq(Nat)
  PROVE  Sum(s) \in Nat
<1> DEFINE n == Len(s)
<1>1. s \in Seq(Int) /\ n \in Nat /\ \A i \in 1 .. n : s[i] \in Nat
  OBVIOUS
<1>2. PICK g : Adds(g, s) /\ Sum(s) = g[n]
  BY <1>1, SumIs
<1>3. /\ g \in [0 .. n -> Int] /\ g[0] = 0
      /\ \A i \in 1 .. n : g[i] = g[i - 1] + s[i]
  BY <1>2 DEF Adds
<1> HIDE DEF n
<1>4. \A i \in 0 .. n : g[i] \in Nat
  <2> DEFINE T == {i \in 0 .. n : g[i] \notin Nat}
  <2> SUFFICES ASSUME T # {} PROVE FALSE
    OBVIOUS
  <2>1. T \in SUBSET Nat
    OBVIOUS
  <2>2. PICK i \in T : \A m \in T : i <= m
    <3> HIDE DEF T
    <3> QED BY <2>1, LeastNatural
  <2>3. i \in 1 .. n /\ i - 1 \in 0 .. n
    BY <1>1, <1>3, <2>2
  <2>4. g[i - 1] \in Nat
    BY <1>1, <2>2, <2>3
  <2>5. g[i] = g[i - 1] + s[i] /\ s[i] \in Nat
    BY <1>1, <1>3, <2>3
  <2>6. g[i] \in Nat
    BY <2>4, <2>5
  <2> QED BY <2>2, <2>6
<1> QED BY <1>1, <1>2, <1>4

\* A function on the indices of t and one more is its values on t and one more.
LEMMA AppendIs ==
  ASSUME NEW V, NEW n \in Nat, NEW f \in [1 .. n -> V], NEW g \in [1 .. n + 1 -> V],
         \A i \in 1 .. n : g[i] = f[i]
  PROVE  f \in Seq(V) /\ g = Append(f, g[n + 1])
<1>1. f \in Seq(V) /\ Len(f) = n
  OBVIOUS
<1> DEFINE u == Append(f, g[n + 1])
<1>2. u \in Seq(V) /\ Len(u) = n + 1 /\ u[n + 1] = g[n + 1] /\ \A i \in 1 .. n : u[i] = f[i]
  <2>1. g[n + 1] \in V
    OBVIOUS
  <2> QED BY <1>1, <2>1
<1> HIDE DEF u
<1>3. u \in [1 .. n + 1 -> V]
  BY <1>2, LenProperties
<1>4. \A i \in 1 .. n + 1 : g[i] = u[i]
  BY <1>2
<1>5. g = u
  BY <1>3, <1>4
<1> QED BY <1>1, <1>5 DEF u

\* The sums over the indices of a sequence, whose terms are f before and g after
\* it grew by one: the last term adds to the sum.
LEMMA SumGrows ==
  ASSUME NEW n \in Nat, NEW f \in [1 .. n -> Int], NEW g \in [1 .. n + 1 -> Int],
         \A i \in 1 .. n : g[i] = f[i]
  PROVE  Sum(f) \in Int /\ Sum(g) = Sum(f) + g[n + 1]
<1>1. f \in Seq(Int) /\ g = Append(f, g[n + 1]) /\ g[n + 1] \in Int
  <2> DEFINE V == Int
  <2>1. f \in [1 .. n -> V] /\ g \in [1 .. n + 1 -> V] /\ g[n + 1] \in V
    OBVIOUS
  <2> HIDE DEF V
  <2>2. f \in Seq(V) /\ g = Append(f, g[n + 1])
    BY <2>1, AppendIs
  <2> QED BY <2>1, <2>2 DEF V
<1> QED BY <1>1, SumNext

----------------------------------------------------------------------------
(* The file replay: the square root *)

\* Two more bits of the number, one more of its root.
LEMMA RootStep ==
  ASSUME NEW r \in Nat, NEW rem \in Nat, NEW w \in Nat, w \div 4 = r * r + rem, rem <= 2 * r,
         NEW x, x = 4 * rem + (w % 4)
  PROVE  /\ x > 4 * r => /\ w = (2 * r + 1) * (2 * r + 1) + (x - (4 * r + 1))
                         /\ x - (4 * r + 1) <= 2 * (2 * r + 1) /\ x - (4 * r + 1) \in Nat
         /\ ~ (x > 4 * r) => w = (2 * r) * (2 * r) + x /\ x <= 2 * (2 * r) /\ x \in Nat
<1>1. w % 4 \in 0 .. 3 /\ w = 4 * (w \div 4) + (w % 4)
  OBVIOUS
<1> DEFINE d == w % 4
<1>2. d \in 0 .. 3 /\ w = 4 * (r * r + rem) + d /\ x = 4 * rem + d
  BY <1>1
<1> HIDE DEF d
<1>3. (2 * r) * (2 * r) = 4 * (r * r)
  OBVIOUS
<1>4. (2 * r + 1) * (2 * r + 1) = 4 * (r * r) + 4 * r + 1
  OBVIOUS
<1> DEFINE k == r * r
<1>5. k \in Nat /\ w = 4 * (k + rem) + d
  BY <1>2
<1>6. (2 * r) * (2 * r) = 4 * k /\ (2 * r + 1) * (2 * r + 1) = 4 * k + 4 * r + 1
  BY <1>3, <1>4
<1> HIDE DEF k
<1>7. x \in Nat /\ w = 4 * k + x
  BY <1>2, <1>5
<1>8. ASSUME x > 4 * r
      PROVE  /\ w = (2 * r + 1) * (2 * r + 1) + (x - (4 * r + 1))
             /\ x - (4 * r + 1) <= 2 * (2 * r + 1) /\ x - (4 * r + 1) \in Nat
  <2>1. w = (4 * k + 4 * r + 1) + (x - (4 * r + 1))
    BY <1>5, <1>7
  <2>2. x - (4 * r + 1) <= 2 * (2 * r + 1) /\ x - (4 * r + 1) \in Nat
    BY <1>2, <1>7, <1>8
  <2> QED BY <1>6, <2>1, <2>2
<1>9. ASSUME ~ (x > 4 * r)
      PROVE  w = (2 * r) * (2 * r) + x /\ x <= 2 * (2 * r) /\ x \in Nat
  BY <1>6, <1>7, <1>9
<1> QED BY <1>8, <1>9

\* The shifted numbers are quotients by four.
LEMMA ShiftedIs ==
  ASSUME NEW v \in Nat
  PROVE  /\ Shifted(v) \in [0 .. RootBits -> Nat] /\ Shifted(v)[0] = v
         /\ \A i \in 1 .. RootBits : Shifted(v)[i] = Shifted(v)[i - 1] \div 4
<1> DEFINE n == RootBits
           G == [i \in 1 .. n |-> [w \in Nat |-> w \div 4]]
           Body(g) == [i \in 0 .. n |-> IF i = 0 THEN v ELSE g[i - 1] \div 4]
           f == CHOOSE g : g = Body(g)
<1>1. n \in Nat
  BY ScaleAssumption
<1>2. G \in [1 .. n -> [Nat -> Nat]]
  OBVIOUS
<1>3. \A i \in 1 .. n, w \in Nat : G[i][w] = w \div 4
  OBVIOUS
<1>4. Shifted(v) = f
  BY DEF Shifted
<1> HIDE DEF G, n
<1>5. PICK h : Iterates(h, n, Nat, v, G)
  BY <1>1, <1>2, RecursionExists
<1>6. h = Body(h)
  <2>1. h \in [0 .. n -> Nat] /\ h[0] = v
    BY <1>5 DEF Iterates
  <2>2. ASSUME NEW i \in 0 .. n PROVE h[i] = Body(h)[i]
    <3>1. CASE i = 0
      BY <2>1, <3>1
    <3>2. CASE i # 0
      <4>1. i \in 1 .. n /\ i - 1 \in 0 .. n
        BY <1>1, <3>2
      <4>2. h[i] = G[i][h[i - 1]] /\ h[i - 1] \in Nat
        BY <1>5, <2>1, <4>1 DEF Iterates
      <4>3. h[i] = h[i - 1] \div 4
        BY <1>3, <4>1, <4>2
      <4> QED BY <3>2, <4>3
    <3> QED BY <3>1, <3>2
  <2> QED BY <2>1, <2>2
<1>7. f = Body(f)
  <2> HIDE DEF Body
  <2> QED BY <1>6
<1> HIDE DEF f
<1>8. /\ f[0] = v /\ f = [i \in 0 .. n |-> f[i]]
      /\ \A i \in 1 .. n : f[i] = f[i - 1] \div 4
  <2>1. 0 \in 0 .. n /\ \A i \in 1 .. n : i \in 0 .. n /\ i # 0
    BY <1>1
  <2>2. \A i \in 0 .. n : f[i] = IF i = 0 THEN v ELSE f[i - 1] \div 4
    BY <1>7
  <2>3. DOMAIN f = 0 .. n
    BY <1>7
  <2>4. f = [i \in 0 .. n |-> f[i]]
    BY <1>7, <2>3
  <2> QED BY <2>1, <2>2, <2>4
<1>9. Iterates(f, n, Nat, v, G)
  <2>1. \A i \in 1 .. n : f[i - 1] \in Nat => f[i] = G[i][f[i - 1]]
    BY <1>3, <1>8
  <2> QED BY <1>1, <1>2, <1>8, <2>1, RecursionIs
<1> QED BY <1>4, <1>8, <1>9 DEF Iterates, n

\* The state of the root's loop.
Rooting == [rem : Nat, root : Nat]

\* A pass of the loop, with the next two bits d of the number.
RootNext(s, d) ==
  LET root == 2 * s.root
      rem  == 4 * s.rem + d
  IN  IF rem > root THEN [rem |-> rem - (root + 1), root |-> root + 2]
      ELSE [rem |-> rem, root |-> root]

\* It stays in the natural numbers.
LEMMA RootNextIs ==
  ASSUME NEW s \in Rooting, NEW d \in Nat
  PROVE  RootNext(s, d) \in Rooting
<1>1. s.rem \in Nat /\ s.root \in Nat
  BY DEF Rooting
<1> DEFINE root == 2 * s.root
           rem == 4 * s.rem + d
<1>2. root \in Nat /\ rem \in Nat
  BY <1>1
<1>3. RootNext(s, d) = IF rem > root THEN [rem |-> rem - (root + 1), root |-> root + 2]
                       ELSE [rem |-> rem, root |-> root]
  BY DEF RootNext
<1> HIDE DEF root, rem
<1>4. rem > root => rem - (root + 1) \in Nat /\ root + 2 \in Nat
  BY <1>2
<1> QED BY <1>2, <1>3, <1>4 DEF Rooting

\* The passes of the loop on the number v.
RootLoop(f, v) ==
  /\ f \in [0 .. RootBits -> Rooting] /\ f[0] = [rem |-> 0, root |-> 0]
  /\ \A i \in 1 .. RootBits : f[i] = RootNext(f[i - 1], Shifted(v)[RootBits - i] % 4)

\* The loop of the code is one of them.
LEMMA LoopIs ==
  ASSUME NEW v \in Nat
  PROVE  \E f : RootLoop(f, v) /\ isqrt(v) = f[RootBits].root \div 2
<1> DEFINE n == RootBits
           D(i) == Shifted(v)[n - i] % 4
           Zero == [rem |-> 0, root |-> 0]
           G == [i \in 1 .. n |-> [s \in Rooting |-> RootNext(s, D(i))]]
           Code(g) ==
             [i \in 0 .. RootBits |->
                IF i = 0 THEN [rem |-> 0, root |-> 0]
                ELSE LET root == 2 * g[i - 1].root
                         rem  == 4 * g[i - 1].rem + (Shifted(v)[RootBits - i] % 4)
                     IN  IF rem > root THEN [rem |-> rem - (root + 1), root |-> root + 2]
                         ELSE [rem |-> rem, root |-> root]]
           f == CHOOSE g : g = Code(g)
<1>1. n \in Nat
  BY ScaleAssumption
<1>2. isqrt(v) = f[n].root \div 2
  BY DEF isqrt
<1>3. ASSUME NEW g
      PROVE  Code(g) = [i \in 0 .. n |-> IF i = 0 THEN Zero ELSE RootNext(g[i - 1], D(i))]
  BY DEF RootNext
<1>4. \A i \in 1 .. n : D(i) \in Nat
  <2> SUFFICES ASSUME NEW i \in 1 .. n PROVE D(i) \in Nat
    OBVIOUS
  <2>1. n - i \in 0 .. n
    BY <1>1
  <2>2. Shifted(v)[n - i] \in Nat
    BY <2>1, ShiftedIs
  <2> QED BY <2>2
<1>5. Zero \in Rooting
  BY DEF Rooting
<1> HIDE DEF D, Zero, n, Code
<1>6. G \in [1 .. n -> [Rooting -> Rooting]]
  <2>1. \A i \in 1 .. n, s \in Rooting : RootNext(s, D(i)) \in Rooting
    BY <1>4, RootNextIs
  <2> QED BY <2>1
<1>7. \A i \in 1 .. n, s \in Rooting : G[i][s] = RootNext(s, D(i))
  OBVIOUS
<1> HIDE DEF G
<1>8. PICK h : Iterates(h, n, Rooting, Zero, G)
  BY <1>1, <1>5, <1>6, RecursionExists
<1>9. h = Code(h)
  <2>1. h \in [0 .. n -> Rooting] /\ h[0] = Zero
    BY <1>8 DEF Iterates
  <2>2. ASSUME NEW i \in 0 .. n
        PROVE  h[i] = IF i = 0 THEN Zero ELSE RootNext(h[i - 1], D(i))
    <3>1. CASE i = 0
      BY <2>1, <3>1
    <3>2. CASE i # 0
      <4>1. i \in 1 .. n /\ i - 1 \in 0 .. n
        BY <1>1, <3>2
      <4>2. h[i] = G[i][h[i - 1]] /\ h[i - 1] \in Rooting
        BY <1>8, <2>1, <4>1 DEF Iterates
      <4> QED BY <1>7, <3>2, <4>1, <4>2
    <3> QED BY <3>1, <3>2
  <2>3. h = [i \in 0 .. n |-> h[i]]
    BY <2>1
  <2> QED BY <1>3, <2>2, <2>3
<1>10. f = Code(f)
  BY <1>9
<1> HIDE DEF f
<1>11. /\ f[0] = Zero /\ f = [i \in 0 .. n |-> f[i]]
       /\ \A i \in 1 .. n : f[i] = RootNext(f[i - 1], D(i))
  <2>1. 0 \in 0 .. n /\ \A i \in 1 .. n : i \in 0 .. n /\ i # 0
    BY <1>1
  <2>2. f = [i \in 0 .. n |-> IF i = 0 THEN Zero ELSE RootNext(f[i - 1], D(i))]
    BY <1>3, <1>10
  <2>3. \A i \in 0 .. n : f[i] = IF i = 0 THEN Zero ELSE RootNext(f[i - 1], D(i))
    BY <2>2
  <2>4. f = [i \in 0 .. n |-> f[i]]
    BY <2>2
  <2> QED BY <2>1, <2>3, <2>4
<1>12. Iterates(f, n, Rooting, Zero, G)
  <2>1. \A i \in 1 .. n : f[i - 1] \in Rooting => f[i] = G[i][f[i - 1]]
    BY <1>7, <1>11
  <2> QED BY <1>1, <1>5, <1>6, <1>11, <2>1, RecursionIs
<1>13. RootLoop(f, v)
  BY <1>11, <1>12 DEF RootLoop, Iterates, n, D, Zero
<1> QED BY <1>2, <1>13 DEF n, f

\* After i passes the loop has the root of the first i pairs of bits, w, and
\* what is left of them.
Rooted(s, w) ==
  \E r \in Nat : s.root = 2 * r /\ w = r * r + s.rem /\ s.rem <= 2 * r

\* The loop computes the root of every number of at most RootBits pairs of bits.
LEMMA RootIs ==
  ASSUME NEW v \in Nat, Shifted(v)[RootBits] = 0
  PROVE  isqrt(v) \in Nat /\ isqrt(v) * isqrt(v) <= v /\ v < (isqrt(v) + 1) * (isqrt(v) + 1)
<1> DEFINE n == RootBits
           W(i) == Shifted(v)[n - i]
<1>1. n \in Nat
  BY ScaleAssumption
<1>2. PICK f : RootLoop(f, v) /\ isqrt(v) = f[n].root \div 2
  BY LoopIs
<1>3. /\ f \in [0 .. n -> Rooting] /\ f[0] = [rem |-> 0, root |-> 0]
      /\ \A i \in 1 .. n : f[i] = RootNext(f[i - 1], W(i) % 4)
  BY <1>2 DEF RootLoop
<1>4. W(0) = 0 /\ W(n) = v /\ \A i \in 1 .. n : W(i) \in Nat /\ W(i) \div 4 = W(i - 1)
  <2>1. Shifted(v)[n] = 0
    OBVIOUS
  <2>2. W(0) = 0 /\ W(n) = v
    BY <1>1, <2>1, ShiftedIs
  <2>3. ASSUME NEW i \in 1 .. n PROVE W(i) \in Nat /\ W(i) \div 4 = W(i - 1)
    <3>1. n - i \in 0 .. n /\ n - (i - 1) \in 1 .. n /\ (n - (i - 1)) - 1 = n - i
      BY <1>1
    <3>2. Shifted(v)[n - i] \in Nat
      BY <3>1, ShiftedIs
    <3>3. Shifted(v)[n - (i - 1)] = Shifted(v)[(n - (i - 1)) - 1] \div 4
      BY <3>1, ShiftedIs
    <3> QED BY <3>1, <3>2, <3>3
  <2> QED BY <2>2, <2>3
<1> HIDE DEF n, W
<1>5. ASSUME NEW i \in 1 .. n, Rooted(f[i - 1], W(i - 1))
      PROVE  Rooted(f[i], W(i))
  <2>1. PICK r \in Nat : /\ f[i - 1].root = 2 * r /\ W(i - 1) = r * r + f[i - 1].rem
                         /\ f[i - 1].rem <= 2 * r
    BY <1>5 DEF Rooted
  <2> DEFINE y == f[i - 1].rem
             w == W(i)
             x == 4 * y + (w % 4)
  <2>2. f[i - 1] \in Rooting
    BY <1>1, <1>3
  <2>3. y \in Nat /\ w \in Nat /\ w \div 4 = r * r + y /\ y <= 2 * r
    BY <1>4, <2>1, <2>2 DEF Rooting
  <2>4. f[i] = IF x > 4 * r THEN [rem |-> x - (4 * r + 1), root |-> 4 * r + 2]
               ELSE [rem |-> x, root |-> 4 * r]
    <3>1. f[i] = RootNext(f[i - 1], w % 4)
      BY <1>3
    <3>2. 2 * (2 * r) = 4 * r
      OBVIOUS
    <3> QED BY <2>1, <3>1, <3>2 DEF RootNext
  <2> HIDE DEF y, w
  <2>5. /\ x > 4 * r => /\ w = (2 * r + 1) * (2 * r + 1) + (x - (4 * r + 1))
                        /\ x - (4 * r + 1) <= 2 * (2 * r + 1)
        /\ ~ (x > 4 * r) => w = (2 * r) * (2 * r) + x /\ x <= 2 * (2 * r)
    BY <2>3, RootStep
  <2> HIDE DEF x
  <2>6. CASE x > 4 * r
    <3> DEFINE r1 == 2 * r + 1
    <3>1. r1 \in Nat /\ f[i].root = 2 * r1 /\ f[i].rem = x - (4 * r + 1)
      BY <2>4, <2>6
    <3>2. w = r1 * r1 + (x - (4 * r + 1)) /\ x - (4 * r + 1) <= 2 * r1
      BY <2>5, <2>6
    <3> HIDE DEF r1
    <3> QED BY <3>1, <3>2 DEF Rooted, w
  <2>7. CASE ~ (x > 4 * r)
    <3> DEFINE r1 == 2 * r
    <3>1. r1 \in Nat /\ f[i].root = 2 * r1 /\ f[i].rem = x
      BY <2>4, <2>7
    <3>2. w = r1 * r1 + x /\ x <= 2 * r1
      BY <2>5, <2>7
    <3> HIDE DEF r1
    <3> QED BY <3>1, <3>2 DEF Rooted, w
  <2> QED BY <2>6, <2>7
<1>6. Rooted(f[n], W(n))
  <2> DEFINE T == {i \in 0 .. n : ~ Rooted(f[i], W(i))}
  <2> SUFFICES ASSUME T # {} PROVE FALSE
    BY <1>1
  <2>1. T \in SUBSET Nat
    OBVIOUS
  <2>2. PICK i \in T : \A m \in T : i <= m
    <3> HIDE DEF T
    <3> QED BY <2>1, LeastNatural
  <2>3. Rooted(f[0], W(0))
    <3>1. f[0].root = 2 * 0 /\ W(0) = 0 * 0 + f[0].rem /\ f[0].rem <= 2 * 0 /\ 0 \in Nat
      BY <1>3, <1>4
    <3> QED BY <3>1 DEF Rooted
  <2>4. i \in 1 .. n /\ i - 1 \in 0 .. n
    BY <1>1, <2>2, <2>3
  <2>5. Rooted(f[i - 1], W(i - 1))
    BY <1>1, <2>2, <2>4
  <2> QED BY <1>5, <2>2, <2>4, <2>5
<1>7. PICK r \in Nat : f[n].root = 2 * r /\ v = r * r + f[n].rem /\ f[n].rem <= 2 * r
  BY <1>4, <1>6 DEF Rooted
<1>8. f[n].rem \in Nat
  BY <1>1, <1>3 DEF Rooting
<1>9. isqrt(v) = r
  BY <1>2, <1>7
<1>10. r * r <= v /\ v < (r + 1) * (r + 1)
  <2>1. (r + 1) * (r + 1) = r * r + 2 * r + 1 /\ r * r \in Nat
    OBVIOUS
  <2> DEFINE k == r * r
  <2>2. k \in Nat /\ v = k + f[n].rem /\ (r + 1) * (r + 1) = k + 2 * r + 1
    BY <1>7, <2>1
  <2> HIDE DEF k
  <2>3. k <= v /\ v < k + 2 * r + 1
    BY <1>7, <1>8, <2>2
  <2> QED BY <2>2, <2>3 DEF k
<1> QED BY <1>9, <1>10

----------------------------------------------------------------------------
(* The file replay: what the analytics keep *)

\* The state of the analytics, as far as it is looked at here.
IsMicro(s) ==
  {"pb", "qb", "pa", "qa", "have_prev", "ofi", "prev_mid_x2", "sum_sq_ret", "realized_vol",
   "trades", "effective_spread_sum", "sum_dp_v", "sum_v_sq", "kyle_lambda",
   "prev_trade_mid_x2", "microprice", "mid", "micro_minus_mid"} \subseteq DOMAIN s

SamePrices(s, t) ==
  t.microprice = s.microprice /\ t.mid = s.mid /\ t.micro_minus_mid = s.micro_minus_mid

\* The quote did not change, nor what is computed from quotes.
SameQuote(s, t) ==
  /\ t.pb = s.pb /\ t.qb = s.qb /\ t.pa = s.pa /\ t.qa = s.qa /\ t.have_prev = s.have_prev
  /\ t.ofi = s.ofi /\ t.prev_mid_x2 = s.prev_mid_x2
  /\ t.sum_sq_ret = s.sum_sq_ret /\ t.realized_vol = s.realized_vol
  /\ SamePrices(s, t)

\* What is computed from trades did not change.
SameTrades(s, t) ==
  /\ t.trades = s.trades /\ t.effective_spread_sum = s.effective_spread_sum
  /\ t.sum_dp_v = s.sum_dp_v /\ t.sum_v_sq = s.sum_v_sq /\ t.kyle_lambda = s.kyle_lambda
  /\ t.prev_trade_mid_x2 = s.prev_trade_mid_x2

\* A trade was counted and measured against the mid.
Measures(s, t, px, mid) ==
  /\ t.trades = s.trades + 1
  /\ t.effective_spread_sum = s.effective_spread_sum + Abs(2 * px - mid)
  /\ t.prev_trade_mid_x2 = mid

\* It entered the regression.
Regresses(s, t, v, dp) ==
  /\ t.sum_dp_v = s.sum_dp_v + dp * v /\ t.sum_v_sq = s.sum_v_sq + v * v
  /\ t.kyle_lambda = IF t.sum_v_sq > 0 THEN Quot(t.sum_dp_v * ImpactScale, t.sum_v_sq)
                     ELSE s.kyle_lambda

\* A trade leaves the quote. It counts for nothing before there is one, and is
\* measured against the mid otherwise; the first one is not in the regression.
LEMMA OnTradeIs ==
  ASSUME NEW s, IsMicro(s), NEW px, NEW qty, NEW buyer,
         NEW t, t = on_trade(s, px, qty, buyer),
         NEW v, v = IF buyer THEN qty ELSE -qty,
         NEW mid_x2, mid_x2 = s.pb + s.pa
  PROVE  /\ IsMicro(t) /\ SameQuote(s, t)
         /\ ~ s.have_prev => t = s
         /\ s.have_prev /\ s.pb # 0 /\ s.pa # 0 =>
              /\ Measures(s, t, px, mid_x2)
              /\ IF s.prev_trade_mid_x2 > 0
                   THEN Regresses(s, t, v, mid_x2 - s.prev_trade_mid_x2)
                   ELSE /\ t.sum_dp_v = s.sum_dp_v /\ t.sum_v_sq = s.sum_v_sq
                        /\ t.kyle_lambda = s.kyle_lambda
<1> DEFINE spread == s.effective_spread_sum + Abs(2 * px - mid_x2)
           measured == [s EXCEPT !.trades = @ + 1, !.effective_spread_n = @ + 1,
                                 !.effective_spread_sum = @ + Abs(2 * px - mid_x2)]
           dp == mid_x2 - s.prev_trade_mid_x2
           late == s.prev_trade_mid_x2 > 0
           x == IF late THEN Regressed(measured, dp, v) ELSE measured
           y == [x EXCEPT !.prev_trade_mid_x2 = mid_x2]
<1>1. t = IF ~ s.have_prev \/ s.pb = 0 \/ s.pa = 0 THEN s ELSE y
  BY DEF on_trade
<1>2. /\ IsMicro(measured) /\ SameQuote(s, measured)
      /\ measured.trades = s.trades + 1 /\ measured.effective_spread_sum = spread
      /\ measured.sum_dp_v = s.sum_dp_v /\ measured.sum_v_sq = s.sum_v_sq
      /\ measured.kyle_lambda = s.kyle_lambda
  <2>1. IsMicro(measured) /\ SameQuote(s, measured)
    BY DEF IsMicro, SameQuote, SamePrices
  <2>2. /\ measured.trades = s.trades + 1 /\ measured.effective_spread_sum = spread
        /\ measured.sum_dp_v = s.sum_dp_v /\ measured.sum_v_sq = s.sum_v_sq
        /\ measured.kyle_lambda = s.kyle_lambda
    BY DEF IsMicro
  <2> QED BY <2>1, <2>2
<1> HIDE DEF measured, spread, dp, late
<1>3. LET z == Regressed(measured, dp, v)
      IN  /\ IsMicro(z) /\ SameQuote(s, z) /\ Regresses(s, z, v, dp)
          /\ z.trades = s.trades + 1 /\ z.effective_spread_sum = spread
  <2> DEFINE z == Regressed(measured, dp, v)
             dpv == measured.sum_dp_v + dp * v
             vv == measured.sum_v_sq + v * v
             k == IF vv > 0 THEN Quot(dpv * ImpactScale, vv) ELSE measured.kyle_lambda
  <2>1. z = [measured EXCEPT !.sum_dp_v = dpv, !.sum_v_sq = vv, !.kyle_lambda = k]
    BY DEF Regressed
  <2>2. dpv = s.sum_dp_v + dp * v /\ vv = s.sum_v_sq + v * v
    BY <1>2
  <2>3. k = IF vv > 0 THEN Quot(dpv * ImpactScale, vv) ELSE s.kyle_lambda
    BY <1>2
  <2> HIDE DEF z, dpv, vv, k
  <2>4. z.sum_dp_v = dpv /\ z.sum_v_sq = vv /\ z.kyle_lambda = k
    BY <1>2, <2>1 DEF IsMicro
  <2>5. IsMicro(z) /\ SameQuote(measured, z)
    BY <1>2, <2>1 DEF IsMicro, SameQuote, SamePrices
  <2>6. SameQuote(s, z)
    BY <1>2, <2>5 DEF SameQuote, SamePrices
  <2>7. z.trades = measured.trades /\ z.effective_spread_sum = measured.effective_spread_sum
    BY <1>2, <2>1 DEF IsMicro
  <2>8. Regresses(s, z, v, dp)
    BY <2>2, <2>3, <2>4 DEF Regresses
  <2> QED BY <1>2, <2>5, <2>6, <2>7, <2>8 DEF z
<1>4. /\ IsMicro(x) /\ SameQuote(s, x)
      /\ x.trades = s.trades + 1 /\ x.effective_spread_sum = spread
      /\ IF late THEN Regresses(s, x, v, dp)
         ELSE /\ x.sum_dp_v = s.sum_dp_v /\ x.sum_v_sq = s.sum_v_sq
              /\ x.kyle_lambda = s.kyle_lambda
  BY <1>2, <1>3
<1> HIDE DEF x
<1>5. /\ IsMicro(y) /\ SameQuote(x, y) /\ y.prev_trade_mid_x2 = mid_x2
      /\ y.trades = x.trades /\ y.effective_spread_sum = x.effective_spread_sum
      /\ y.sum_dp_v = x.sum_dp_v /\ y.sum_v_sq = x.sum_v_sq /\ y.kyle_lambda = x.kyle_lambda
  <2>1. IsMicro(y) /\ SameQuote(x, y)
    BY <1>4 DEF IsMicro, SameQuote, SamePrices
  <2>2. /\ y.prev_trade_mid_x2 = mid_x2
        /\ y.trades = x.trades /\ y.effective_spread_sum = x.effective_spread_sum
        /\ y.sum_dp_v = x.sum_dp_v /\ y.sum_v_sq = x.sum_v_sq /\ y.kyle_lambda = x.kyle_lambda
    BY <1>4 DEF IsMicro
  <2> QED BY <2>1, <2>2
<1> HIDE DEF y
<1>6. IsMicro(y) /\ SameQuote(s, y)
  BY <1>4, <1>5 DEF SameQuote, SamePrices
<1>7. Measures(s, y, px, mid_x2)
  BY <1>4, <1>5 DEF Measures, spread
<1>8. IF late THEN Regresses(s, y, v, dp)
      ELSE /\ y.sum_dp_v = s.sum_dp_v /\ y.sum_v_sq = s.sum_v_sq
           /\ y.kyle_lambda = s.kyle_lambda
  BY <1>4, <1>5 DEF Regresses
<1>9. SameQuote(s, s)
  BY DEF SameQuote, SamePrices
<1>10. IsMicro(t) /\ SameQuote(s, t) /\ (~ s.have_prev => t = s)
  BY <1>1, <1>6, <1>9
<1>11. ASSUME s.have_prev, s.pb # 0, s.pa # 0
       PROVE  /\ Measures(s, t, px, mid_x2)
              /\ IF late THEN Regresses(s, t, v, dp)
                 ELSE /\ t.sum_dp_v = s.sum_dp_v /\ t.sum_v_sq = s.sum_v_sq
                      /\ t.kyle_lambda = s.kyle_lambda
  BY <1>1, <1>7, <1>8, <1>11
<1> QED BY <1>10, <1>11 DEF dp, late

\* The flow of an update, if there was a quote before it.
Flowed(s, q) == IF s.have_prev THEN s.ofi + OrderFlow(s, q) ELSE s.ofi

\* The squared returns and the volatility after it.
VolMoves(s, t, q) ==
  IF s.have_prev /\ s.prev_mid_x2 # 0 /\ MidX2(q) # s.prev_mid_x2
    THEN /\ t.sum_sq_ret = s.sum_sq_ret
                           + Return(s.prev_mid_x2, MidX2(q)) * Return(s.prev_mid_x2, MidX2(q))
         /\ t.realized_vol = isqrt(t.sum_sq_ret) \div VolScale
    ELSE t.sum_sq_ret = s.sum_sq_ret /\ t.realized_vol = s.realized_vol

\* The quote is q now.
QuoteTaken(t, q) ==
  /\ t.pb = q.bp /\ t.qb = q.bq /\ t.pa = q.ap /\ t.qa = q.aq /\ t.have_prev = TRUE
  /\ t.prev_mid_x2 = MidX2(q)
  /\ FairValue(t, q)

LEMMA ProductInNat ==
  ASSUME NEW a \in Nat, NEW b \in Nat
  PROVE  a * b \in Nat
OBVIOUS

LEMMA ProductPositive ==
  ASSUME NEW a \in Nat \ {0}, NEW b \in Nat \ {0}
  PROVE  a * b \in Nat \ {0}
OBVIOUS

LEMMA ProductCancels ==
  ASSUME NEW a \in Int, NEW b \in Int, NEW c \in Nat \ {0}, a * c < b * c
  PROVE  a < b
OBVIOUS

LEMMA WeightsApart ==
  ASSUME NEW b \in Int, NEW a \in Int, NEW x \in Int, NEW y \in Int, NEW p \in Int
  PROVE  /\ (b * y + a * x) * p - (b * p) * (x + y) = p * ((a - b) * x)
         /\ (a * p) * (x + y) - (b * y + a * x) * p = p * ((a - b) * y)
         /\ (b * y + a * x) * (2 * p) - ((b + a) * p) * (x + y) = p * ((a - b) * (x - y))
<1>1. (b * p) * (x + y) = (b * x) * p + (b * y) * p
  OBVIOUS
<1>2. (a * p) * (x + y) = (a * x) * p + (a * y) * p
  OBVIOUS
<1>3. (b * y + a * x) * p = (b * y) * p + (a * x) * p
  OBVIOUS
<1>4. p * ((a - b) * x) = (a * x) * p - (b * x) * p
  OBVIOUS
<1>5. p * ((a - b) * y) = (a * y) * p - (b * y) * p
  OBVIOUS
<1>6. ((b + a) * p) * (x + y) = (b * p) * (x + y) + (a * p) * (x + y)
  OBVIOUS
<1>7. (b * y + a * x) * (2 * p) = 2 * ((b * y + a * x) * p)
  OBVIOUS
<1>8. p * ((a - b) * (x - y)) = p * ((a - b) * x) - p * ((a - b) * y)
  OBVIOUS
<1>9. (b * x) * p \in Int /\ (b * y) * p \in Int /\ (a * x) * p \in Int /\ (a * y) * p \in Int
  OBVIOUS
<1> QED BY <1>1, <1>2, <1>3, <1>4, <1>5, <1>6, <1>7, <1>8, <1>9

LEMMA DivBounds ==
  ASSUME NEW a \in Nat, NEW c \in Nat \ {0}
  PROVE  a \div c \in Int /\ (a \div c) * c <= a /\ a < (a \div c + 1) * c
OBVIOUS

\* What Priced computes of an uncrossed quote is its fair value.
LEMMA PricedIsFair ==
  ASSUME NEW q \in Quotes, q.bp < q.ap, NEW t,
         t.microprice = ((q.bp * q.aq + q.ap * q.bq) * PriceScale) \div (q.bq + q.aq),
         t.mid = (q.bp + q.ap) * (PriceScale \div 2),
         t.micro_minus_mid = t.microprice - t.mid
  PROVE  FairValue(t, q)
<1> DEFINE d == q.bq + q.aq
           n == (q.bp * q.aq + q.ap * q.bq) * PriceScale
           h == PriceScale \div 2
           price == t.microprice
<1>1. /\ q.bp \in Nat \ {0} /\ q.bq \in Nat \ {0} /\ q.ap \in Nat \ {0} /\ q.aq \in Nat \ {0}
      /\ q.bp <= q.ap - 1
  BY DEF Quotes
<1>2. h \in Nat \ {0} /\ PriceScale = 2 * h /\ PriceScale \in Nat \ {0}
  BY ScaleAssumption
<1> HIDE DEF h
<1>3. d \in Nat \ {0} /\ n \in Nat
  <2>1. d \in Nat \ {0}
    BY <1>1
  <2>2. q.bp * q.aq \in Nat /\ q.ap * q.bq \in Nat
    BY <1>1, ProductInNat
  <2>3. q.bp * q.aq + q.ap * q.bq \in Nat
    BY <2>2
  <2> QED BY <1>2, <2>1, <2>3, ProductInNat
<1>4. price \in Int /\ price * d <= n /\ n < (price + 1) * d
  <2> HIDE DEF n, d
  <2>1. price = n \div d
    BY DEF n, d
  <2> QED BY <1>3, <2>1, DivBounds
<1>5. t.mid = (q.bp + q.ap) * h /\ t.mid \in Int
  BY <1>1, <1>2 DEF h
<1>6. 2 * t.mid = MidX2(q) * PriceScale
  BY <1>1, <1>2, <1>5 DEF MidX2
<1>7. /\ n - (q.bp * PriceScale) * d = PriceScale * ((q.ap - q.bp) * q.bq)
      /\ (q.ap * PriceScale) * d - n = PriceScale * ((q.ap - q.bp) * q.aq)
      /\ n - t.mid * d = h * ((q.ap - q.bp) * (q.bq - q.aq))
  <2>1. PICK b \in Int, a \in Int, x \in Int, y \in Int :
          b = q.bp /\ a = q.ap /\ x = q.bq /\ y = q.aq
    BY <1>1
  <2>2. h \in Int /\ PriceScale \in Int
    BY <1>2
  <2>3. /\ (b * y + a * x) * PriceScale - (b * PriceScale) * (x + y) = PriceScale * ((a - b) * x)
        /\ (a * PriceScale) * (x + y) - (b * y + a * x) * PriceScale = PriceScale * ((a - b) * y)
    BY <2>2, WeightsApart
  <2>4. (b * y + a * x) * (2 * h) - ((b + a) * h) * (x + y) = h * ((a - b) * (x - y))
    BY <2>2, WeightsApart
  <2>5. n = (b * y + a * x) * PriceScale /\ d = x + y /\ t.mid = (b + a) * h
    BY <1>5, <2>1
  <2>6. n - t.mid * d = h * ((q.ap - q.bp) * (q.bq - q.aq))
    <3> HIDE DEF n, d
    <3>1. n = (b * y + a * x) * (2 * h)
      BY <1>2, <2>5
    <3> QED BY <2>1, <2>4, <2>5, <3>1, Zenon
  <2> HIDE DEF n, d
  <2> QED BY <2>1, <2>3, <2>5, <2>6, Zenon
<1> HIDE DEF n, d, price
<1>8. q.bp * PriceScale <= price
  <2>1. PriceScale * ((q.ap - q.bp) * q.bq) \in Nat
    BY <1>1, <1>2, ProductInNat
  <2> DEFINE g == q.bp * PriceScale
             w == PriceScale * ((q.ap - q.bp) * q.bq)
  <2>4. g \in Nat /\ g * d \in Nat
    BY <1>1, <1>2, <1>3, ProductInNat
  <2>5. n - g * d = w
    BY <1>7
  <2>2. (q.bp * PriceScale) * d < (price + 1) * d
    <3>1. w \in Nat /\ (price + 1) * d \in Int
      BY <1>3, <1>4, <2>1
    <3> HIDE DEF g, w
    <3>2. g * d < (price + 1) * d
      BY <1>3, <1>4, <2>4, <2>5, <3>1
    <3> QED BY <3>2 DEF g
  <2>3. q.bp * PriceScale < price + 1
    BY <1>1, <1>2, <1>3, <1>4, <2>2, ProductCancels
  <2> QED BY <1>1, <1>2, <1>4, <2>3
<1>9. price < q.ap * PriceScale
  <2>1. PriceScale * ((q.ap - q.bp) * q.aq) \in Nat \ {0}
    BY <1>1, <1>2, ProductPositive
  <2>2. price * d < (q.ap * PriceScale) * d
    BY <1>1, <1>2, <1>3, <1>4, <1>7, <2>1
  <2> QED BY <1>1, <1>2, <1>3, <1>4, <2>2, ProductCancels
<1>10. t.micro_minus_mid = price - t.mid
  BY DEF price
<1>11. CASE q.bq >= q.aq
  <2>1. (q.ap - q.bp) * (q.bq - q.aq) \in Nat
    BY <1>1, <1>11, ProductInNat
  <2>2. h * ((q.ap - q.bp) * (q.bq - q.aq)) \in Nat
    BY <1>2, <2>1, ProductInNat
  <2>3. t.mid * d < (price + 1) * d
    BY <1>3, <1>4, <1>5, <1>7, <2>2
  <2>4. t.mid < price + 1
    BY <1>3, <1>4, <1>5, <2>3, ProductCancels
  <2>5. t.micro_minus_mid >= 0
    BY <1>4, <1>5, <1>10, <2>4
  <2> QED BY <1>4, <1>6, <1>8, <1>9, <1>10, <1>11, <2>5 DEF FairValue, n, d, price
<1>12. CASE ~ (q.bq >= q.aq)
  <2>1. (q.ap - q.bp) * (q.aq - q.bq) \in Nat \ {0}
    BY <1>1, <1>12, ProductPositive
  <2>2. h * ((q.ap - q.bp) * (q.aq - q.bq)) \in Nat \ {0}
    BY <1>2, <2>1, ProductPositive
  <2>3. t.mid * d - n = h * ((q.ap - q.bp) * (q.aq - q.bq))
    BY <1>1, <1>2, <1>3, <1>5, <1>7
  <2>4. price * d < t.mid * d
    BY <1>3, <1>4, <1>5, <2>2, <2>3
  <2>5. price < t.mid
    BY <1>3, <1>4, <1>5, <2>4, ProductCancels
  <2>6. ~ (t.micro_minus_mid >= 0)
    BY <1>4, <1>5, <1>10, <2>5
  <2> QED BY <1>4, <1>6, <1>8, <1>9, <1>10, <1>12, <2>6 DEF FairValue, n, d, price
<1> QED BY <1>11, <1>12

\* It is looked at through its three prices only.
LEMMA FairKept ==
  ASSUME NEW s, NEW t, SamePrices(s, t), NEW q, FairValue(s, q)
  PROVE  FairValue(t, q)
BY DEF SamePrices, FairValue

\* A quote that is crossed leaves the last one; any other takes its place.
LEMMA OnBookIs ==
  ASSUME NEW s, IsMicro(s), NEW q \in Quotes
  PROVE  LET t == on_book(s, q)
         IN  /\ IsMicro(t) /\ SameTrades(s, t)
             /\ q.bp >= q.ap => SameQuote(s, t)
             /\ q.bp < q.ap => QuoteTaken(t, q) /\ t.ofi = Flowed(s, q) /\ VolMoves(s, t, q)
<1> DEFINE t == on_book(s, q)
           mid == MidX2(q)
           priced == Priced(s, q)
           flowed == [priced EXCEPT !.ofi = @ + OrderFlow(s, q)]
           x == IF s.have_prev THEN Moved(flowed, mid) ELSE priced
<1>1. q.bp \in Nat \ {0} /\ q.bq \in Nat \ {0} /\ q.ap \in Nat \ {0} /\ q.aq \in Nat \ {0}
  BY DEF Quotes
<1>2. t = IF q.bp >= q.ap THEN [s EXCEPT !.degenerate_books = @ + 1] ELSE Remember(x, q)
  BY <1>1 DEF on_book, MidX2
<1>3. /\ IsMicro(priced) /\ SameTrades(s, priced)
      /\ priced.have_prev = s.have_prev /\ priced.ofi = s.ofi
      /\ priced.prev_mid_x2 = s.prev_mid_x2 /\ priced.sum_sq_ret = s.sum_sq_ret
      /\ priced.realized_vol = s.realized_vol
      /\ q.bp < q.ap => FairValue(priced, q)
  <2> DEFINE a == ((q.bp * q.aq + q.ap * q.bq) * PriceScale) \div (q.bq + q.aq)
             b == (q.bp + q.ap) * (PriceScale \div 2)
             c == a - b
  <2>1. priced = [s EXCEPT !.book_updates = @ + 1, !.microprice = a, !.mid = b,
                           !.micro_minus_mid = c]
    BY DEF Priced
  <2>2. ASSUME q.bp < q.ap, priced.microprice = a, priced.mid = b, priced.micro_minus_mid = c
        PROVE  FairValue(priced, q)
    <3> HIDE DEF priced
    <3> QED BY <2>2, PricedIsFair
  <2> HIDE DEF priced, a, b, c
  <2>3. priced.microprice = a /\ priced.mid = b /\ priced.micro_minus_mid = c
    BY <2>1 DEF IsMicro
  <2>4. IsMicro(priced) /\ SameTrades(s, priced)
    BY <2>1 DEF IsMicro, SameTrades
  <2>5. /\ priced.have_prev = s.have_prev /\ priced.ofi = s.ofi
        /\ priced.prev_mid_x2 = s.prev_mid_x2 /\ priced.sum_sq_ret = s.sum_sq_ret
        /\ priced.realized_vol = s.realized_vol
    BY <2>1 DEF IsMicro
  <2> QED BY <2>2, <2>3, <2>4, <2>5
<1> HIDE DEF priced, mid
<1>4. /\ IsMicro(flowed) /\ flowed.ofi = s.ofi + OrderFlow(s, q) /\ SameTrades(s, flowed)
      /\ flowed.prev_mid_x2 = s.prev_mid_x2 /\ flowed.sum_sq_ret = s.sum_sq_ret
      /\ flowed.realized_vol = s.realized_vol /\ SamePrices(priced, flowed)
  <2>1. IsMicro(flowed) /\ flowed.ofi = s.ofi + OrderFlow(s, q)
    BY <1>3 DEF IsMicro
  <2>2. /\ SameTrades(s, flowed)
        /\ flowed.prev_mid_x2 = s.prev_mid_x2 /\ flowed.sum_sq_ret = s.sum_sq_ret
        /\ flowed.realized_vol = s.realized_vol
    BY <1>3 DEF IsMicro, SameTrades
  <2>3. SamePrices(priced, flowed)
    BY <1>3 DEF IsMicro, SamePrices
  <2> QED BY <2>1, <2>2, <2>3
<1> HIDE DEF flowed
<1>5. LET z == Moved(flowed, mid)
      IN  /\ IsMicro(z) /\ z.ofi = flowed.ofi /\ SameTrades(s, z)
          /\ s.have_prev => VolMoves(s, z, q)
          /\ SamePrices(priced, z)
  <2> DEFINE z == Moved(flowed, mid)
             r == Return(s.prev_mid_x2, mid)
             sum == s.sum_sq_ret + r * r
             vol == isqrt(sum) \div VolScale
             still == s.prev_mid_x2 = 0 \/ mid = s.prev_mid_x2
  <2>1. z = IF still THEN flowed
            ELSE [flowed EXCEPT !.sum_sq_ret = sum, !.return_samples = @ + 1,
                                !.realized_vol = vol]
    BY <1>4 DEF Moved
  <2> HIDE DEF z, sum, vol
  <2>2. CASE still
    <3>1. z = flowed
      BY <2>1, <2>2
    <3>2. VolMoves(s, z, q)
      BY <1>4, <2>2, <3>1 DEF VolMoves, mid
    <3> QED BY <1>4, <3>1, <3>2 DEF z
  <2>3. CASE ~ still
    <3>1. z = [flowed EXCEPT !.sum_sq_ret = sum, !.return_samples = @ + 1,
                             !.realized_vol = vol]
      BY <2>1, <2>3
    <3>2. IsMicro(z) /\ z.ofi = flowed.ofi /\ SameTrades(flowed, z)
      BY <1>4, <3>1 DEF IsMicro, SameTrades
    <3>6. SamePrices(priced, z)
      BY <1>4, <3>1 DEF IsMicro, SamePrices
    <3>3. z.sum_sq_ret = sum /\ z.realized_vol = vol
      BY <1>4, <3>1 DEF IsMicro
    <3>4. SameTrades(s, z)
      BY <1>4, <3>2 DEF SameTrades
    <3>5. VolMoves(s, z, q) \/ ~ s.have_prev
      BY <2>3, <3>3 DEF VolMoves, sum, vol, mid
    <3> QED BY <3>2, <3>4, <3>5, <3>6 DEF z
  <2> QED BY <2>2, <2>3 DEF z
<1>6. /\ IsMicro(x) /\ x.ofi = Flowed(s, q) /\ SameTrades(s, x) /\ VolMoves(s, x, q)
      /\ SamePrices(priced, x)
  <2>1. CASE s.have_prev
    BY <1>4, <1>5, <2>1 DEF Flowed
  <2>2. CASE ~ s.have_prev
    BY <1>3, <2>2 DEF Flowed, VolMoves, SamePrices
  <2> QED BY <2>1, <2>2
<1> HIDE DEF x
<1>7. LET y == Remember(x, q)
      IN  /\ IsMicro(y) /\ SameTrades(s, y) /\ (q.bp < q.ap => QuoteTaken(y, q))
          /\ y.ofi = Flowed(s, q) /\ VolMoves(s, y, q)
  <2> DEFINE y == Remember(x, q)
             m == q.bp + q.ap
  <2>1. y = [x EXCEPT !.pb = q.bp, !.qb = q.bq, !.pa = q.ap, !.qa = q.aq,
                      !.prev_mid_x2 = m, !.have_prev = TRUE]
    BY DEF Remember
  <2>2. m = MidX2(q)
    BY DEF MidX2
  <2> HIDE DEF y, m
  <2>3. /\ IsMicro(y) /\ y.pb = q.bp /\ y.qb = q.bq /\ y.pa = q.ap /\ y.qa = q.aq
        /\ y.have_prev = TRUE /\ y.prev_mid_x2 = MidX2(q)
    BY <1>6, <2>1, <2>2 DEF IsMicro
  <2>7. SamePrices(priced, y)
    BY <1>6, <2>1 DEF IsMicro, SamePrices
  <2>8. q.bp < q.ap => QuoteTaken(y, q)
    BY <1>3, <2>3, <2>7, FairKept DEF QuoteTaken
  <2>4. /\ SameTrades(x, y) /\ y.ofi = x.ofi /\ y.sum_sq_ret = x.sum_sq_ret
        /\ y.realized_vol = x.realized_vol
    BY <1>6, <2>1 DEF SameTrades, IsMicro
  <2>5. SameTrades(s, y) /\ y.ofi = Flowed(s, q)
    BY <1>6, <2>4 DEF SameTrades
  <2>6. VolMoves(s, y, q)
    BY <1>6, <2>4 DEF VolMoves
  <2> QED BY <2>3, <2>5, <2>6, <2>8 DEF y
<1>8. LET y == [s EXCEPT !.degenerate_books = @ + 1]
      IN  IsMicro(y) /\ SameQuote(s, y) /\ SameTrades(s, y)
  BY DEF IsMicro, SameQuote, SameTrades, SamePrices
<1>9. q.bp < q.ap <=> ~ (q.bp >= q.ap)
  BY <1>1
<1> HIDE DEF t
<1>10. CASE q.bp >= q.ap
  BY <1>2, <1>8, <1>9, <1>10 DEF t
<1>11. CASE ~ (q.bp >= q.ap)
  BY <1>2, <1>7, <1>9, <1>11 DEF t
<1> QED BY <1>10, <1>11

----------------------------------------------------------------------------
(* The file replay: what one more top and one more trade add to the sums *)

\* The order flow from one top of the book to the next.
Flow(a, c) == BidFlow(a, c) - AskFlow(a, c)

\* A flow is a number, and the one the analytics compute.
LEMMA FlowIs ==
  ASSUME NEW a \in Quotes, NEW c \in Quotes
  PROVE  /\ Flow(a, c) \in Int /\ Flow(a, a) = 0
         /\ \A s : s.pb = a.bp /\ s.qb = a.bq /\ s.pa = a.ap /\ s.qa = a.aq =>
                     OrderFlow(s, c) = Flow(a, c)
<1>1. /\ a.bp \in Nat /\ a.bq \in Nat /\ a.ap \in Nat /\ a.aq \in Nat
      /\ c.bp \in Nat /\ c.bq \in Nat /\ c.ap \in Nat /\ c.aq \in Nat
  BY DEF Quotes
<1>2. Flow(a, a) = 0
  BY <1>1 DEF Flow, BidFlow, AskFlow
<1> DEFINE x == BidFlow(a, c)
           y == AskFlow(a, c)
<1>3. x \in Int /\ x = (IF c.bp >= a.bp THEN c.bq ELSE 0) - (IF c.bp <= a.bp THEN a.bq ELSE 0)
  BY <1>1 DEF BidFlow
<1>4. y \in Int /\ y = (IF c.ap <= a.ap THEN c.aq ELSE 0) - (IF c.ap >= a.ap THEN a.aq ELSE 0)
  BY <1>1 DEF AskFlow
<1>5. Flow(a, c) = x - y
  BY DEF Flow
<1> HIDE DEF x, y
<1>6. ASSUME NEW s, s.pb = a.bp, s.qb = a.bq, s.pa = a.ap, s.qa = a.aq
      PROVE  OrderFlow(s, c) = Flow(a, c)
  BY <1>1, <1>3, <1>4, <1>5, <1>6 DEF OrderFlow
<1> QED BY <1>2, <1>3, <1>4, <1>5, <1>6

\* One more top adds one more flow.
LEMMA FlowSumNext ==
  ASSUME NEW t \in Seq(Quotes), NEW q \in Quotes
  PROVE  /\ Sum(Flows(t)) \in Int
         /\ Sum(Flows(Append(t, q))) =
              Sum(Flows(t)) + IF t = << >> THEN 0 ELSE Flow(t[Len(t)], q)
<1> DEFINE n == Len(t)
           u == Append(t, q)
           f == Flows(t)
           g == Flows(u)
<1>1. /\ n \in Nat /\ u \in Seq(Quotes) /\ Len(u) = n + 1 /\ u[n + 1] = q
      /\ (\A i \in 1 .. n : u[i] = t[i]) /\ DOMAIN t = 1 .. n /\ DOMAIN u = 1 .. n + 1
      /\ (t = << >> <=> n = 0) /\ (\A i \in 1 .. n : t[i] \in Quotes)
  OBVIOUS
<1>2. /\ f = [i \in 1 .. n |-> IF i = 1 THEN 0 ELSE Flow(t[i - 1], t[i])]
      /\ g = [i \in 1 .. n + 1 |-> IF i = 1 THEN 0 ELSE Flow(u[i - 1], u[i])]
  BY <1>1 DEF Flows, Flow
<1> HIDE DEF u, f, g, n
<1>3. \A i \in 2 .. n + 1 : u[i - 1] \in Quotes /\ u[i] \in Quotes
  BY <1>1
<1>4. \A i \in 2 .. n + 1 : Flow(u[i - 1], u[i]) \in Int
  BY <1>3, FlowIs
<1>5. \A i \in 2 .. n : i \in 2 .. n + 1 /\ u[i - 1] = t[i - 1] /\ u[i] = t[i]
  BY <1>1
<1>6. f \in [1 .. n -> Int] /\ g \in [1 .. n + 1 -> Int] /\ \A i \in 1 .. n : g[i] = f[i]
  <2>1. \A i \in 1 .. n + 1 : g[i] \in Int
    BY <1>1, <1>2, <1>4
  <2>2. \A i \in 1 .. n : g[i] = f[i]
    BY <1>1, <1>2, <1>5
  <2>3. \A i \in 1 .. n : f[i] \in Int
    BY <1>1, <2>1, <2>2
  <2> QED BY <1>2, <2>1, <2>2, <2>3
<1>7. Sum(f) \in Int /\ Sum(g) = Sum(f) + g[n + 1]
  BY <1>1, <1>6, SumGrows
<1>8. g[n + 1] = IF t = << >> THEN 0 ELSE Flow(t[n], q)
  <2>1. CASE n = 0
    BY <1>1, <1>2, <2>1
  <2>2. CASE n # 0
    <3>1. n + 1 # 1 /\ n + 1 \in 1 .. n + 1 /\ (n + 1) - 1 = n /\ n \in 1 .. n
      BY <1>1, <2>2
    <3>2. g[n + 1] = Flow(u[n], u[n + 1])
      BY <1>2, <3>1
    <3> QED BY <1>1, <2>2, <3>1, <3>2
  <2> QED BY <2>1, <2>2
<1> QED BY <1>7, <1>8 DEF f, g, u, n

\* The integer division of C++ is a number.
LEMMA QuotIs ==
  ASSUME NEW a \in Int, NEW b \in Nat \ {0}
  PROVE  Quot(a, b) \in Int
BY DEF Quot

\* A squared return is a natural number.
LEMMA SquaredReturnIs ==
  ASSUME NEW from \in Nat \ {0}, NEW to \in Nat
  PROVE  SquaredReturn(from, to) \in Nat
<1>1. LogScale \in Nat \ {0}
  BY ScaleAssumption
<1> DEFINE a == (to - from) * LogScale
           x == Quot(a, from)
<1>2. a \in Int
  BY <1>1
<1>3. x \in Int
  <2> HIDE DEF a
  <2> QED BY <1>2, QuotIs
<1> HIDE DEF x
<1>4. log1p(x) \in Int
  <2> DEFINE x2 == Quot(x * x, LogScale)
             x3 == Quot(x2 * x, LogScale)
             x4 == Quot(x3 * x, LogScale)
  <2>1. x2 \in Int
    BY <1>1, <1>3, QuotIs
  <2> HIDE DEF x2
  <2>2. x3 \in Int
    BY <1>1, <1>3, <2>1, QuotIs
  <2> HIDE DEF x3
  <2>3. x4 \in Int
    BY <1>1, <1>3, <2>2, QuotIs
  <2> HIDE DEF x4
  <2>4. Quot(x2, 2) \in Int /\ Quot(x3, 3) \in Int /\ Quot(x4, 4) \in Int
    BY <2>1, <2>2, <2>3, QuotIs
  <2>5. log1p(x) = x - Quot(x2, 2) + Quot(x3, 3) - Quot(x4, 4)
    BY DEF log1p, x2, x3, x4
  <2> QED BY <1>3, <2>4, <2>5
<1>5. Return(from, to) = log1p(x)
  BY DEF Return, x
<1> DEFINE r == Return(from, to)
<1>6. r \in Int
  BY <1>4, <1>5
<1>7. SquaredReturn(from, to) = IF from = to THEN 0 ELSE r * r
  BY DEF SquaredReturn
<1> HIDE DEF r
<1>8. r * r \in Nat
  BY <1>6
<1> QED BY <1>7, <1>8

\* One more top adds one more squared return.
LEMMA SquareSumNext ==
  ASSUME NEW t \in Seq(Quotes), NEW q \in Quotes
  PROVE  /\ Sum(Squares(t)) \in Nat
         /\ Sum(Squares(Append(t, q))) =
              Sum(Squares(t)) + IF t = << >> THEN 0 ELSE SquaredReturn(MidX2(t[Len(t)]), MidX2(q))
<1> DEFINE n == Len(t)
           u == Append(t, q)
           f == Squares(t)
           g == Squares(u)
           R(a, c) == SquaredReturn(MidX2(a), MidX2(c))
<1>1. /\ n \in Nat /\ u \in Seq(Quotes) /\ Len(u) = n + 1 /\ u[n + 1] = q
      /\ (\A i \in 1 .. n : u[i] = t[i]) /\ DOMAIN t = 1 .. n /\ DOMAIN u = 1 .. n + 1
      /\ (t = << >> <=> n = 0) /\ (\A i \in 1 .. n : t[i] \in Quotes)
  OBVIOUS
<1>2. /\ f = [i \in 1 .. n |-> IF i = 1 THEN 0 ELSE R(t[i - 1], t[i])]
      /\ g = [i \in 1 .. n + 1 |-> IF i = 1 THEN 0 ELSE R(u[i - 1], u[i])]
  BY <1>1 DEF Squares
<1> HIDE DEF u, f, g, n
<1>3. \A i \in 2 .. n + 1 : u[i - 1] \in Quotes /\ u[i] \in Quotes
  BY <1>1
<1>4. \A a, c \in Quotes : R(a, c) \in Nat
  <2> SUFFICES ASSUME NEW a \in Quotes, NEW c \in Quotes PROVE R(a, c) \in Nat
    OBVIOUS
  <2>1. MidX2(a) \in Nat \ {0} /\ MidX2(c) \in Nat
    BY DEF Quotes, MidX2
  <2> QED BY <2>1, SquaredReturnIs
<1> HIDE DEF R
<1>5. \A i \in 2 .. n : i \in 2 .. n + 1 /\ u[i - 1] = t[i - 1] /\ u[i] = t[i]
  BY <1>1
<1>6. f \in [1 .. n -> Nat] /\ g \in [1 .. n + 1 -> Int] /\ \A i \in 1 .. n : g[i] = f[i]
  <2>1. \A i \in 1 .. n + 1 : g[i] \in Nat
    <3>1. \A i \in 2 .. n + 1 : R(u[i - 1], u[i]) \in Nat
      BY <1>3, <1>4
    <3> QED BY <1>1, <1>2, <3>1
  <2>2. \A i \in 1 .. n : g[i] = f[i]
    BY <1>1, <1>2, <1>5
  <2>3. \A i \in 1 .. n : f[i] \in Nat
    BY <1>1, <2>1, <2>2
  <2> QED BY <1>2, <2>1, <2>2, <2>3
<1>7. Sum(f) \in Int /\ Sum(g) = Sum(f) + g[n + 1]
  <2>1. f \in [1 .. n -> Int]
    BY <1>6
  <2> QED BY <1>1, <1>6, <2>1, SumGrows
<1>8. Sum(f) \in Nat
  <2>1. f \in Seq(Nat)
    BY <1>1, <1>6
  <2> QED BY <2>1, SumNat
<1>9. g[n + 1] = IF t = << >> THEN 0 ELSE R(t[n], q)
  <2>1. CASE n = 0
    BY <1>1, <1>2, <2>1
  <2>2. CASE n # 0
    <3>1. n + 1 # 1 /\ n + 1 \in 1 .. n + 1 /\ (n + 1) - 1 = n /\ n \in 1 .. n
      BY <1>1, <2>2
    <3>2. g[n + 1] = R(u[n], u[n + 1])
      BY <1>2, <3>1
    <3> QED BY <1>1, <2>2, <3>1, <3>2
  <2> QED BY <2>1, <2>2
<1> QED BY <1>7, <1>8, <1>9 DEF f, g, u, n, R

\* A trade of the history: its price, its signed volume, the mid before it.
Prints == [px : Nat, v : Int, mid : Nat \ {0}]

\* One more trade adds one more term to each of the three sums.
LEMMA PrintSumNext ==
  ASSUME NEW p \in Seq(Prints), NEW x \in Prints
  PROVE  /\ Sum(Spreads(Append(p, x))) = Sum(Spreads(p)) + Abs(2 * x.px - x.mid)
         /\ Sum(Impacts(p)) \in Int
         /\ Sum(Impacts(Append(p, x))) =
              Sum(Impacts(p)) + IF p = << >> THEN 0 ELSE (x.mid - p[Len(p)].mid) * x.v
         /\ Sum(Volumes(p)) \in Nat
         /\ Sum(Volumes(Append(p, x))) =
              Sum(Volumes(p)) + IF p = << >> THEN 0 ELSE x.v * x.v
<1> DEFINE n == Len(p)
           u == Append(p, x)
           D(a) == Abs(2 * a.px - a.mid)
           I(a, c) == (c.mid - a.mid) * c.v
           Q(a) == a.v * a.v
<1>1. /\ n \in Nat /\ u \in Seq(Prints) /\ Len(u) = n + 1 /\ u[n + 1] = x
      /\ (\A i \in 1 .. n : u[i] = p[i]) /\ DOMAIN p = 1 .. n /\ DOMAIN u = 1 .. n + 1
      /\ (p = << >> <=> n = 0)
  OBVIOUS
<1>2. /\ Spreads(p) = [i \in 1 .. n |-> D(p[i])]
      /\ Spreads(u) = [i \in 1 .. n + 1 |-> D(u[i])]
      /\ Impacts(p) = [i \in 1 .. n |-> IF i = 1 THEN 0 ELSE I(p[i - 1], p[i])]
      /\ Impacts(u) = [i \in 1 .. n + 1 |-> IF i = 1 THEN 0 ELSE I(u[i - 1], u[i])]
      /\ Volumes(p) = [i \in 1 .. n |-> IF i = 1 THEN 0 ELSE Q(p[i])]
      /\ Volumes(u) = [i \in 1 .. n + 1 |-> IF i = 1 THEN 0 ELSE Q(u[i])]
  BY <1>1 DEF Spreads, Impacts, Volumes
<1> HIDE DEF u, n
<1>3. \A i \in 1 .. n + 1 : u[i] \in Prints
  BY <1>1
<1>4. \A i \in 2 .. n + 1 : i - 1 \in 1 .. n + 1 /\ i \in 1 .. n + 1
  BY <1>1
<1>5. \A i \in 2 .. n : u[i - 1] = p[i - 1] /\ u[i] = p[i]
  BY <1>1
<1>6. \A a, c \in Prints : D(a) \in Int /\ I(a, c) \in Int /\ Q(a) \in Nat
  <2> SUFFICES ASSUME NEW a \in Prints, NEW c \in Prints
               PROVE  D(a) \in Int /\ I(a, c) \in Int /\ Q(a) \in Nat
    OBVIOUS
  <2>1. a.px \in Nat /\ a.v \in Int /\ a.mid \in Nat /\ c.v \in Int /\ c.mid \in Nat
    BY DEF Prints
  <2>2. D(a) \in Int
    BY <2>1 DEF Abs
  <2>3. I(a, c) \in Int
    BY <2>1
  <2>4. Q(a) \in Nat
    BY <2>1
  <2> QED BY <2>2, <2>3, <2>4
<1> HIDE DEF D, I, Q
<1>7. Sum(Spreads(u)) = Sum(Spreads(p)) + D(x)
  <2> DEFINE f == Spreads(p)
             g == Spreads(u)
  <2>1. \A i \in 1 .. n : g[i] = f[i]
    BY <1>1, <1>2
  <2>2. \A i \in 1 .. n + 1 : g[i] \in Int
    BY <1>2, <1>3, <1>6
  <2>3. f \in [1 .. n -> Int] /\ g \in [1 .. n + 1 -> Int] /\ g[n + 1] = D(x)
    BY <1>1, <1>2, <2>1, <2>2
  <2> HIDE DEF f, g
  <2>4. Sum(g) = Sum(f) + g[n + 1]
    BY <1>1, <2>1, <2>3, SumGrows
  <2> QED BY <2>3, <2>4 DEF f, g
<1>8. /\ Sum(Impacts(p)) \in Int
      /\ Sum(Impacts(u)) = Sum(Impacts(p)) + IF p = << >> THEN 0 ELSE I(p[n], x)
  <2> DEFINE f == Impacts(p)
             g == Impacts(u)
  <2>1. \A i \in 1 .. n : g[i] = f[i]
    BY <1>1, <1>2, <1>5
  <2>2. \A i \in 1 .. n + 1 : g[i] \in Int
    <3>1. \A i \in 2 .. n + 1 : I(u[i - 1], u[i]) \in Int
      BY <1>3, <1>4, <1>6
    <3> QED BY <1>1, <1>2, <3>1
  <2>3. f \in [1 .. n -> Int] /\ g \in [1 .. n + 1 -> Int]
    BY <1>1, <1>2, <2>1, <2>2
  <2>4. g[n + 1] = IF p = << >> THEN 0 ELSE I(p[n], x)
    <3>1. CASE n = 0
      BY <1>1, <1>2, <3>1
    <3>2. CASE n # 0
      <4>1. n + 1 # 1 /\ n + 1 \in 1 .. n + 1 /\ (n + 1) - 1 = n /\ n \in 1 .. n
        BY <1>1, <3>2
      <4>2. g[n + 1] = I(u[n], u[n + 1])
        BY <1>2, <4>1
      <4> HIDE DEF g
      <4> QED BY <1>1, <3>2, <4>1, <4>2
    <3> QED BY <3>1, <3>2
  <2> HIDE DEF f, g
  <2>5. Sum(f) \in Int /\ Sum(g) = Sum(f) + g[n + 1]
    BY <1>1, <2>1, <2>3, SumGrows
  <2> QED BY <2>4, <2>5 DEF f, g
<1>9. /\ Sum(Volumes(p)) \in Nat
      /\ Sum(Volumes(u)) = Sum(Volumes(p)) + IF p = << >> THEN 0 ELSE Q(x)
  <2> DEFINE f == Volumes(p)
             g == Volumes(u)
  <2>1. \A i \in 1 .. n : g[i] = f[i]
    BY <1>1, <1>2, <1>5
  <2>2. \A i \in 1 .. n + 1 : g[i] \in Nat
    <3>1. \A i \in 1 .. n + 1 : Q(u[i]) \in Nat
      BY <1>3, <1>6
    <3> QED BY <1>1, <1>2, <3>1
  <2>3. f \in [1 .. n -> Nat] /\ f \in [1 .. n -> Int] /\ g \in [1 .. n + 1 -> Int]
    BY <1>1, <1>2, <2>1, <2>2
  <2>4. g[n + 1] = IF p = << >> THEN 0 ELSE Q(x)
    BY <1>1, <1>2
  <2> HIDE DEF f, g
  <2>5. Sum(g) = Sum(f) + g[n + 1]
    BY <1>1, <2>1, <2>3, SumGrows
  <2>6. f \in Seq(Nat)
    BY <1>1, <2>3
  <2>7. Sum(f) \in Nat
    BY <2>6, SumNat
  <2> QED BY <2>4, <2>5, <2>7 DEF f, g
<1> QED BY <1>7, <1>8, <1>9 DEF u, n, D, I, Q

\* What the analytics keep of the trades p.
Measured(s, p) ==
  /\ p \in Seq(Prints)
  /\ s.trades = Len(p) /\ s.effective_spread_sum = Sum(Spreads(p))
  /\ s.sum_dp_v = Sum(Impacts(p)) /\ s.sum_v_sq = Sum(Volumes(p))
  /\ s.kyle_lambda = IF s.sum_v_sq = 0 THEN 0
                     ELSE Quot(s.sum_dp_v * ImpactScale, s.sum_v_sq)
  /\ s.prev_trade_mid_x2 = IF p = << >> THEN 0 ELSE p[Len(p)].mid

\* A trade is one more of them, with the mid of the quote.
LEMMA MeasuredTrade ==
  ASSUME NEW s, IsMicro(s), NEW p, Measured(s, p), s.have_prev = TRUE,
         s.pb \in Nat \ {0}, s.pa \in Nat \ {0},
         NEW px \in Nat, NEW qty \in Nat, NEW buyer \in BOOLEAN,
         NEW t, t = on_trade(s, px, qty, buyer),
         NEW x, x = [px |-> px, v |-> IF buyer THEN qty ELSE -qty, mid |-> s.pb + s.pa]
  PROVE  Measured(t, Append(p, x))
<1> DEFINE v == IF buyer THEN qty ELSE -qty
           mid == s.pb + s.pa
           u == Append(p, x)
<1>1. v \in Int /\ mid \in Nat \ {0}
  OBVIOUS
<1>2. x.px = px /\ x.v = v /\ x.mid = mid
  OBVIOUS
<1>3. x \in Prints
  BY <1>1, <1>2 DEF Prints
<1>4. /\ Measures(s, t, px, mid)
      /\ IF s.prev_trade_mid_x2 > 0 THEN Regresses(s, t, v, mid - s.prev_trade_mid_x2)
         ELSE t.sum_dp_v = s.sum_dp_v /\ t.sum_v_sq = s.sum_v_sq /\ t.kyle_lambda = s.kyle_lambda
  <2>1. s.have_prev /\ s.pb # 0 /\ s.pa # 0
    OBVIOUS
  <2> QED BY <2>1, OnTradeIs
<1> HIDE DEF v, mid
<1>5. p \in Seq(Prints)
  BY DEF Measured
<1>6. /\ u \in Seq(Prints) /\ Len(u) = Len(p) + 1 /\ u # << >> /\ u[Len(u)] = x
      /\ Len(p) \in Nat
  BY <1>3, <1>5
<1>7. /\ Sum(Spreads(u)) = Sum(Spreads(p)) + Abs(2 * px - mid)
      /\ Sum(Impacts(p)) \in Int
      /\ Sum(Impacts(u)) = Sum(Impacts(p)) + IF p = << >> THEN 0 ELSE (mid - p[Len(p)].mid) * v
      /\ Sum(Volumes(p)) \in Nat
      /\ Sum(Volumes(u)) = Sum(Volumes(p)) + IF p = << >> THEN 0 ELSE v * v
  BY <1>2, <1>3, <1>5, PrintSumNext
<1> HIDE DEF u
<1>8. /\ t.trades = Len(u) /\ t.effective_spread_sum = Sum(Spreads(u))
      /\ t.prev_trade_mid_x2 = u[Len(u)].mid
  BY <1>2, <1>4, <1>6, <1>7 DEF Measured, Measures
<1>9. /\ t.sum_dp_v = Sum(Impacts(u)) /\ t.sum_v_sq = Sum(Volumes(u))
      /\ t.kyle_lambda = IF t.sum_v_sq = 0 THEN 0
                         ELSE Quot(t.sum_dp_v * ImpactScale, t.sum_v_sq)
  <2>1. CASE p = << >>
    <3>1. ~ (s.prev_trade_mid_x2 > 0)
      BY <2>1 DEF Measured
    <3>2. t.sum_dp_v = s.sum_dp_v /\ t.sum_v_sq = s.sum_v_sq /\ t.kyle_lambda = s.kyle_lambda
      BY <1>4, <3>1
    <3>3. Sum(Impacts(u)) = Sum(Impacts(p)) /\ Sum(Volumes(u)) = Sum(Volumes(p))
      BY <1>7, <2>1
    <3> QED BY <3>2, <3>3 DEF Measured
  <2>2. CASE p # << >>
    <3> DEFINE m == p[Len(p)].mid
    <3>1. s.prev_trade_mid_x2 = m /\ m \in Nat \ {0}
      <4>1. p[Len(p)] \in Prints
        BY <1>5, <2>2
      <4> QED BY <2>2, <4>1 DEF Measured, Prints
    <3>2. Regresses(s, t, v, mid - m)
      BY <1>4, <3>1
    <3> DEFINE k == (mid - m) * v
               w == v * v
    <3>3. t.sum_dp_v = s.sum_dp_v + k /\ t.sum_v_sq = s.sum_v_sq + w
      BY <3>2 DEF Regresses
    <3>4. Sum(Impacts(u)) = Sum(Impacts(p)) + k /\ Sum(Volumes(u)) = Sum(Volumes(p)) + w
      BY <1>7, <2>2
    <3>5. k \in Int /\ w \in Nat
      BY <1>1, <3>1
    <3> HIDE DEF k, w
    <3>6. s.sum_dp_v = Sum(Impacts(p)) /\ s.sum_v_sq = Sum(Volumes(p))
      BY DEF Measured
    <3>7. t.sum_dp_v = Sum(Impacts(u)) /\ t.sum_v_sq = Sum(Volumes(u))
      BY <3>3, <3>4, <3>6
    <3>8. s.sum_v_sq \in Nat /\ s.sum_dp_v \in Int /\ t.sum_v_sq \in Nat
      BY <1>7, <3>3, <3>5, <3>6
    <3>9. CASE t.sum_v_sq > 0
      BY <3>2, <3>7, <3>8, <3>9 DEF Regresses
    <3>10. CASE t.sum_v_sq = 0
      <4>1. s.sum_v_sq = 0
        BY <3>3, <3>5, <3>8, <3>10
      <4>2. t.kyle_lambda = s.kyle_lambda
        BY <3>2, <3>10 DEF Regresses
      <4> QED BY <3>7, <3>10, <4>1, <4>2 DEF Measured
    <3> QED BY <3>8, <3>9, <3>10
  <2> QED BY <2>1, <2>2
<1>10. Measured(t, u)
  BY <1>6, <1>8, <1>9 DEF Measured
<1> QED BY <1>10 DEF u

\* What changes none of it leaves it measured.
LEMMA MeasuredSame ==
  ASSUME NEW s, NEW p, Measured(s, p), NEW t, SameTrades(s, t)
  PROVE  Measured(t, p)
BY DEF Measured, SameTrades

----------------------------------------------------------------------------
(* The file replay: the analytics against the tops of the book *)

\* q is the last of the tops.
LastTop(t, q) == t # << >> /\ t[Len(t)] = q

\* The tops after one more state of the book, whose top is q if it has both sides.
Extended(t, two, q) ==
  IF two /\ q.bp < q.ap /\ (t = << >> \/ q # t[Len(t)]) THEN Append(t, q) ELSE t

\* The quote of the analytics s is the last of the tops t, if there is one.
QuoteOf(s, t) ==
  /\ t \in Seq(Quotes)
  /\ t = << >> => s.have_prev = FALSE
  /\ t # << >> => QuoteTaken(s, t[Len(t)])

\* Their squared returns are those of the tops, the volatility is the root.
VolOf(s, t) ==
  /\ s.sum_sq_ret = Sum(Squares(t))
  /\ \/ s.realized_vol = isqrt(s.sum_sq_ret) \div VolScale
     \/ s.sum_sq_ret = 0 /\ s.realized_vol = 0

\* The analytics against the tops t and the quote l last passed on.
Quoted(s, t, l) ==
  /\ IsMicro(s) /\ QuoteOf(s, t) /\ s.ofi = Sum(Flows(t)) /\ VolOf(s, t)
  /\ l.bp < l.ap => LastTop(t, l)

\* The quote of an uncrossed book: either the next top, or the one already there.
LEMMA QuotedTop ==
  ASSUME NEW s, NEW t, NEW l, Quoted(s, t, l), NEW q \in Quotes, q.bp < q.ap,
         NEW y, IsMicro(y), QuoteTaken(y, q), y.ofi = Flowed(s, q), VolMoves(s, y, q)
  PROVE  Quoted(y, Extended(t, TRUE, q), q) /\ LastTop(Extended(t, TRUE, q), q)
<1> DEFINE u == Extended(t, TRUE, q)
           a == t[Len(t)]
<1>1. t \in Seq(Quotes) /\ s.ofi = Sum(Flows(t)) /\ VolOf(s, t)
  BY DEF Quoted, QuoteOf
<1>2. Sum(Flows(t)) \in Int /\ Sum(Squares(t)) \in Nat
  BY <1>1, FlowSumNext, SquareSumNext
<1>3. t # << >> => a \in Quotes /\ QuoteTaken(s, a)
  BY <1>1 DEF Quoted, QuoteOf
<1>4. t = << >> => s.have_prev = FALSE
  BY DEF Quoted, QuoteOf
<1>5. CASE t # << >> /\ q = a
  <2>1. u = t /\ LastTop(t, q)
    BY <1>5 DEF Extended, LastTop
  <2>2. y.ofi = Sum(Flows(t))
    <3>1. s.have_prev = TRUE /\ s.pb = q.bp /\ s.qb = q.bq /\ s.pa = q.ap /\ s.qa = q.aq
      BY <1>3, <1>5 DEF QuoteTaken
    <3>2. OrderFlow(s, q) = Flow(q, q) /\ Flow(q, q) = 0
      BY <3>1, FlowIs
    <3> QED BY <1>1, <1>2, <3>1, <3>2 DEF Flowed
  <2>3. VolOf(y, t)
    <3>1. s.prev_mid_x2 = MidX2(q)
      BY <1>3, <1>5 DEF QuoteTaken
    <3>2. y.sum_sq_ret = s.sum_sq_ret /\ y.realized_vol = s.realized_vol
      BY <3>1 DEF VolMoves
    <3> QED BY <1>1, <3>2 DEF VolOf
  <2>4. QuoteOf(y, t)
    BY <1>1, <1>5 DEF QuoteOf
  <2> HIDE DEF u
  <2> QED BY <2>1, <2>2, <2>3, <2>4 DEF Quoted, u
<1>6. CASE t = << >> \/ q # a
  <2> DEFINE w == Append(t, q)
  <2>1. u = w
    BY <1>6 DEF Extended
  <2>2. w \in Seq(Quotes) /\ w # << >> /\ w[Len(w)] = q
    BY <1>1
  <2>3. /\ Sum(Flows(w)) = Sum(Flows(t)) + IF t = << >> THEN 0 ELSE Flow(a, q)
        /\ Sum(Squares(w)) = Sum(Squares(t))
                             + IF t = << >> THEN 0 ELSE SquaredReturn(MidX2(a), MidX2(q))
    BY <1>1, FlowSumNext, SquareSumNext
  <2> HIDE DEF u, w, a
  <2>4. y.ofi = Sum(Flows(w)) /\ VolOf(y, w)
    <3>1. CASE t = << >>
      <4>1. s.have_prev = FALSE
        BY <1>4, <3>1
      <4>2. Sum(Flows(w)) = Sum(Flows(t)) /\ Sum(Squares(w)) = Sum(Squares(t))
        BY <1>2, <2>3, <3>1
      <4>3. y.ofi = s.ofi
        BY <4>1 DEF Flowed
      <4>4. y.sum_sq_ret = s.sum_sq_ret /\ y.realized_vol = s.realized_vol
        BY <4>1 DEF VolMoves
      <4> QED BY <1>1, <4>2, <4>3, <4>4 DEF VolOf
    <3>2. CASE t # << >>
      <4>1. a \in Quotes /\ QuoteTaken(s, a)
        BY <1>3, <3>2
      <4>2. /\ s.have_prev = TRUE /\ s.prev_mid_x2 = MidX2(a)
            /\ s.pb = a.bp /\ s.qb = a.bq /\ s.pa = a.ap /\ s.qa = a.aq
        BY <4>1 DEF QuoteTaken
      <4>3. OrderFlow(s, q) = Flow(a, q)
        BY <4>1, <4>2, FlowIs
      <4>4. y.ofi = Sum(Flows(w))
        BY <1>1, <2>3, <3>2, <4>2, <4>3 DEF Flowed
      <4>5. MidX2(a) # 0
        BY <4>1 DEF MidX2, Quotes
      <4>6. VolOf(y, w)
        <5>1. CASE MidX2(q) = MidX2(a)
          <6>1. y.sum_sq_ret = s.sum_sq_ret /\ y.realized_vol = s.realized_vol
            BY <4>2, <5>1 DEF VolMoves
          <6>2. Sum(Squares(w)) = Sum(Squares(t))
            BY <1>2, <2>3, <3>2, <5>1 DEF SquaredReturn
          <6> QED BY <1>1, <6>1, <6>2 DEF VolOf
        <5>2. CASE MidX2(q) # MidX2(a)
          <6> DEFINE r == Return(MidX2(a), MidX2(q))
          <6>1. y.sum_sq_ret = s.sum_sq_ret + r * r
            BY <4>2, <4>5, <5>2 DEF VolMoves
          <6>2. y.realized_vol = isqrt(y.sum_sq_ret) \div VolScale
            BY <4>2, <4>5, <5>2 DEF VolMoves
          <6>3. SquaredReturn(MidX2(a), MidX2(q)) = r * r
            BY <5>2 DEF SquaredReturn
          <6> HIDE DEF r
          <6>4. Sum(Squares(w)) = Sum(Squares(t)) + r * r
            BY <2>3, <3>2, <6>3
          <6>5. s.sum_sq_ret = Sum(Squares(t))
            BY <1>1 DEF VolOf
          <6> QED BY <6>1, <6>2, <6>4, <6>5 DEF VolOf
        <5> QED BY <5>1, <5>2
      <4> QED BY <4>4, <4>6
    <3> QED BY <3>1, <3>2
  <2>5. QuoteOf(y, w) /\ LastTop(w, q)
    BY <2>2 DEF QuoteOf, LastTop
  <2>6. Quoted(y, w, q)
    BY <2>4, <2>5 DEF Quoted
  <2> QED BY <2>1, <2>5, <2>6 DEF u
<1> QED BY <1>5, <1>6 DEF a

\* Only the quote and what is computed from quotes matter.
LEMMA QuotedKept ==
  ASSUME NEW s, NEW t, NEW l, Quoted(s, t, l), NEW x, IsMicro(x), SameQuote(s, x),
         NEW k, k.bp < k.ap => LastTop(t, k)
  PROVE  Quoted(x, t, k)
<1>1. \A q : QuoteTaken(s, q) => QuoteTaken(x, q)
  BY FairKept DEF QuoteTaken, SameQuote
<1>2. QuoteOf(x, t)
  BY <1>1 DEF Quoted, QuoteOf, SameQuote
<1>3. VolOf(x, t)
  BY DEF Quoted, VolOf, SameQuote
<1> QED BY <1>2, <1>3 DEF Quoted, SameQuote

\* A message: its trades, and then the top of the book if it is passed on. What
\* is not passed on is no new top.
LEMMA QuotedStep ==
  ASSUME NEW s, NEW t, NEW l, Quoted(s, t, l), NEW x, IsMicro(x), SameQuote(s, x),
         NEW y, NEW k, NEW two \in BOOLEAN, NEW q, two => q \in Quotes,
         NEW passes \in BOOLEAN, passes => two,
         IF passes THEN y = on_book(x, q) /\ k = q ELSE y = x /\ k = l,
         ~ passes /\ two /\ q.bp < q.ap => LastTop(t, q)
  PROVE  /\ Quoted(y, Extended(t, two, q), k) /\ SameTrades(x, y)
         /\ two /\ q.bp < q.ap => LastTop(Extended(t, two, q), q)
<1> DEFINE t1 == Extended(t, two, q)
<1>1. Quoted(x, t, l)
  BY QuotedKept DEF Quoted
<1>2. CASE ~ passes
  <2>1. t1 = t
    BY <1>2 DEF Extended, LastTop
  <2> HIDE DEF t1
  <2>2. Quoted(y, t1, k)
    BY <1>1, <1>2, <2>1
  <2>3. two /\ q.bp < q.ap => LastTop(t1, q)
    BY <1>2, <2>1
  <2>4. SameTrades(x, y)
    BY <1>2 DEF SameTrades
  <2> QED BY <2>2, <2>3, <2>4 DEF t1
<1>3. CASE passes /\ q.bp < q.ap
  <2>1. two /\ q \in Quotes /\ y = on_book(x, q) /\ k = q
    BY <1>3
  <2>2. t1 = Extended(t, TRUE, q)
    BY <2>1
  <2> HIDE DEF t1
  <2>3. /\ IsMicro(y) /\ SameTrades(x, y)
        /\ QuoteTaken(y, q) /\ y.ofi = Flowed(x, q) /\ VolMoves(x, y, q)
    BY <1>3, <2>1, OnBookIs
  <2>4. Quoted(y, t1, q) /\ LastTop(t1, q)
    BY <1>1, <1>3, <2>1, <2>2, <2>3, QuotedTop
  <2> QED BY <2>1, <2>3, <2>4 DEF t1
<1>4. CASE passes /\ ~ (q.bp < q.ap)
  <2>1. two /\ q \in Quotes /\ y = on_book(x, q) /\ k = q
    BY <1>4
  <2>2. t1 = t
    BY <1>4 DEF Extended
  <2> HIDE DEF t1
  <2>3. IsMicro(y) /\ SameQuote(x, y) /\ SameTrades(x, y)
    <3>1. q.bp >= q.ap
      BY <1>4, <2>1 DEF Quotes
    <3> QED BY <2>1, <3>1, OnBookIs
  <2>4. Quoted(y, t1, k)
    BY <1>1, <1>4, <2>1, <2>2, <2>3, QuotedKept
  <2> QED BY <1>4, <2>3, <2>4 DEF t1
<1> QED BY <1>2, <1>3, <1>4

----------------------------------------------------------------------------
(* The file replay: the steps of the day *)

\* In the loop of a message the analytics x have seen the trades p.
Traded(s, x, p) == IsMicro(x) /\ SameQuote(s, x) /\ Measured(x, p)

\* One operation.
LEMMA HandleMicro ==
  ASSUME QuoteOf(micro, tops), NEW s, NEW p, Traded(micro, s.micro, p), NEW op \in ResolvedOp
  PROVE  Traded(micro, Handle(s, op).micro, Recorded(p, op))
<1> DEFINE x == s.micro
           t == on_trade(x, op.price, op.qty, op.side = "Sell")
           buyer == op.side = "Sell"
           v == IF buyer THEN op.qty ELSE -op.qty
           mid == MidX2(tops[Len(tops)])
           print == [px |-> op.price, v |-> v, mid |-> mid]
<1>1. Handle(s, op).micro = IF IsTrade(op) THEN t ELSE x
  BY DEF Handle
<1>2. Recorded(p, op) = IF IsTrade(op) /\ tops # << >> THEN Append(p, print) ELSE p
  BY DEF Recorded
<1>3. op.price \in Nat /\ op.qty \in Nat /\ buyer \in BOOLEAN
  BY PricesAssumption DEF ResolvedOp
<1>4. IsMicro(x) /\ SameQuote(micro, x) /\ Measured(x, p)
  BY DEF Traded
<1>5. IsMicro(t) /\ SameQuote(x, t) /\ (~ x.have_prev => t = x)
  BY <1>4, OnTradeIs
<1>6. SameQuote(micro, t)
  BY <1>4, <1>5 DEF SameQuote, SamePrices
<1>7. CASE ~ IsTrade(op)
  BY <1>1, <1>2, <1>7
<1>8. CASE IsTrade(op) /\ tops = << >>
  <2>1. x.have_prev = FALSE
    BY <1>4, <1>8 DEF QuoteOf, SameQuote
  <2>2. t = x
    BY <1>5, <2>1
  <2> HIDE DEF t, x
  <2> QED BY <1>1, <1>2, <1>8, <2>2 DEF x
<1>9. CASE IsTrade(op) /\ tops # << >>
  <2> DEFINE a == tops[Len(tops)]
  <2>1. a \in Quotes /\ QuoteTaken(micro, a)
    BY <1>9 DEF QuoteOf
  <2>2. x.have_prev = TRUE /\ x.pb = a.bp /\ x.pa = a.ap
    BY <1>4, <2>1 DEF QuoteTaken, SameQuote
  <2>3. x.pb \in Nat \ {0} /\ x.pa \in Nat \ {0}
    BY <2>1, <2>2 DEF Quotes
  <2>4. print = [px |-> op.price, v |-> v, mid |-> x.pb + x.pa]
    BY <2>2 DEF MidX2
  <2>5. Measured(t, Append(p, print))
    <3> HIDE DEF x, print
    <3> QED BY <1>3, <1>4, <2>2, <2>3, <2>4, MeasuredTrade
  <2>6. Traded(micro, t, Append(p, print))
    BY <1>5, <1>6, <2>5 DEF Traded
  <2> HIDE DEF t, x, print
  <2> QED BY <1>1, <1>2, <1>9, <2>6
<1> QED BY <1>7, <1>8, <1>9

\* What a message does to the analytics and to the quote last passed on.
PassesOn(t) ==
  IF ops' # << >> /\ Passes(engine', Top(engine'))
    THEN micro' = on_book(t, Top(engine')) /\ last' = Top(engine')
    ELSE micro' = t /\ last' = last

\* After the loop the top of the book is passed on, or not.
LEMMA ReplayMicro ==
  ASSUME Booked(book), IsMicro(micro), QuoteOf(micro, tops), Measured(micro, prints),
         NEW m \in Feed, NEW ts, on_message(m, ts)
  PROVE  \E t : Traded(micro, t, prints') /\ PassesOn(t)
<1> DEFINE t == ForEachOp(Handle, Before1, ops').micro
<1>1. PassesOn(t)
  <2> DEFINE st == ForEachOp(Handle, Before1, ops')
  <2>1. \E s \in {st} : \E q \in {Top(s.engine)} :
          /\ engine' = s.engine
          /\ IF ops' # << >> /\ Passes(s.engine, q)
               THEN micro' = on_book(s.micro, q) /\ last' = q
               ELSE micro' = s.micro /\ UNCHANGED last
    BY DEF on_message, Before1
  <2> HIDE DEF st
  <2>2. /\ engine' = st.engine
        /\ IF ops' # << >> /\ Passes(st.engine, Top(st.engine))
             THEN micro' = on_book(st.micro, Top(st.engine)) /\ last' = Top(st.engine)
             ELSE micro' = st.micro /\ last' = last
    BY <2>1
  <2>3. IF ops' # << >> /\ Passes(engine', Top(engine'))
          THEN micro' = on_book(st.micro, Top(engine')) /\ last' = Top(engine')
          ELSE micro' = st.micro /\ last' = last
    BY <2>2
  <2> QED BY <2>3 DEF PassesOn, st
<1>2. Traded(micro, Before1.micro, prints)
  BY DEF Traded, Before1, SameQuote, SamePrices
<1>3. \/ ops' = << >>
      \/ \E a \in ResolvedOp : ops' = <<a>>
      \/ \E a, c \in ResolvedOp : ops' = <<a, c>>
  <2>1. m \in Message /\ resolve(m)
    BY FeedAssumption DEF on_message
  <2>2. \A o \in RestingOrder : AddOp(o) \in ResolvedOp
    BY AddOpIs
  <2>3. \/ ToNothing \/ ToTrade
        \/ \E o \in RestingOrder : ToAdd(o)
        \/ \E op \in ResolvedOp : ToReduce(op)
        \/ \E op \in ResolvedOp : ToDelete(op)
        \/ \E op \in ResolvedOp, o \in RestingOrder : ToReplace(op, o)
    BY <2>1, ResolveIs
  <2>4. CASE ToNothing \/ ToTrade
    BY <2>4 DEF ToNothing, ToTrade
  <2>5. CASE \E o \in RestingOrder : ToAdd(o)
    BY <2>2, <2>5 DEF ToAdd
  <2>6. CASE \E op \in ResolvedOp : ToReduce(op)
    BY <2>6 DEF ToReduce
  <2>7. CASE \E op \in ResolvedOp : ToDelete(op)
    BY <2>7 DEF ToDelete
  <2>8. CASE \E op \in ResolvedOp, o \in RestingOrder : ToReplace(op, o)
    BY <2>2, <2>8 DEF ToReplace
  <2> QED BY <2>3, <2>4, <2>5, <2>6, <2>7, <2>8
<1>4. prints' = ForEachOp(Recorded, prints, ops')
  BY DEF on_message
<1> HIDE DEF Before1
<1>5. ASSUME ops' = << >> PROVE Traded(micro, t, prints')
  <2>1. ForEachOp(Recorded, prints, << >>) = prints
    BY DEF ForEachOp
  <2>2. t = Before1.micro /\ prints' = prints
    BY <1>4, <1>5, <2>1, HandleIs
  <2> QED BY <1>2, <2>2
<1>6. ASSUME NEW a \in ResolvedOp, ops' = <<a>> PROVE Traded(micro, t, prints')
  <2>1. ForEachOp(Recorded, prints, <<a>>) = Recorded(prints, a)
    BY DEF ForEachOp
  <2>2. t = Handle(Before1, a).micro /\ prints' = Recorded(prints, a)
    BY <1>4, <1>6, <2>1, HandleIs
  <2>3. Traded(micro, Handle(Before1, a).micro, Recorded(prints, a))
    BY <1>2, HandleMicro
  <2> QED BY <2>2, <2>3
<1>7. ASSUME NEW a \in ResolvedOp, NEW c \in ResolvedOp, ops' = <<a, c>>
      PROVE  Traded(micro, t, prints')
  <2>1. ForEachOp(Handle, Before1, <<a, c>>) = Handle(Handle(Before1, a), c)
    BY DEF ForEachOp
  <2>2. ForEachOp(Recorded, prints, <<a, c>>) = Recorded(Recorded(prints, a), c)
    BY DEF ForEachOp
  <2>3. t = Handle(Handle(Before1, a), c).micro /\ prints' = Recorded(Recorded(prints, a), c)
    BY <1>4, <1>7, <2>1, <2>2
  <2>4. Traded(micro, Handle(Before1, a).micro, Recorded(prints, a))
    BY <1>2, HandleMicro
  <2>5. Traded(micro, Handle(Handle(Before1, a), c).micro, Recorded(Recorded(prints, a), c))
    BY <2>4, HandleMicro
  <2> QED BY <2>3, <2>5
<1> HIDE DEF t
<1> QED BY <1>1, <1>3, <1>5, <1>6, <1>7

\* If the book has both sides and is not crossed, its top is the last of the tops.
Tracked(e, t) == TwoSided(e) /\ Top(e).bp < Top(e).ap => LastTop(t, Top(e))

\* The inductive invariant: the books agree, which is what makes the top of the
\* engine's a quote; the analytics and the quote last passed on follow it, and
\* the trades are measured.
QuoteInv ==
  /\ Matched(book, engine, {}, reused)
  /\ Quoted(micro, tops, last)
  /\ Tracked(engine, tops)
  /\ Measured(micro, prints)

\* At the start of the day nothing was passed on.
LEMMA QuoteInit ==
  ASSUME Init
  PROVE  QuoteInv
<1>1. Matched(book, engine, {}, reused)
  BY MatchedInit DEF Init
<1>2. micro = reset /\ tops = << >> /\ prints = << >> /\ ~ (last.bp < last.ap)
  BY DEF Init
<1>3. /\ Flows(<< >>) = << >> /\ Squares(<< >>) = << >>
      /\ Spreads(<< >>) = << >> /\ Impacts(<< >>) = << >> /\ Volumes(<< >>) = << >>
  <2>1. DOMAIN << >> = {}
    OBVIOUS
  <2> QED BY <2>1 DEF Flows, Squares, Spreads, Impacts, Volumes
<1>4. << >> \in Seq(Quotes) /\ << >> \in Seq(Prints) /\ Len(<< >>) = 0
  OBVIOUS
<1>5. Quoted(micro, tops, last)
  <2>1. /\ IsMicro(reset) /\ reset.have_prev = FALSE /\ reset.ofi = 0
        /\ reset.sum_sq_ret = 0 /\ reset.realized_vol = 0
    BY DEF reset, IsMicro
  <2> HIDE DEF reset
  <2>2. QuoteOf(reset, << >>) /\ VolOf(reset, << >>)
    BY <1>3, <1>4, <2>1, SumEmpty DEF QuoteOf, VolOf
  <2> QED BY <1>2, <1>3, <2>1, <2>2, SumEmpty DEF Quoted
<1>6. Tracked(engine, tops)
  <2>1. engine.Buy = EmptyLadder
    BY DEF Init, BookInit, NewEngine
  <2> QED BY <2>1 DEF Tracked, TwoSided, EmptyLadder
<1>7. Measured(micro, prints)
  <2>1. /\ reset.trades = 0 /\ reset.effective_spread_sum = 0 /\ reset.sum_dp_v = 0
        /\ reset.sum_v_sq = 0 /\ reset.kyle_lambda = 0 /\ reset.prev_trade_mid_x2 = 0
    BY DEF reset
  <2> HIDE DEF reset
  <2> QED BY <1>2, <1>3, <1>4, <2>1, SumEmpty DEF Measured
<1> QED BY <1>1, <1>5, <1>6, <1>7 DEF QuoteInv

\* Every message keeps it.
LEMMA QuoteNext ==
  ASSUME QuoteInv, NEW m \in Feed, NEW ts, on_message(m, ts)
  PROVE  /\ Matched(book', engine', {}, reused')
         /\ Quoted(micro', tops', last')
         /\ Tracked(engine', tops')
         /\ Measured(micro', prints')
<1> DEFINE q == Top(engine')
           two == TwoSided(engine')
           passes == ops' # << >> /\ Passes(engine', q)
<1>1. /\ Matched(book, engine, {}, reused) /\ Quoted(micro, tops, last)
      /\ Tracked(engine, tops) /\ Measured(micro, prints)
  BY DEF QuoteInv
<1>2. Matched(book', engine', {}, reused')
  BY <1>1, ReplayMatched
<1>3. Booked(book) /\ IsMicro(micro) /\ QuoteOf(micro, tops) /\ IsEngine(engine')
  BY <1>1, <1>2 DEF Matched, Quoted
<1>4. PICK t : Traded(micro, t, prints') /\ PassesOn(t)
  BY <1>1, <1>3, ReplayMicro
<1>5. two \in BOOLEAN /\ passes \in BOOLEAN
  BY DEF TwoSided, Passes
<1>6. (two => q \in Quotes) /\ (passes => two)
  BY <1>3, TopIs DEF Passes
<1>7. IF passes THEN micro' = on_book(t, q) /\ last' = q ELSE micro' = t /\ last' = last
  BY <1>4 DEF PassesOn
<1>8. tops' = Extended(tops, two, q)
  BY DEF on_message, Extended
<1>9. ~ passes /\ two /\ q.bp < q.ap => LastTop(tops, q)
  <2> SUFFICES ASSUME ~ passes, two, q.bp < q.ap PROVE LastTop(tops, q)
    OBVIOUS
  <2>1. CASE ops' = << >>
    <3>1. engine' = engine
      BY <2>1, ReplayEngine
    <3> QED BY <1>1, <3>1 DEF Tracked
  <2>2. CASE q = last
    <3> HIDE DEF q
    <3> QED BY <1>1, <2>2 DEF Quoted
  <2> QED BY <2>1, <2>2 DEF Passes
<1> HIDE DEF q, two, passes
<1>10. /\ Quoted(micro', Extended(tops, two, q), last') /\ SameTrades(t, micro')
       /\ two /\ q.bp < q.ap => LastTop(Extended(tops, two, q), q)
  <2>1. IsMicro(t) /\ SameQuote(micro, t)
    BY <1>4 DEF Traded
  <2> QED BY <1>1, <1>5, <1>6, <1>7, <1>9, <2>1, QuotedStep
<1>11. Tracked(engine', tops')
  BY <1>8, <1>10 DEF Tracked, two, q
<1>12. Measured(micro', prints')
  BY <1>4, <1>10, MeasuredSame DEF Traded
<1> QED BY <1>2, <1>8, <1>10, <1>11, <1>12

\* The invariant of the day: the analytics' quote, and what they add up.
LEMMA QuoteInvariant == Spec => []QuoteInv
<1>1. Init => QuoteInv
  BY QuoteInit
<1>2. QuoteInv /\ [Next]_vars => QuoteInv'
  <2> SUFFICES ASSUME QuoteInv, [Next]_vars PROVE QuoteInv'
    OBVIOUS
  <2>1. CASE UNCHANGED vars
    <3>1. /\ book' = book /\ engine' = engine /\ micro' = micro /\ last' = last
          /\ tops' = tops /\ prints' = prints /\ reused' = reused
      BY <2>1 DEF vars, history
    <3>2. /\ Matched(book', engine', {}, reused') /\ Quoted(micro', tops', last')
          /\ Tracked(engine', tops') /\ Measured(micro', prints')
      BY <3>1 DEF QuoteInv
    <3> QED BY <3>2 DEF QuoteInv
  <2>2. ASSUME NEW m \in Feed, NEW ts \in time .. MaxTime, on_message(m, ts) PROVE QuoteInv'
    BY <2>2, QuoteNext DEF QuoteInv
  <2> QED BY <2>1, <2>2 DEF Next, Done
<1> QED BY <1>1, <1>2, PTL DEF Spec

\* After every message of a day, the quote of the analytics (Microstructure's
\* pb_ .. qa_) is the last top of the book that had both sides and was not
\* crossed, and there is none before the first: no change of the top is missed
\* and no crossed or one-sided book leaks into it, whatever the feed sends.
THEOREM ReplayQuote == Spec => []QuoteIsLastTop
<1>1. QuoteInv => QuoteIsLastTop
  <2> SUFFICES ASSUME QuoteInv PROVE QuoteIsLastTop
    OBVIOUS
  <2>1. QuoteOf(micro, tops)
    BY DEF QuoteInv, Quoted
  <2>2. CASE tops = << >>
    BY <2>1, <2>2 DEF QuoteOf, QuoteIsLastTop
  <2>3. CASE tops # << >>
    <3>1. tops[Len(tops)] \in Quotes
      BY <2>1, <2>3 DEF QuoteOf
    <3>2. PICK a \in Quotes : a = tops[Len(tops)]
      BY <3>1
    <3>3. a = [bp |-> a.bp, bq |-> a.bq, ap |-> a.ap, aq |-> a.aq]
      BY DEF Quotes
    <3>4. micro.pb = a.bp /\ micro.qb = a.bq /\ micro.pa = a.ap /\ micro.qa = a.aq
      BY <2>1, <2>3, <3>2 DEF QuoteOf, QuoteTaken
    <3>5. FairValue(micro, a)
      BY <2>1, <2>3, <3>2 DEF QuoteOf, QuoteTaken
    <3> QED BY <2>3, <3>2, <3>3, <3>4, <3>5 DEF QuoteIsLastTop
  <2> QED BY <2>2, <2>3
<1> QED BY <1>1, QuoteInvariant, PTL

\* After every message, the order flow imbalance (on_book's ofi) is the sum of
\* the flows from each top of the book to the next: none is missed and none is
\* counted twice across books that are empty on a side or crossed.
THEOREM ReplayOfi == Spec => []OfiIsImbalance
<1>1. QuoteInv => OfiIsImbalance
  BY DEF QuoteInv, Quoted, OfiIsImbalance
<1> QED BY <1>1, QuoteInvariant, PTL

\* After every message, each trade since the first top was counted once, its
\* effective spread taken against the top before it, and Kyle's lambda is the
\* quotient of the two sums over the trades (on_trade).
THEOREM ReplayTrades == Spec => []TradesMeasured
<1>1. QuoteInv => TradesMeasured
  <2> SUFFICES ASSUME QuoteInv PROVE TradesMeasured
    OBVIOUS
  <2>1. Measured(micro, prints)
    BY DEF QuoteInv
  <2> QED BY <2>1 DEF Measured, TradesMeasured
<1> QED BY <1>1, QuoteInvariant, PTL

\* After every message, the reported volatility (on_book's realized_vol) is the
\* root of the sum of the squared returns, rounded down to its last digit, if
\* the sum has no more than the RootBits pairs of bits the root reads: in the
\* code, 64 pairs of the 128 bits it is kept in.
THEOREM ReplayVol == Spec => [](Shifted(Sum(Squares(tops)))[RootBits] = 0 => VolIsRoot)
<1>1. QuoteInv => (Shifted(Sum(Squares(tops)))[RootBits] = 0 => VolIsRoot)
  <2> DEFINE n == Sum(Squares(tops))
  <2> SUFFICES ASSUME QuoteInv, Shifted(n)[RootBits] = 0 PROVE VolIsRoot
    OBVIOUS
  <2>1. VolOf(micro, tops) /\ tops \in Seq(Quotes)
    BY DEF QuoteInv, Quoted, QuoteOf
  <2>2. n \in Nat
    <3>1. [bp |-> 1, bq |-> 1, ap |-> 1, aq |-> 1] \in Quotes
      BY DEF Quotes
    <3> QED BY <2>1, <3>1, SquareSumNext
  <2> DEFINE r == isqrt(n)
             k == micro.realized_vol
             low == k * VolScale
             high == (k + 1) * VolScale
  <2>3. VolScale \in Nat \ {0}
    BY ScaleAssumption
  <2>4. VolIsRoot <=> (low * low <= n /\ n < high * high)
    BY DEF VolIsRoot
  <2>5. k = r \div VolScale \/ (n = 0 /\ k = 0)
    BY <2>1 DEF VolOf
  <2>6. r \in Nat /\ r * r <= n /\ n < (r + 1) * (r + 1)
    BY <2>2, RootIs
  <2> HIDE DEF n, r, k
  <2>7. CASE n = 0 /\ k = 0
    <3>1. low = 0 /\ high = VolScale
      BY <2>3, <2>7
    <3>2. VolScale * VolScale > 0
      BY <2>3
    <3> HIDE DEF low, high
    <3> QED BY <2>4, <2>7, <3>1, <3>2
  <2>8. CASE k = r \div VolScale
    <3>1. k \in Nat /\ low \in Nat /\ high \in Nat /\ low <= r /\ r + 1 <= high
      <4>1. k \in Nat /\ r = VolScale * k + (r % VolScale) /\ r % VolScale \in 0 .. VolScale - 1
        BY <2>3, <2>6, <2>8
      <4>2. low \in Nat /\ high = low + VolScale /\ low = VolScale * k
        BY <2>3, <4>1
      <4> HIDE DEF low, high
      <4> QED BY <2>3, <2>6, <4>1, <4>2
    <3> HIDE DEF low, high
    <3>2. low * low <= r * r
      BY <2>6, <3>1
    <3>3. (r + 1) * (r + 1) <= high * high
      BY <2>6, <3>1
    <3>4. low * low \in Nat /\ r * r \in Nat /\ high * high \in Nat /\ (r + 1) * (r + 1) \in Nat
      BY <2>6, <3>1
    <3> QED BY <2>2, <2>4, <2>6, <3>2, <3>3, <3>4
  <2> QED BY <2>5, <2>7, <2>8
<1> QED BY <1>1, QuoteInvariant, PTL
=============================================================================
