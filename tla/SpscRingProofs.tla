--------------------------- MODULE SpscRingProofs ---------------------------
(***************************************************************************)
(* Proofs about the ring, for every capacity and every set of records.     *)
(* Arithmetic modulo the capacity comes first, then what write and read do *)
(* to the bytes between two cursors, then one lemma per step of the        *)
(* specification for the invariant Inv, and at the end the theorems.       *)
(***************************************************************************)
EXTENDS SpscRing, TLAPS

(* Cursors and cells *)

\* Cursor values less than a lap apart name different cells of buf_.
LEMMA ModDistinct ==
  ASSUME NEW x \in Nat, NEW y \in Nat, x < y, y - x < Capacity
  PROVE  x % Capacity # y % Capacity
<1> USE CapacityAssumption
<1> DEFINE p == x \div Capacity
           q == y \div Capacity
<1>1. x = Capacity * p + (x % Capacity)
  OBVIOUS
<1>2. y = Capacity * q + (y % Capacity)
  OBVIOUS
<1>3. p \in Int /\ q \in Int /\ x % Capacity \in Int /\ y % Capacity \in Int
  OBVIOUS
<1>4. SUFFICES ASSUME x % Capacity = y % Capacity PROVE FALSE
  OBVIOUS
<1>5. y - x = Capacity * q - Capacity * p
  BY <1>1, <1>2, <1>3, <1>4
<1>6. CASE q <= p
  BY <1>3, <1>5, <1>6
<1>7. CASE q >= p + 1
  BY <1>3, <1>5, <1>7
<1> QED BY <1>3, <1>6, <1>7

\* Adding less than a lap to a cursor wraps at most once.
LEMMA ModAdd ==
  ASSUME NEW x \in Nat, NEW j \in Nat, j < Capacity
  PROVE  /\ x % Capacity \in 0 .. Capacity - 1
         /\ (x + j) % Capacity = IF (x % Capacity) + j < Capacity
                                   THEN (x % Capacity) + j
                                   ELSE (x % Capacity) + j - Capacity
BY CapacityAssumption

----------------------------------------------------------------------------
(* What write and read do *)

\* The bytes written are there afterwards, whether or not the copy was split.
LEMMA WriteStores ==
  ASSUME NEW b \in [Cells -> Byte], NEW at \in Nat, NEW s \in Seq(Byte),
         Len(s) <= Capacity
  PROVE  write(b, at, s) \in [Cells -> Byte] /\ Stored(write(b, at, s), at, s)
<1> DEFINE off == at % Capacity
           n   == Len(s)
           fst == First(at, n)
<1>1. off \in 0 .. Capacity - 1 /\ n \in Nat /\ Capacity \in Nat
  BY ModAdd, CapacityAssumption
<1>2. fst \in Nat /\ fst <= n /\ (fst = n \/ off + fst = Capacity)
        /\ (fst = n => off + n <= Capacity) /\ (n - fst <= off)
  BY <1>1 DEF First
<1>3. write(b, at, s) \in [Cells -> Byte]
  <2>1. ASSUME NEW c \in Cells, c < n - fst PROVE s[fst + c + 1] \in Byte
    BY <2>1, <1>1, <1>2 DEF Cells
  <2>2. ASSUME NEW c \in Cells, off <= c, c < off + fst PROVE s[c - off + 1] \in Byte
    BY <2>2, <1>1, <1>2 DEF Cells
  <2> QED BY <2>1, <2>2 DEF write
<1>4. ASSUME NEW j \in 1 .. n PROVE write(b, at, s)[(at + j - 1) % Capacity] = s[j]
  <2> DEFINE c == (at + j - 1) % Capacity
  <2>1. /\ j - 1 \in Nat /\ j - 1 < Capacity
        /\ at + (j - 1) = at + j - 1
    BY <1>1
  <2>2. c = IF off + (j - 1) < Capacity THEN off + (j - 1) ELSE off + (j - 1) - Capacity
    BY <2>1, ModAdd
  <2>3. c \in Cells
    BY <2>1, <2>2, <1>1 DEF Cells
  <2>4. CASE off + (j - 1) < Capacity
    <3>1. c = off + j - 1 /\ off <= c /\ c < off + fst /\ ~ (c < n - fst)
      BY <2>2, <2>4, <1>1, <1>2
    <3>2. c - off + 1 = j
      BY <3>1, <1>1
    <3> QED BY <3>1, <3>2, <2>3 DEF write
  <2>5. CASE ~ (off + (j - 1) < Capacity)
    <3>1. c = off + (j - 1) - Capacity
      BY <2>2, <2>5
    <3>2. off + fst = Capacity
      BY <2>5, <1>1, <1>2
    <3>3. c < n - fst /\ fst + c + 1 = j
      <4> HIDE DEF c, off, n, fst
      <4>1. j \in Int /\ off \in Int /\ fst \in Int /\ n \in Int /\ Capacity \in Int /\ j <= n
        BY <1>1, <1>2
      <4> QED BY <3>1, <3>2, <4>1
    <3> QED BY <3>3, <2>3 DEF write
  <2> QED BY <2>4, <2>5
<1> QED BY <1>3, <1>4 DEF Stored

\* What lies behind the bytes written, within a lap, stays as it was.
LEMMA WriteFrame ==
  ASSUME NEW b \in [Cells -> Byte], NEW at \in Nat, NEW s \in Seq(Byte),
         NEW from \in Nat, NEW t \in Seq(Byte),
         from + Len(t) <= at, at + Len(s) <= from + Capacity,
         Stored(b, from, t)
  PROVE  Stored(write(b, at, s), from, t)
<1> DEFINE off == at % Capacity
           n   == Len(s)
           fst == First(at, n)
<1>1. /\ off \in 0 .. Capacity - 1 /\ n \in Nat /\ Capacity \in Nat
      /\ Len(t) \in Nat /\ n <= Capacity
  BY ModAdd, CapacityAssumption
<1>2. fst \in Nat /\ fst <= n /\ (fst = n \/ off + fst = Capacity)
        /\ (fst = n => off + n <= Capacity) /\ (n - fst <= off)
  BY <1>1 DEF First
<1>3. SUFFICES ASSUME NEW k \in 1 .. Len(t)
               PROVE  write(b, at, s)[(from + k - 1) % Capacity] = b[(from + k - 1) % Capacity]
  BY DEF Stored
<1> DEFINE x == from + k - 1
           c == x % Capacity
<1>4. x \in Nat /\ x < at /\ at + n <= x + Capacity
  BY <1>1
<1>5. c \in Cells
  <2>1. 0 \in Nat /\ 0 < Capacity
    BY CapacityAssumption
  <2> QED BY <2>1, <1>4, ModAdd DEF Cells
<1>6. ASSUME NEW j \in 0 .. n - 1 PROVE (at + j) % Capacity # c
  <2>1. at + j \in Nat /\ x < at + j /\ (at + j) - x < Capacity
    BY <1>1, <1>4
  <2> QED BY <2>1, <1>4, ModDistinct
<1>7. ASSUME c < n - fst PROVE FALSE
  <2> DEFINE j == fst + c
  <2>1. j \in 0 .. n - 1 /\ j < Capacity /\ off + fst = Capacity /\ c \in Nat /\ c < off
    BY <1>1, <1>2, <1>5, <1>7 DEF Cells
  <2>2. ~ (off + j < Capacity) /\ off + j - Capacity = c
    <3> HIDE DEF c, off, n, fst
    <3> QED BY <2>1, <1>1, <1>2
  <2>3. (at + j) % Capacity = IF off + j < Capacity THEN off + j ELSE off + j - Capacity
    <3>1. j \in Nat /\ j < Capacity
      BY <2>1, <1>1
    <3> HIDE DEF j
    <3> QED BY <3>1, ModAdd
  <2> QED BY <2>1, <2>2, <2>3, <1>6
<1>8. ASSUME off <= c, c < off + fst PROVE FALSE
  <2> DEFINE j == c - off
  <2>1. j \in 0 .. n - 1 /\ j < Capacity /\ off + j = c /\ c < Capacity
    BY <1>1, <1>2, <1>5, <1>8 DEF Cells
  <2>2. (at + j) % Capacity = c
    BY <2>1, <1>1, <1>2, ModAdd
  <2> QED BY <2>1, <2>2, <1>6
<1> QED BY <1>5, <1>7, <1>8 DEF write

\* Reading back as many bytes as were stored gives the bytes stored.
LEMMA ReadStored ==
  ASSUME NEW b \in [Cells -> Byte], NEW at \in Nat, NEW s \in Seq(Byte),
         Len(s) <= Capacity, Stored(b, at, s)
  PROVE  read(b, at, Len(s)) = s
<1> DEFINE off == at % Capacity
           n   == Len(s)
           fst == First(at, n)
<1>1. off \in 0 .. Capacity - 1 /\ n \in Nat /\ Capacity \in Nat
  BY ModAdd, CapacityAssumption
<1>2. fst \in Nat /\ fst <= n /\ (fst = n \/ off + fst = Capacity)
        /\ (fst = n => off + n <= Capacity)
  BY <1>1 DEF First
<1>3. ASSUME NEW i \in 1 .. n PROVE read(b, at, n)[i] = s[i]
  <2>1. /\ i - 1 \in Nat /\ i - 1 < Capacity
        /\ at + (i - 1) = at + i - 1
    BY <1>1
  <2>2. (at + i - 1) % Capacity = IF off + (i - 1) < Capacity
          THEN off + (i - 1) ELSE off + (i - 1) - Capacity
    BY <2>1, ModAdd
  <2>3. read(b, at, n)[i] = IF i <= fst THEN b[off + i - 1] ELSE b[i - fst - 1]
    BY DEF read
  <2>4. read(b, at, n)[i] = b[(at + i - 1) % Capacity]
    <3>1. CASE i <= fst
      <4>1. off + (i - 1) < Capacity /\ off + (i - 1) = off + i - 1
        BY <3>1, <1>1, <1>2
      <4> QED BY <4>1, <3>1, <2>2, <2>3
    <3>2. CASE ~ (i <= fst)
      <4>1. ~ (off + (i - 1) < Capacity) /\ off + (i - 1) - Capacity = i - fst - 1
        BY <3>2, <1>1, <1>2
      <4> QED BY <4>1, <3>2, <2>2, <2>3
    <3> QED BY <3>1, <3>2
  <2> QED BY <2>4 DEF Stored
<1>4. read(b, at, n) = [i \in 1 .. n |-> read(b, at, n)[i]]
  BY DEF read
<1>5. s = [i \in 1 .. n |-> s[i]]
  OBVIOUS
<1> QED BY <1>3, <1>4, <1>5

\* Four bytes hold the length of every record there is.
LEMMA PrefixFacts ==
  ASSUME NEW n \in Nat, n < LengthLimit
  PROVE  Prefix(n) \in Seq(Byte) /\ Len(Prefix(n)) = 4 /\ Length(Prefix(n)) = n
<1>1. /\ n % 256 \in Byte /\ (n \div 256) % 256 \in Byte
      /\ (n \div 65536) % 256 \in Byte /\ (n \div 16777216) % 256 \in Byte
  BY DEF Byte
<1>2. (n % 256) + 256 * ((n \div 256) % 256) + 65536 * ((n \div 65536) % 256)
        + 16777216 * ((n \div 16777216) % 256) = n
  BY DEF LengthLimit
<1> QED BY <1>1, <1>2 DEF Prefix, Length

----------------------------------------------------------------------------
(* Records and where they begin *)

\* Records begin one behind the other, each at least a prefix further on.
LEMMA StartFacts ==
  ASSUME TypeOK, Layout
  PROVE  /\ Len(log) \in Nat /\ taken \in Nat /\ taken <= Len(log)
         /\ \A i \in 1 .. Len(log) :
              /\ log[i].at \in Nat /\ log[i].data \in Payloads /\ log[i].data \in Seq(Byte)
              /\ Len(log[i].data) \in Nat /\ Len(log[i].data) < LengthLimit
              /\ Start(i) = log[i].at
              /\ Start(i + 1) = log[i].at + 4 + Len(log[i].data)
         /\ Start(Len(log) + 1) = head
         /\ \A i \in 1 .. Len(log) + 1 : Start(i) \in Nat /\ Start(i) <= head
         /\ \A i, j \in 1 .. Len(log) + 1 : i < j => Start(i + 1) <= Start(j)
<1>1. Len(log) \in Nat /\ taken \in Nat /\ taken <= Len(log)
  BY DEF TypeOK
<1>2. ASSUME NEW i \in 1 .. Len(log)
      PROVE  /\ log[i].at \in Nat /\ log[i].data \in Payloads /\ log[i].data \in Seq(Byte)
             /\ Len(log[i].data) \in Nat /\ Len(log[i].data) < LengthLimit
  <2>1. log[i] \in Record
    BY DEF TypeOK
  <2>2. log[i].at \in Nat /\ log[i].data \in Payloads
    BY <2>1 DEF Record
  <2> QED BY <2>2, PayloadsAssumption
<1>3. ASSUME NEW i \in 1 .. Len(log) PROVE Start(i) = log[i].at
  BY <1>1 DEF Start
<1>4. ASSUME NEW i \in 1 .. Len(log)
      PROVE  Start(i + 1) = log[i].at + 4 + Len(log[i].data) /\ Start(i + 1) <= head
  <2>1. Start(i + 1) = log[i].at + Need(log[i].data) /\ Start(i + 1) <= head
    BY DEF Layout
  <2>2. log[i].at \in Nat /\ Len(log[i].data) \in Nat
    BY <1>2
  <2>3. log[i].at + Need(log[i].data) = log[i].at + 4 + Len(log[i].data)
    BY <2>2 DEF Need
  <2> QED BY <2>1, <2>3
<1>5. Start(Len(log) + 1) = head
  BY DEF Start
<1>6. head \in Nat
  BY DEF TypeOK
<1>7. ASSUME NEW i \in 1 .. Len(log) + 1 PROVE Start(i) \in Nat /\ Start(i) <= head
  <2>1. CASE i = Len(log) + 1
    BY <2>1, <1>5, <1>6
  <2>2. CASE i \in 1 .. Len(log)
    <3>1. /\ Start(i) = log[i].at /\ log[i].at \in Nat /\ Len(log[i].data) \in Nat
          /\ log[i].at + 4 + Len(log[i].data) <= head
      BY <2>2, <1>2, <1>3, <1>4
    <3> QED BY <3>1, <1>6
  <2> QED BY <2>1, <2>2, <1>1
<1>8. ASSUME NEW i \in 1 .. Len(log) + 1, NEW j \in 1 .. Len(log) + 1, i < j
      PROVE  Start(i + 1) <= Start(j)
  <2>1. i \in 1 .. Len(log)
    BY <1>1, <1>8
  <2>2. CASE j = Len(log) + 1
    BY <2>1, <2>2, <1>4, <1>5
  <2>3. CASE j \in 1 .. Len(log)
    BY <2>1, <2>3, <1>3, <1>8 DEF Layout
  <2> QED BY <2>2, <2>3, <1>1
<1> QED BY <1>1, <1>2, <1>3, <1>4, <1>5, <1>7, <1>8

\* A later record begins at least a prefix further on.
LEMMA StartIncreases ==
  ASSUME TypeOK, Layout, NEW i \in 1 .. Len(log) + 1, NEW j \in 1 .. Len(log) + 1, i < j
  PROVE  Start(i) + 4 <= Start(j)
<1>1. i \in 1 .. Len(log)
  BY StartFacts
<1>2. /\ Start(i) = log[i].at /\ log[i].at \in Nat /\ Len(log[i].data) \in Nat
      /\ Start(i + 1) = log[i].at + 4 + Len(log[i].data)
      /\ Start(i + 1) <= Start(j) /\ Start(j) \in Nat
  BY <1>1, StartFacts
<1> QED BY <1>2
----------------------------------------------------------------------------
(* The initial states, and the steps of push *)

\* The empty ring, whatever is in the buffer.
LEMMA InitInv == Init => Inv
<1> SUFFICES ASSUME Init PROVE Inv
  OBVIOUS
<1>1. TypeOK
  <2>1. buf \in [Cells -> Byte]
    BY GarbageAssumption DEF Init
  <2>2. << >> \in Seq(Byte) /\ << >> \in Seq(Record) /\ Len(<< >>) = 0
    OBVIOUS
  <2> QED BY <2>1, <2>2, CapacityAssumption, MaxPushAssumption DEF Init, TypeOK
<1>2. log = << >> /\ Len(log) = 0 /\ taken = 0 /\ head = 0
  BY DEF Init
<1>3. Start(1) = 0
  BY <1>2 DEF Start
<1>4. Cursors
  BY CapacityAssumption DEF Init, Cursors
<1>5. Layout
  BY <1>2, <1>3 DEF Init, Layout
<1>6. Contents /\ InHand
  BY <1>2 DEF Init, Contents, InHand
<1> QED BY <1>1, <1>4, <1>5, <1>6 DEF Inv

\* A record that does not fit is dropped.
LEMMA PushDropInv ==
  ASSUME Inv, NEW p \in Payloads, NEW t \in tails, PushDrop(p, t)
  PROVE  Inv'
<1> USE DEF PushDrop
<1>1. TypeOK'
  <2>1. dropped' \in Nat
    BY DEF Inv, TypeOK
  <2>2. pushes' \in 0 .. MaxPush
    BY MaxPushAssumption DEF Inv, TypeOK
  <2>3. tails' \subseteq Nat
    BY DEF Inv, TypeOK
  <2> QED BY <2>1, <2>2, <2>3 DEF Inv, TypeOK
<1>2. Cursors'
  BY DEF Inv, Cursors
<1>3. Layout'
  BY DEF Inv, Layout, Start
<1>4. Contents'
  BY DEF Inv, Contents, Stored
<1>5. InHand'
  BY DEF Inv, InHand, Start
<1> QED BY <1>1, <1>2, <1>3, <1>4, <1>5 DEF Inv

\* A record that fits behind some tail, old or not, fits behind the real one.
LEMMA PushBeginInv ==
  ASSUME Inv, NEW p \in Payloads, NEW t \in tails, PushBegin(p, t)
  PROVE  Inv'
<1> USE DEF PushBegin
<1>1. head \in Nat /\ t \in Nat /\ tail \in Nat /\ t <= tail /\ tail <= head
      /\ Len(p) \in Nat /\ Capacity \in Nat
  BY PayloadsAssumption, CapacityAssumption DEF Inv, TypeOK, Cursors
<1>2. head - t \in 0 .. Capacity /\ head + Need(p) <= tail + Capacity
  BY <1>1 DEF Fits, Need
<1>3. TypeOK'
  <2>1. high_water' \in 0 .. Capacity
    BY <1>2 DEF Inv, TypeOK
  <2>2. pushes' \in 0 .. MaxPush
    BY MaxPushAssumption DEF Inv, TypeOK
  <2>3. tails' \subseteq Nat
    BY DEF Inv, TypeOK
  <2> QED BY <2>1, <2>2, <2>3 DEF Inv, TypeOK
<1>4. Cursors'
  BY <1>2 DEF Inv, Cursors
<1>5. Layout'
  BY DEF Inv, Layout, Start
<1>6. Contents'
  BY DEF Inv, Contents, Stored
<1>7. InHand'
  BY DEF Inv, InHand, Start
<1> QED BY <1>3, <1>4, <1>5, <1>6, <1>7 DEF Inv

\* What push writes at or behind head, within a lap of tail, leaves every
\* record not yet taken as it is.
LEMMA RecordsSurvive ==
  ASSUME Inv, NEW at \in Nat, NEW s \in Seq(Byte),
         head <= at, at + Len(s) <= tail + Capacity,
         NEW i \in taken + 1 .. Len(log)
  PROVE  /\ Stored(write(buf, at, s), log[i].at, Prefix(Len(log[i].data)))
         /\ Stored(write(buf, at, s), log[i].at + 4, log[i].data)
<1> DEFINE r == log[i]
<1>1. TypeOK /\ Layout /\ Contents
  BY DEF Inv
<1>2. /\ Len(log) \in Nat /\ taken \in Nat /\ taken <= Len(log)
      /\ i \in 1 .. Len(log) /\ taken + 1 \in 1 .. Len(log) + 1 /\ i \in 1 .. Len(log) + 1
      /\ i + 1 \in 1 .. Len(log) + 1
  BY <1>1, StartFacts
<1>3. /\ r.at \in Nat /\ r.data \in Seq(Byte) /\ Len(r.data) \in Nat
      /\ Len(r.data) < LengthLimit
      /\ Start(i) = r.at /\ Start(i + 1) = r.at + 4 + Len(r.data)
  BY <1>1, <1>2, StartFacts
<1>4. Start(i + 1) <= head
  BY <1>1, <1>2, StartFacts
<1>5. tail = Start(taken + 1) /\ tail \in Nat /\ head \in Nat
  BY <1>1 DEF Layout, TypeOK
<1>6. tail <= r.at
  <2>1. CASE i = taken + 1
    BY <2>1, <1>3, <1>5
  <2>2. CASE taken + 1 < i
    <3>1. Start(taken + 1) + 4 <= Start(i)
      BY <2>2, <1>1, <1>2, StartIncreases
    <3> HIDE DEF r
    <3> QED BY <3>1, <1>3, <1>5
  <2> QED BY <2>1, <2>2, <1>2
<1>7. /\ Prefix(Len(r.data)) \in Seq(Byte) /\ Len(Prefix(Len(r.data))) = 4
  BY <1>3, PrefixFacts
<1>8. Capacity \in Nat /\ Len(s) \in Nat
  BY CapacityAssumption
<1>9. buf \in [Cells -> Byte]
  BY <1>1 DEF TypeOK
<1>10. Stored(buf, r.at, Prefix(Len(r.data))) /\ Stored(buf, r.at + 4, r.data)
  BY <1>1 DEF Contents
<1>11. /\ r.at + 4 <= at /\ at + Len(s) <= r.at + Capacity
       /\ (r.at + 4) + Len(r.data) <= at /\ at + Len(s) <= (r.at + 4) + Capacity
  <2>1. \A a, l, k \in Nat :
          a + 4 + l <= head /\ tail <= a /\ at + k <= tail + Capacity
            => /\ a + 4 <= at /\ at + k <= a + Capacity
               /\ (a + 4) + l <= at /\ at + k <= (a + 4) + Capacity
    BY <1>5, <1>8
  <2>2. r.at + 4 + Len(r.data) <= head
    BY <1>3, <1>4
  <2> HIDE DEF r
  <2> QED BY <2>1, <2>2, <1>3, <1>6, <1>8
<1>12. Stored(write(buf, at, s), r.at, Prefix(Len(r.data)))
  <2>1. r.at + Len(Prefix(Len(r.data))) <= at /\ at + Len(s) <= r.at + Capacity
    BY <1>11, <1>7
  <2> HIDE DEF r
  <2> QED BY <2>1, <1>3, <1>7, <1>9, <1>10, WriteFrame
<1>13. Stored(write(buf, at, s), r.at + 4, r.data)
  <2>1. r.at + 4 \in Nat /\ (r.at + 4) + Len(r.data) <= at
        /\ at + Len(s) <= (r.at + 4) + Capacity
    BY <1>3, <1>11
  <2> HIDE DEF r
  <2> QED BY <2>1, <1>3, <1>9, <1>10, WriteFrame
<1> QED BY <1>12, <1>13

\* Writing the length prefix.
LEMMA PushPrefixInv == Inv /\ PushPrefix => Inv'
<1> SUFFICES ASSUME Inv, PushPrefix PROVE Inv'
  OBVIOUS
<1> DEFINE s == Prefix(Len(pdata))
<1>1. /\ head \in Nat /\ tail \in Nat /\ tail <= head /\ Capacity \in Nat
      /\ pdata \in Payloads /\ head + Need(pdata) <= tail + Capacity
      /\ buf \in [Cells -> Byte]
  BY CapacityAssumption DEF Inv, TypeOK, Cursors, PushPrefix
<1>2. pdata \in Seq(Byte) /\ Len(pdata) \in Nat /\ Len(pdata) < LengthLimit
  BY <1>1, PayloadsAssumption
<1>3. s \in Seq(Byte) /\ Len(s) = 4
  BY <1>2, PrefixFacts
<1>4. head + Len(s) <= tail + Capacity /\ Len(s) <= Capacity
  BY <1>1, <1>2, <1>3 DEF Need
<1>5. buf' = write(buf, head, s)
  BY DEF PushPrefix
<1> HIDE DEF s
<1>6. buf' \in [Cells -> Byte] /\ Stored(buf', head, s)
  BY <1>1, <1>3, <1>4, <1>5, WriteStores
<1>7. TypeOK'
  BY <1>6 DEF Inv, TypeOK, PushPrefix, consVars
<1>8. Cursors'
  BY DEF Inv, Cursors, PushPrefix, consVars
<1>9. Layout'
  BY DEF Inv, Layout, Start, PushPrefix, consVars
<1>10. Contents'
  <2>1. ASSUME NEW i \in taken + 1 .. Len(log)
        PROVE  /\ Stored(buf', log[i].at, Prefix(Len(log[i].data)))
               /\ Stored(buf', log[i].at + 4, log[i].data)
    <3>1. head <= head
      BY <1>1
    <3> QED BY <3>1, <1>1, <1>3, <1>4, <1>5, RecordsSurvive
  <2>2. /\ taken' = taken /\ log' = log /\ ppc' = "payload" /\ head' = head
        /\ pdata' = pdata
    BY DEF PushPrefix, consVars
  <2> QED BY <1>6, <2>1, <2>2 DEF Contents, s
<1>11. InHand'
  BY DEF Inv, InHand, Start, PushPrefix, consVars
<1> QED BY <1>7, <1>8, <1>9, <1>10, <1>11 DEF Inv

\* Writing the payload behind it.
LEMMA PushPayloadInv == Inv /\ PushPayload => Inv'
<1> SUFFICES ASSUME Inv, PushPayload PROVE Inv'
  OBVIOUS
<1>1. /\ head \in Nat /\ tail \in Nat /\ tail <= head /\ Capacity \in Nat
      /\ pdata \in Payloads /\ head + Need(pdata) <= tail + Capacity
      /\ buf \in [Cells -> Byte]
  BY CapacityAssumption DEF Inv, TypeOK, Cursors, PushPayload
<1>2. pdata \in Seq(Byte) /\ Len(pdata) \in Nat /\ Len(pdata) < LengthLimit
  BY <1>1, PayloadsAssumption
<1>3. /\ head + 4 \in Nat /\ head <= head + 4
      /\ (head + 4) + Len(pdata) <= tail + Capacity /\ Len(pdata) <= Capacity
      /\ (head + 4) + Len(pdata) <= head + Capacity
  BY <1>1, <1>2 DEF Need
<1>4. buf' = write(buf, head + 4, pdata)
  BY DEF PushPayload
<1>5. buf' \in [Cells -> Byte] /\ Stored(buf', head + 4, pdata)
  BY <1>1, <1>2, <1>3, <1>4, WriteStores
<1>6. Stored(buf', head, Prefix(Len(pdata)))
  <2>1. Stored(buf, head, Prefix(Len(pdata)))
    BY DEF Inv, Contents, PushPayload
  <2>2. Prefix(Len(pdata)) \in Seq(Byte) /\ Len(Prefix(Len(pdata))) = 4
    BY <1>2, PrefixFacts
  <2>3. head + Len(Prefix(Len(pdata))) <= head + 4
    BY <1>1, <2>2
  <2> QED BY <2>1, <2>2, <2>3, <1>1, <1>2, <1>3, <1>4, WriteFrame
<1>7. TypeOK'
  BY <1>5 DEF Inv, TypeOK, PushPayload, consVars
<1>8. Cursors'
  BY DEF Inv, Cursors, PushPayload, consVars
<1>9. Layout'
  BY DEF Inv, Layout, Start, PushPayload, consVars
<1>10. Contents'
  <2>1. ASSUME NEW i \in taken + 1 .. Len(log)
        PROVE  /\ Stored(buf', log[i].at, Prefix(Len(log[i].data)))
               /\ Stored(buf', log[i].at + 4, log[i].data)
    BY <1>2, <1>3, <1>4, RecordsSurvive
  <2>2. /\ taken' = taken /\ log' = log /\ ppc' = "publish" /\ head' = head
        /\ pdata' = pdata
    BY DEF PushPayload, consVars
  <2> QED BY <1>5, <1>6, <2>1, <2>2 DEF Contents
<1>11. InHand'
  BY DEF Inv, InHand, Start, PushPayload, consVars
<1> QED BY <1>7, <1>8, <1>9, <1>10, <1>11 DEF Inv

\* Publishing: the record in hand becomes the last of the log, and begins
\* where head was.
LEMMA PushPublishInv == Inv /\ PushPublish => Inv'
<1> SUFFICES ASSUME Inv, PushPublish PROVE Inv'
  OBVIOUS
<1> DEFINE r == [at |-> head, data |-> pdata]
<1>0. PICK n \in Nat, k0 \in Nat : n = Len(log) /\ k0 = taken /\ k0 <= n
  BY StartFacts DEF Inv
<1>1. /\ head \in Nat /\ tail \in Nat /\ tail <= head /\ Capacity \in Nat
      /\ pdata \in Payloads /\ head + Need(pdata) <= tail + Capacity
      /\ log \in Seq(Record) /\ TypeOK /\ Layout
  BY CapacityAssumption DEF Inv, TypeOK, Cursors, PushPublish
<1>2. pdata \in Seq(Byte) /\ Len(pdata) \in Nat /\ Need(pdata) \in Nat /\ 4 <= Need(pdata)
  BY <1>1, PayloadsAssumption DEF Need
<1>3. r \in Record
  BY <1>1 DEF Record
<1>4. n \in Nat /\ n = Len(log) /\ taken = k0 /\ k0 \in Nat /\ k0 <= n /\ taken' = k0
  BY <1>0 DEF PushPublish, consVars
<1>5. /\ log' = Append(log, r) /\ log' \in Seq(Record) /\ Len(log') = n + 1
      /\ \A i \in 1 .. n : log'[i] = log[i]
      /\ log'[n + 1] = r
  BY <1>1, <1>3, <1>4 DEF PushPublish
<1>6. head' = head + Need(pdata) /\ head' \in Nat /\ head < head'
  BY <1>1, <1>2 DEF PushPublish
<1>7. ASSUME NEW i \in 1 .. n + 1 PROVE Start(i)' = Start(i)
  <2>1. CASE i = n + 1
    BY <2>1, <1>4, <1>5 DEF Start
  <2>2. CASE i \in 1 .. n
    BY <2>2, <1>4, <1>5 DEF Start
  <2> QED BY <2>1, <2>2, <1>4
<1>8. Start(n + 2)' = head'
  BY <1>4, <1>5 DEF Start
<1>9. TypeOK'
  <2>1. << >> \in Payloads \cup {<< >>}
    OBVIOUS
  <2>2. taken' \in 0 .. Len(log')
    BY <1>4, <1>5 DEF PushPublish, consVars
  <2> QED BY <2>1, <2>2, <1>5, <1>6 DEF Inv, TypeOK, PushPublish, consVars
<1>10. Cursors'
  BY <1>1, <1>2, <1>6 DEF Inv, Cursors, PushPublish, consVars
<1>11. Layout'
  <2>1. ASSUME NEW i \in 1 .. n + 1
        PROVE  /\ Start(i + 1)' = log'[i].at + Need(log'[i].data)
               /\ Start(i + 1)' <= head'
    <3>1. CASE i = n + 1
      <4>1. i + 1 = n + 2 /\ log'[i].at = head /\ log'[i].data = pdata
        BY <3>1, <1>4, <1>5
      <4> QED BY <4>1, <1>6, <1>8
    <3>2. CASE i \in 1 .. n
      <4>1. i + 1 \in 1 .. n + 1 /\ i + 1 \in 1 .. Len(log) + 1
        BY <3>2, <1>4
      <4>2. /\ Start(i + 1) = log[i].at + Need(log[i].data)
            /\ Start(i + 1) <= head /\ Start(i + 1) \in Nat
        BY <3>2, <4>1, <1>1, StartFacts DEF Layout
      <4> QED BY <4>1, <4>2, <3>2, <1>1, <1>5, <1>6, <1>7
    <3> QED BY <3>1, <3>2, <1>4
  <2>2. ASSUME NEW i \in 1 .. n + 1, NEW j \in 1 .. n + 1, i < j
        PROVE  Start(i + 1)' <= log'[j].at
    <3>1. i \in 1 .. n /\ i + 1 \in 1 .. n + 1
      BY <2>2, <1>4
    <3>2. Start(i + 1)' = Start(i + 1)
      BY <3>1, <1>7
    <3>3. CASE j = n + 1
      <4>1. Start(i + 1) <= head
        BY <3>1, <1>1, <1>4 DEF Layout
      <4> QED BY <4>1, <3>2, <3>3, <1>5
    <3>4. CASE j \in 1 .. n
      <4>1. Start(i + 1) <= log[j].at
        BY <3>1, <3>4, <2>2, <1>1, <1>4 DEF Layout
      <4> QED BY <4>1, <3>2, <3>4, <1>5
    <3> QED BY <3>3, <3>4, <1>4
  <2>3. tail' = Start(taken + 1)'
    <3>1. k0 + 1 \in 1 .. n + 1
      BY <1>4
    <3>2. Start(k0 + 1)' = Start(k0 + 1)
      BY <3>1, <1>7
    <3>3. tail' = Start(k0 + 1)
      BY <1>1, <1>4 DEF Layout, PushPublish, consVars
    <3> QED BY <3>2, <3>3, <1>4
  <2>4. ASSUME NEW h \in heads' PROVE \E k \in k0 .. n + 1 : h = Start(k + 1)'
    <3>1. CASE h = head'
      <4>1. n + 1 \in k0 .. n + 1 /\ (n + 1) + 1 = n + 2
        BY <1>4
      <4>2. h = Start((n + 1) + 1)'
        BY <4>1, <3>1, <1>8
      <4> QED BY <4>1, <4>2
    <3>2. CASE h \in heads
      <4>1. PICK k \in k0 .. n : h = Start(k + 1)
        BY <3>2, <1>1, <1>4 DEF Layout
      <4>2. k + 1 \in 1 .. n + 1 /\ k \in k0 .. n + 1
        BY <1>4
      <4> QED BY <4>1, <4>2, <1>7
    <3> QED BY <3>1, <3>2 DEF PushPublish
  <2>5. \A h \in heads' : \E k \in taken' .. Len(log') : h = Start(k + 1)'
    BY <2>4, <1>4, <1>5
  <2> QED BY <2>1, <2>2, <2>3, <2>5, <1>5 DEF Layout
<1>12. Contents'
  <2>1. ASSUME NEW i \in taken + 1 .. n + 1
        PROVE  /\ Stored(buf, log'[i].at, Prefix(Len(log'[i].data)))
               /\ Stored(buf, log'[i].at + 4, log'[i].data)
    <3>1. CASE i = n + 1
      BY <3>1, <1>5 DEF Inv, Contents, PushPublish
    <3>2. CASE i \in taken + 1 .. n
      <4>1. log'[i] = log[i]
        BY <3>2, <1>4, <1>5
      <4> QED BY <4>1, <3>2, <1>4 DEF Inv, Contents
    <3> QED BY <3>1, <3>2, <1>4
  <2>2. buf' = buf /\ taken' = taken /\ ppc' = "idle"
    BY DEF PushPublish, consVars
  <2> QED BY <2>1, <2>2, <1>5 DEF Contents
<1>13. InHand'
  <2>1. /\ cpc' = cpc /\ chead' = chead /\ clen' = clen /\ cdata' = cdata
        /\ taken' = taken
    BY DEF PushPublish, consVars
  <2>2. CASE cpc = "idle"
    BY <2>1, <2>2 DEF InHand
  <2>3. CASE cpc # "idle"
    <3>1. PICK k \in taken + 1 .. n : chead = Start(k + 1)
      BY <2>3, <1>4 DEF Inv, InHand
    <3>2. /\ k + 1 \in 1 .. n + 1 /\ k \in taken + 1 .. n + 1
          /\ taken + 1 \in 1 .. n
      BY <1>4, <3>1
    <3>3. chead = Start(k + 1)'
      BY <3>1, <3>2, <1>7
    <3>4. chead <= head /\ chead \in Nat
      BY <3>1, <3>2, <1>1, <1>4, StartFacts
    <3>5. \A h \in heads' : chead <= h
      BY <2>3, <3>4, <1>1, <1>6 DEF Inv, InHand, PushPublish
    <3>6. log'[taken + 1] = log[taken + 1]
      BY <3>2, <1>5
    <3>7. \E m \in taken' + 1 .. Len(log') : chead' = Start(m + 1)'
      BY <3>2, <3>3, <2>1, <1>5
    <3> QED BY <3>5, <3>6, <3>7, <2>1, <2>3 DEF Inv, InHand
  <2> QED BY <2>2, <2>3
<1> QED BY <1>9, <1>10, <1>11, <1>12, <1>13 DEF Inv

----------------------------------------------------------------------------
(* The steps of pop *)

\* A consumer that is at work has an oldest record in front of it, which fits
\* the ring and lies at tail.
LEMMA Oldest ==
  ASSUME Inv, cpc # "idle"
  PROVE  LET r == log[taken + 1]
         IN  /\ taken + 1 \in 1 .. Len(log)
             /\ r.data \in Seq(Byte) /\ Len(r.data) \in Nat /\ Len(r.data) < LengthLimit
             /\ tail = r.at /\ tail \in Nat
             /\ Start((taken + 1) + 1) = tail + 4 + Len(r.data)
             /\ 4 <= Capacity /\ Len(r.data) <= Capacity
             /\ Stored(buf, tail, Prefix(Len(r.data)))
             /\ Stored(buf, tail + 4, r.data)
<1> DEFINE r == log[taken + 1]
<1>1. TypeOK /\ Layout /\ Contents /\ Cursors
  BY DEF Inv
<1>2. Len(log) \in Nat /\ taken \in Nat
  BY <1>1, StartFacts
<1>3. PICK n \in taken + 1 .. Len(log) : chead = Start(n + 1)
  BY DEF Inv, InHand
<1>4. taken + 1 \in 1 .. Len(log) /\ taken + 1 \in taken + 1 .. Len(log)
  BY <1>2, <1>3
<1>5. /\ r.at \in Nat /\ r.data \in Seq(Byte) /\ Len(r.data) \in Nat
      /\ Len(r.data) < LengthLimit
      /\ Start(taken + 1) = r.at
      /\ Start((taken + 1) + 1) = r.at + 4 + Len(r.data)
  BY <1>1, <1>4, StartFacts
<1>6. tail = r.at
  BY <1>1, <1>5 DEF Layout
<1>7. Start((taken + 1) + 1) <= head
  BY <1>1, <1>4 DEF Layout
<1>8. head \in Nat /\ Capacity \in Nat /\ head <= tail + Capacity
  <2>1. head \in Nat /\ tail \in Nat /\ Capacity \in Nat
    BY <1>1, CapacityAssumption DEF TypeOK
  <2>2. CASE ppc = "idle"
    BY <2>1, <2>2, <1>1 DEF Cursors
  <2>3. CASE ppc # "idle"
    <3>1. pdata \in Payloads /\ head + Need(pdata) <= tail + Capacity
      BY <2>3, <1>1 DEF Cursors
    <3>2. Need(pdata) \in Nat
      BY <3>1, PayloadsAssumption DEF Need
    <3> QED BY <2>1, <3>1, <3>2
  <2> QED BY <2>2, <2>3
<1>9. 4 <= Capacity /\ Len(r.data) <= Capacity
  <2>1. \A a, l \in Nat : a + 4 + l <= head /\ head <= a + Capacity
                            => 4 <= Capacity /\ l <= Capacity
    BY <1>8
  <2>2. r.at + 4 + Len(r.data) <= head /\ head <= r.at + Capacity
    BY <1>5, <1>6, <1>7, <1>8
  <2> HIDE DEF r
  <2> QED BY <2>1, <2>2, <1>5
<1>10. /\ Stored(buf, r.at, Prefix(Len(r.data)))
       /\ Stored(buf, r.at + 4, r.data)
  BY <1>1, <1>4 DEF Contents
<1> QED BY <1>4, <1>5, <1>6, <1>9, <1>10

\* The consumer leaves the records up to m behind, none of which lies beyond
\* the head it has loaded.
LEMMA ConsumerAdvances ==
  ASSUME Inv, cpc # "idle",
         NEW m \in taken + 1 .. Len(log), Start(m + 1) <= chead,
         UNCHANGED <<buf, prodVars>>,
         tail' = Start(m + 1), tails' = tails \cup {tail'}, taken' = m, cpc' = "idle"
  PROVE  /\ tail' \in Nat /\ taken' \in 0 .. Len(log') /\ tails' \subseteq Nat
         /\ Cursors' /\ Layout' /\ Contents' /\ InHand'
<1>1. TypeOK /\ Layout /\ Contents /\ Cursors
  BY DEF Inv
<1>2. Len(log) \in Nat /\ taken \in Nat /\ taken <= Len(log)
  BY <1>1, StartFacts
<1>3. /\ m \in 1 .. Len(log) /\ m + 1 \in 1 .. Len(log) + 1
      /\ taken + 1 \in 1 .. Len(log) + 1 /\ taken + 1 < m + 1
  BY <1>2
<1>4. UNCHANGED <<buf, head, heads, ppc, pdata, log>>
  BY DEF prodVars
<1>5. Start(m + 1) \in Nat /\ Start(m + 1) <= head /\ tail \in Nat /\ head \in Nat
  BY <1>1, <1>3, StartFacts DEF TypeOK
<1>6. tail + 4 <= Start(m + 1)
  <2>1. Start(taken + 1) + 4 <= Start(m + 1)
    BY <1>1, <1>3, StartIncreases
  <2> QED BY <2>1, <1>1 DEF Layout
<1>7. /\ tail' \in Nat /\ taken' \in 0 .. Len(log') /\ tails' \subseteq Nat
  <2>1. tail' \in Nat /\ tails \subseteq Nat
    BY <1>1, <1>5 DEF TypeOK
  <2>2. taken' \in 0 .. Len(log')
    BY <1>2, <1>3, <1>4
  <2> QED BY <2>1, <2>2
<1>8. Cursors'
  <2>1. \A t \in tails' : t <= tail'
    <3>1. \A t \in tails : t \in Nat /\ t <= tail
      BY <1>1 DEF Cursors, TypeOK
    <3> QED BY <3>1, <1>5, <1>6
  <2>2. tail' <= head'
    BY <1>4, <1>5
  <2>3. CASE ppc = "idle"
    <3>1. head <= tail + Capacity
      BY <2>3, <1>1 DEF Cursors
    <3>2. head <= tail' + Capacity
      BY <3>1, <1>5, <1>6, CapacityAssumption
    <3> QED BY <2>1, <2>2, <2>3, <3>2, <1>4 DEF Cursors
  <2>4. CASE ppc # "idle"
    <3>1. pdata \in Payloads /\ head + Need(pdata) <= tail + Capacity
      BY <2>4, <1>1 DEF Cursors
    <3>2. Need(pdata) \in Nat
      BY <3>1, PayloadsAssumption DEF Need
    <3>3. head + Need(pdata) <= tail' + Capacity
      BY <3>1, <3>2, <1>5, <1>6, CapacityAssumption
    <3> QED BY <2>1, <2>2, <2>4, <3>1, <3>3, <1>4 DEF Cursors, Need
  <2> QED BY <2>3, <2>4
<1>9. \A i : Start(i)' = Start(i)
  BY <1>4 DEF Start
<1>10. Layout'
  <2>1. ASSUME NEW h \in heads PROVE \E k \in m .. Len(log) : h = Start(k + 1)
    <3>1. PICK k \in taken .. Len(log) : h = Start(k + 1)
      BY <1>1 DEF Layout
    <3>2. chead <= h /\ chead \in Nat /\ h \in Nat
      BY <1>1 DEF Inv, InHand, TypeOK
    <3>3. SUFFICES ASSUME k < m PROVE FALSE
      BY <3>1, <1>2, <1>3
    <3>4. k + 1 \in 1 .. Len(log) + 1 /\ k + 1 < m + 1
      BY <3>3, <1>2, <1>3
    <3>5. Start(k + 1) + 4 <= Start(m + 1)
      BY <3>4, <1>1, <1>3, StartIncreases
    <3> QED BY <3>1, <3>2, <3>5, <1>5
  <2>2. tail' = Start(taken + 1)'
    <3>1. tail' = Start(m + 1)'
      BY <1>9
    <3> QED BY <3>1
  <2>3. \A h \in heads' : \E k \in taken' .. Len(log') : h = Start(k + 1)'
    BY <2>1, <1>4, <1>9
  <2>4. \A i \in 1 .. Len(log) :
          /\ Start(i + 1)' = log'[i].at + Need(log'[i].data)
          /\ Start(i + 1)' <= head'
          /\ \A j \in 1 .. Len(log) : i < j => Start(i + 1)' <= log'[j].at
    BY <1>1, <1>4, <1>9 DEF Layout
  <2> QED BY <2>2, <2>3, <2>4, <1>4 DEF Layout
<1>11. Contents'
  <2>1. ASSUME NEW i \in m + 1 .. Len(log) PROVE i \in taken + 1 .. Len(log)
    BY <1>2, <1>3
  <2> QED BY <2>1, <1>1, <1>4 DEF Contents, Stored
<1>12. InHand'
  BY DEF InHand
<1> QED BY <1>7, <1>8, <1>10, <1>11, <1>12

\* pop sees an empty ring.
LEMMA PopEmptyInv ==
  ASSUME Inv, NEW h \in heads, PopEmpty(h)
  PROVE  Inv'
<1> USE DEF PopEmpty, consVars
<1>1. TypeOK'
  <2>1. heads' \subseteq Nat
    BY DEF Inv, TypeOK
  <2> QED BY <2>1 DEF Inv, TypeOK
<1>2. Cursors'
  BY DEF Inv, Cursors
<1>3. Layout'
  BY DEF Inv, Layout, Start
<1>4. Contents'
  BY DEF Inv, Contents, Stored
<1>5. InHand'
  BY DEF Inv, InHand, Start
<1> QED BY <1>1, <1>2, <1>3, <1>4, <1>5 DEF Inv

\* pop loads a head, old or not, that is not its tail: it is a record's start,
\* so at least one whole record lies before it.
LEMMA PopBeginInv ==
  ASSUME Inv, NEW h \in heads, PopBegin(h)
  PROVE  Inv'
<1>1. TypeOK'
  <2>1. heads' \subseteq Nat /\ h \in Nat
    BY DEF Inv, TypeOK, PopBegin
  <2> QED BY <2>1 DEF Inv, TypeOK, PopBegin
<1>2. Cursors'
  BY DEF Inv, Cursors, PopBegin
<1>3. Layout'
  BY DEF Inv, Layout, Start, PopBegin
<1>4. Contents'
  BY DEF Inv, Contents, Stored, PopBegin
<1>5. InHand'
  <2>1. PICK n \in taken .. Len(log) : h = Start(n + 1)
    BY DEF Inv, Layout
  <2>2. n # taken
    BY <2>1 DEF Inv, Layout, PopBegin
  <2>3. Len(log) \in Nat /\ taken \in Nat
    BY StartFacts DEF Inv
  <2>4. n \in taken + 1 .. Len(log)
    BY <2>2, <2>3
  <2>5. Start(n + 1)' = Start(n + 1)
    BY DEF Start, PopBegin
  <2>6. /\ chead' = h /\ cpc' = "prefix" /\ taken' = taken /\ log' = log
        /\ heads' = {u \in heads : u >= h}
    BY DEF PopBegin
  <2>7. \A u \in heads' : chead' <= u
    <3>1. h \in Nat /\ \A u \in heads : u \in Nat
      BY DEF Inv, TypeOK
    <3> QED BY <2>6, <3>1
  <2>8. \E k \in taken' + 1 .. Len(log') : chead' = Start(k + 1)'
    BY <2>1, <2>4, <2>5, <2>6
  <2> QED BY <2>6, <2>7, <2>8 DEF InHand
<1> QED BY <1>1, <1>2, <1>3, <1>4, <1>5 DEF Inv

\* The length read back is the oldest record's.
LEMMA PopPrefixInv == Inv /\ PopPrefix => Inv'
<1> SUFFICES ASSUME Inv, PopPrefix PROVE Inv'
  OBVIOUS
<1> DEFINE d == log[taken + 1].data
<1>1. cpc # "idle"
  BY DEF PopPrefix
<1>2. /\ Len(d) \in Nat /\ Len(d) < LengthLimit /\ tail \in Nat
      /\ 4 <= Capacity /\ Stored(buf, tail, Prefix(Len(d)))
  BY <1>1, Oldest
<1>3. /\ Prefix(Len(d)) \in Seq(Byte) /\ Len(Prefix(Len(d))) = 4
      /\ Length(Prefix(Len(d))) = Len(d)
  BY <1>2, PrefixFacts
<1>4. buf \in [Cells -> Byte]
  BY DEF Inv, TypeOK
<1>5. clen' = Len(d)
  <2> HIDE DEF d
  <2>1. read(buf, tail, Len(Prefix(Len(d)))) = Prefix(Len(d))
    BY <1>2, <1>3, <1>4, ReadStored
  <2> QED BY <2>1, <1>3 DEF PopPrefix
<1>6. TypeOK'
  BY <1>2, <1>5 DEF Inv, TypeOK, PopPrefix, prodVars
<1>7. Cursors'
  BY DEF Inv, Cursors, PopPrefix, prodVars
<1>8. Layout'
  BY DEF Inv, Layout, Start, PopPrefix, prodVars
<1>9. Contents'
  BY DEF Inv, Contents, Stored, PopPrefix, prodVars
<1>10. InHand'
  BY <1>5 DEF Inv, InHand, Start, PopPrefix, prodVars
<1> QED BY <1>6, <1>7, <1>8, <1>9, <1>10 DEF Inv

\* What the bail-out branch skips is a whole number of records.
LEMMA BailSkips ==
  ASSUME Inv, cpc # "idle"
  PROVE  RecordsBefore(chead) \in taken + 1 .. Len(log)
           /\ chead = Start(RecordsBefore(chead) + 1)
<1> DEFINE P(k) == chead = IF k = Len(log) THEN head ELSE log[k + 1].at
<1>1. TypeOK /\ Layout /\ Len(log) \in Nat /\ taken \in Nat
  BY StartFacts DEF Inv
<1>2. \A k \in taken .. Len(log) : P(k) <=> chead = Start(k + 1)
  BY <1>1 DEF Start
<1>3. PICK n \in taken + 1 .. Len(log) : chead = Start(n + 1)
  BY DEF Inv, InHand
<1>4. n \in taken .. Len(log)
  BY <1>1
<1>5. \E k \in taken .. Len(log) : P(k)
  BY <1>2, <1>3, <1>4
<1>6. RecordsBefore(chead) \in taken .. Len(log) /\ P(RecordsBefore(chead))
  BY <1>5 DEF RecordsBefore
<1>7. PICK m \in taken .. Len(log) : m = RecordsBefore(chead)
  BY <1>6
<1>8. chead = Start(m + 1)
  BY <1>2, <1>6, <1>7
<1>9. m # taken
  <2>1. SUFFICES ASSUME m = taken PROVE FALSE
    OBVIOUS
  <2>2. /\ taken + 1 \in 1 .. Len(log) + 1 /\ n + 1 \in 1 .. Len(log) + 1
        /\ taken + 1 < n + 1
    BY <1>1, <1>3
  <2>3. Start(taken + 1) + 4 <= Start(n + 1) /\ Start(n + 1) \in Nat
    BY <2>2, <1>1, StartIncreases, StartFacts
  <2> QED BY <2>1, <2>3, <1>3, <1>8
<1> QED BY <1>1, <1>7, <1>8, <1>9

\* The bail-out branch leaves the ring as a consumer that took those records.
LEMMA PopBailInv == Inv /\ PopBail => Inv'
<1> SUFFICES ASSUME Inv, PopBail PROVE Inv'
  OBVIOUS
<1>1. cpc # "idle"
  BY DEF PopBail
<1>2. PICK m \in taken + 1 .. Len(log) : m = RecordsBefore(chead) /\ chead = Start(m + 1)
  BY <1>1, BailSkips
<1>3. chead \in Nat
  BY DEF Inv, TypeOK
<1>4. /\ tail' = Start(m + 1) /\ tails' = tails \cup {tail'} /\ taken' = m
      /\ cpc' = "idle" /\ Start(m + 1) <= chead /\ UNCHANGED <<buf, prodVars>>
  BY <1>2, <1>3 DEF PopBail
<1>5. /\ tail' \in Nat /\ taken' \in 0 .. Len(log') /\ tails' \subseteq Nat
      /\ Cursors' /\ Layout' /\ Contents' /\ InHand'
  BY <1>1, <1>4, ConsumerAdvances
<1>6. TypeOK'
  BY <1>5 DEF Inv, TypeOK, PopBail, prodVars
<1> QED BY <1>5, <1>6 DEF Inv

\* The payload read back is the oldest record.
LEMMA PopPayloadInv == Inv /\ PopPayload => Inv'
<1> SUFFICES ASSUME Inv, PopPayload PROVE Inv'
  OBVIOUS
<1> DEFINE d == log[taken + 1].data
<1>1. cpc # "idle" /\ cpc = "check"
  BY DEF PopPayload
<1>2. /\ d \in Seq(Byte) /\ Len(d) \in Nat /\ tail \in Nat /\ tail + 4 \in Nat
      /\ Len(d) <= Capacity /\ Stored(buf, tail + 4, d)
  BY <1>1, Oldest
<1>3. clen = Len(d) /\ buf \in [Cells -> Byte]
  BY <1>1 DEF Inv, InHand, TypeOK
<1>4. cdata' = d
  <2> HIDE DEF d
  <2>1. read(buf, tail + 4, Len(d)) = d
    BY <1>2, <1>3, ReadStored
  <2> QED BY <2>1, <1>3 DEF PopPayload
<1>5. TypeOK'
  BY <1>2, <1>4 DEF Inv, TypeOK, PopPayload, prodVars
<1>6. Cursors'
  BY DEF Inv, Cursors, PopPayload, prodVars
<1>7. Layout'
  BY DEF Inv, Layout, Start, PopPayload, prodVars
<1>8. Contents'
  BY DEF Inv, Contents, Stored, PopPayload, prodVars
<1>9. InHand'
  BY <1>3, <1>4 DEF Inv, InHand, Start, PopPayload, prodVars
<1> QED BY <1>5, <1>6, <1>7, <1>8, <1>9 DEF Inv

\* Releasing the record moves tail to the start of the next.
LEMMA PopReleaseInv == Inv /\ PopRelease => Inv'
<1> SUFFICES ASSUME Inv, PopRelease PROVE Inv'
  OBVIOUS
<1>1. cpc # "idle" /\ cpc = "release"
  BY DEF PopRelease
<1>2. PICK m \in taken + 1 .. Len(log) : m = taken + 1
  BY <1>1, Oldest, StartFacts DEF Inv
<1>3. clen = Len(log[taken + 1].data)
  BY <1>1 DEF Inv, InHand
<1>4. tail' = Start(m + 1)
  BY <1>1, <1>2, <1>3, Oldest DEF PopRelease
<1>5. Start(m + 1) <= chead
  <2>1. Len(log) \in Nat /\ taken \in Nat /\ TypeOK /\ Layout
    BY StartFacts DEF Inv
  <2>2. PICK n \in taken + 1 .. Len(log) : chead = Start(n + 1)
    BY <1>1 DEF Inv, InHand
  <2>3. m + 1 \in 1 .. Len(log) + 1 /\ n + 1 \in 1 .. Len(log) + 1
    BY <2>1, <1>2
  <2>4. Start(m + 1) \in Nat /\ Start(n + 1) \in Nat
    BY <2>1, <2>3, StartFacts
  <2>5. CASE n = m
    BY <2>2, <2>4, <2>5
  <2>6. CASE m + 1 < n + 1
    <3>1. Start(m + 1) + 4 <= Start(n + 1)
      BY <2>1, <2>3, <2>6, StartIncreases
    <3> QED BY <3>1, <2>2, <2>4
  <2> QED BY <2>1, <2>5, <2>6, <1>2
<1>6. /\ tails' = tails \cup {tail'} /\ taken' = m
      /\ cpc' = "idle" /\ UNCHANGED <<buf, prodVars>>
  BY <1>2 DEF PopRelease
<1>7. /\ tail' \in Nat /\ taken' \in 0 .. Len(log') /\ tails' \subseteq Nat
      /\ Cursors' /\ Layout' /\ Contents' /\ InHand'
  BY <1>1, <1>4, <1>5, <1>6, ConsumerAdvances
<1>8. TypeOK'
  <2>1. << >> \in Seq(Byte) /\ cdata \in Seq(Byte)
    BY DEF Inv, TypeOK
  <2> QED BY <2>1, <1>7 DEF Inv, TypeOK, PopRelease, prodVars
<1> QED BY <1>7, <1>8 DEF Inv

----------------------------------------------------------------------------
(* The theorems *)

\* Every step of either thread keeps the invariant.
LEMMA NextInv == Inv /\ [Next]_vars => Inv'
<1> SUFFICES ASSUME Inv, [Next]_vars PROVE Inv'
  OBVIOUS
<1>1. CASE Push
  <2>1. ASSUME NEW p \in Payloads, NEW t \in tails, PushDrop(p, t) \/ PushBegin(p, t)
        PROVE  Inv'
    BY <2>1, PushDropInv, PushBeginInv
  <2> QED BY <1>1, <2>1, PushPrefixInv, PushPayloadInv, PushPublishInv DEF Push
<1>2. CASE Pop
  <2>1. ASSUME NEW h \in heads, PopEmpty(h) \/ PopBegin(h)
        PROVE  Inv'
    BY <2>1, PopEmptyInv, PopBeginInv
  <2> QED BY <1>2, <2>1, PopPrefixInv, PopBailInv, PopPayloadInv, PopReleaseInv DEF Pop
<1>3. CASE UNCHANGED vars
  <2> USE <1>3 DEF vars, prodVars, consVars
  <2>1. TypeOK'
    BY DEF Inv, TypeOK
  <2>2. Cursors'
    BY DEF Inv, Cursors
  <2>3. Layout'
    BY DEF Inv, Layout, Start
  <2>4. Contents'
    BY DEF Inv, Contents, Stored
  <2>5. InHand'
    BY DEF Inv, InHand, Start
  <2> QED BY <2>1, <2>2, <2>3, <2>4, <2>5 DEF Inv
<1> QED BY <1>1, <1>2, <1>3 DEF Next

\* The invariant holds in every state push and pop can bring the ring into,
\* for every capacity and every set of records.
THEOREM Invariance == Spec => []Inv
<1> QED BY InitInv, NextInv, PTL DEF Spec

\* Every variable of the ring keeps its type; high_water never passes the
\* capacity.
THEOREM TypeCorrect == Spec => []TypeOK
<1>1. Inv => TypeOK
  BY DEF Inv
<1> QED BY <1>1, Invariance, PTL

\* What push is about to write lies between head and a lap behind tail.
LEMMA WritingFree ==
  ASSUME Inv, NEW c \in Writing
  PROVE  \E y \in Nat : head <= y /\ y < tail + Capacity /\ c = y % Capacity
<1>1. ppc \in {"prefix", "payload"}
  BY DEF Writing
<1>2. /\ head \in Nat /\ tail \in Nat /\ Capacity \in Nat
      /\ pdata \in Payloads /\ head + Need(pdata) <= tail + Capacity
  BY <1>1, CapacityAssumption DEF Inv, TypeOK, Cursors
<1>3. Len(pdata) \in Nat /\ head + 4 + Len(pdata) <= tail + Capacity
  BY <1>2, PayloadsAssumption DEF Need
<1>4. CASE ppc = "prefix"
  <2>1. PICK i \in 0 .. 4 - 1 : c = (head + i) % Capacity
    BY <1>4 DEF Writing, Touched
  <2>2. head + i \in Nat /\ head <= head + i /\ head + i < tail + Capacity
    BY <1>2, <1>3
  <2> QED BY <2>1, <2>2
<1>5. CASE ppc = "payload"
  <2>1. PICK i \in 0 .. Len(pdata) - 1 : c = ((head + 4) + i) % Capacity
    BY <1>5 DEF Writing, Touched
  <2>2. (head + 4) + i \in Nat /\ head <= (head + 4) + i /\ (head + 4) + i < tail + Capacity
    BY <1>2, <1>3
  <2> QED BY <2>1, <2>2
<1> QED BY <1>1, <1>4, <1>5

\* What pop is about to read lies between tail and head.
LEMMA ReadingOwned ==
  ASSUME Inv, NEW c \in Reading
  PROVE  \E x \in Nat : tail <= x /\ x < head /\ c = x % Capacity
<1> DEFINE d == log[taken + 1].data
<1>1. cpc \in {"prefix", "check"} /\ cpc # "idle"
  BY DEF Reading
<1>2. /\ tail \in Nat /\ head \in Nat /\ Len(d) \in Nat
      /\ Start((taken + 1) + 1) = tail + 4 + Len(d) /\ taken + 1 \in 1 .. Len(log)
  BY <1>1, Oldest DEF Inv, TypeOK
<1>3. Start((taken + 1) + 1) <= head
  BY <1>2 DEF Inv, Layout
<1>4. CASE cpc = "prefix"
  <2>1. PICK i \in 0 .. 4 - 1 : c = (tail + i) % Capacity
    BY <1>4 DEF Reading, Touched
  <2>2. tail + i \in Nat /\ tail <= tail + i /\ tail + i < head
    <3> HIDE DEF d
    <3> QED BY <1>2, <1>3
  <2> QED BY <2>1, <2>2
<1>5. CASE cpc = "check"
  <2>1. clen = Len(d)
    BY <1>5 DEF Inv, InHand
  <2>2. PICK i \in 0 .. clen - 1 : c = ((tail + 4) + i) % Capacity
    BY <1>5 DEF Reading, Touched
  <2>3. (tail + 4) + i \in Nat /\ tail <= (tail + 4) + i /\ (tail + 4) + i < head
    <3> HIDE DEF d
    <3> QED BY <2>1, <1>2, <1>3
  <2> QED BY <2>2, <2>3
<1> QED BY <1>1, <1>4, <1>5

\* The two threads never access the same byte of buf_ at the same time: what
\* push writes and what pop reads lie less than a lap apart.
THEOREM RaceFree == Spec => []NoDataRace
<1>1. Inv => NoDataRace
  <2> SUFFICES ASSUME Inv, NEW c \in Writing, c \in Reading PROVE FALSE
    BY DEF NoDataRace
  <2>1. PICK y \in Nat : head <= y /\ y < tail + Capacity /\ c = y % Capacity
    BY WritingFree
  <2>2. PICK x \in Nat : tail <= x /\ x < head /\ c = x % Capacity
    BY ReadingOwned
  <2>3. head \in Nat /\ tail \in Nat /\ Capacity \in Nat
    BY CapacityAssumption DEF Inv, TypeOK
  <2>4. x < y /\ y - x < Capacity
    BY <2>1, <2>2, <2>3
  <2> QED BY <2>1, <2>2, <2>4, ModDistinct
<1> QED BY <1>1, Invariance, PTL

\* pop takes its bail-out branch only for a record that is itself empty or too
\* long for the caller's buffer.
THEOREM BailsOnly == Spec => []BailsOnlyOnBadRecord
<1>1. Inv => BailsOnlyOnBadRecord
  BY DEF Inv, InHand, BailsOnlyOnBadRecord
<1> QED BY <1>1, Invariance, PTL

\* Every cursor the consumer holds or may load is at a record boundary, so the
\* framing survives the bail-out branch.
THEOREM Framed == Spec => []StaysFramed
<1>1. Inv => StaysFramed
  <2> SUFFICES ASSUME Inv PROVE StaysFramed
    OBVIOUS
  <2>1. TypeOK /\ Layout /\ Len(log) \in Nat /\ taken \in Nat /\ taken <= Len(log)
    BY StartFacts DEF Inv
  <2>2. ASSUME NEW n \in taken .. Len(log) PROVE Boundary(Start(n + 1))
    <3>1. CASE n = Len(log)
      BY <3>1, <2>1 DEF Boundary, Start
    <3>2. CASE n # Len(log)
      <4>1. n + 1 \in taken + 1 .. Len(log) /\ n + 1 \in 1 .. Len(log)
        BY <3>2, <2>1
      <4>2. log[n + 1].at = Start(n + 1)
        BY <4>1, <2>1, StartFacts
      <4> QED BY <4>1, <4>2 DEF Boundary
    <3> QED BY <3>1, <3>2
  <2>3. Boundary(tail)
    <3>1. taken \in taken .. Len(log) /\ tail = Start(taken + 1)
      BY <2>1 DEF Layout
    <3> QED BY <3>1, <2>2
  <2>4. ASSUME NEW h \in heads PROVE Boundary(h)
    <3>1. PICK n \in taken .. Len(log) : h = Start(n + 1)
      BY <2>1 DEF Layout
    <3> QED BY <3>1, <2>2
  <2> QED BY <2>3, <2>4 DEF StaysFramed
<1> QED BY <1>1, Invariance, PTL

\* The byte ring implements the FIFO of whole records: publishing accepts the
\* record in hand, a drop is a refusal, releasing hands over the oldest record
\* and the bail-out discards a run of the oldest.  All other steps stutter.
THEOREM Refinement == Spec => ImplementsFifo
<1> DEFINE sent == [i \in 1 .. Len(log) |-> log[i].data]
<1>1. Init => Fifo!Init
  BY DEF Init, Fifo!Init
<1>2. Inv /\ [Next]_vars => [Fifo!Next]_(Fifo!vars)
  <2> SUFFICES ASSUME Inv, [Next]_vars PROVE [Fifo!Next]_(Fifo!vars)
    OBVIOUS
  <2>0. /\ Len(log) \in Nat /\ taken \in Nat /\ taken <= Len(log)
        /\ Len(sent) = Len(log) /\ log \in Seq(Record)
    BY StartFacts DEF Inv, TypeOK
  <2>1. CASE UNCHANGED <<log, taken, out, dropped>>
    BY <2>1 DEF Fifo!vars
  <2>2. ASSUME NEW p \in Payloads, NEW t \in tails, PushDrop(p, t) PROVE Fifo!Next
    BY <2>2 DEF PushDrop, Fifo!Next, Fifo!Refuse
  <2>3. CASE PushPublish
    <3>1. /\ log' = Append(log, [at |-> head, data |-> pdata])
          /\ UNCHANGED <<taken, out, dropped>> /\ pdata \in Payloads
      BY <2>3 DEF Inv, Cursors, PushPublish, consVars
    <3>2. sent' = Append(sent, pdata)
      BY <2>0, <3>1
    <3>3. Fifo!Accept(pdata)
      BY <3>1, <3>2 DEF Fifo!Accept
    <3> QED BY <3>1, <3>2 DEF Fifo!Next, Fifo!Accept
  <2>4. CASE PopRelease
    <3>1. cpc = "release" /\ cpc # "idle"
      BY <2>4 DEF PopRelease
    <3>2. taken + 1 \in 1 .. Len(log)
      BY <3>1, Oldest
    <3>3. /\ taken' = taken + 1 /\ out' = log[taken + 1].data
          /\ UNCHANGED <<log, dropped>>
      BY <2>4, <3>1 DEF Inv, InHand, PopRelease, prodVars
    <3>4. sent[taken + 1] = log[taken + 1].data
      BY <3>2
    <3>5. taken < Len(sent)
      BY <3>2, <2>0
    <3> QED BY <3>3, <3>4, <3>5 DEF Fifo!Next, Fifo!Take
  <2>5. CASE PopBail
    <3>1. cpc # "idle"
      BY <2>5 DEF PopBail
    <3>2. RecordsBefore(chead) \in taken + 1 .. Len(log)
      BY <3>1, BailSkips
    <3>3. taken' = RecordsBefore(chead) /\ UNCHANGED <<log, out, dropped>>
      BY <2>5 DEF PopBail, prodVars
    <3>4. taken < Len(sent) /\ taken' \in (taken + 1) .. Len(sent)
      BY <3>2, <3>3, <2>0
    <3> QED BY <3>3, <3>4 DEF Fifo!Next, Fifo!Discard
  <2>6. CASE \/ PushPrefix \/ PushPayload
             \/ \E p \in Payloads, t \in tails : PushBegin(p, t)
    BY <2>1, <2>6 DEF PushPrefix, PushPayload, PushBegin, consVars
  <2>7. CASE \/ PopPrefix \/ PopPayload
             \/ \E h \in heads : PopEmpty(h) \/ PopBegin(h)
    BY <2>1, <2>7 DEF PopPrefix, PopPayload, PopEmpty, PopBegin, prodVars, consVars
  <2>8. CASE UNCHANGED vars
    BY <2>1, <2>8 DEF vars, prodVars, consVars
  <2> QED BY <2>2, <2>3, <2>4, <2>5, <2>6, <2>7, <2>8 DEF Next, Push, Pop
<1> QED BY <1>1, <1>2, Invariance, PTL DEF Spec, ImplementsFifo, Fifo!Spec
=============================================================================
