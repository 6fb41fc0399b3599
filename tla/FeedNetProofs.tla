--------------------------- MODULE FeedNetProofs ---------------------------
(***************************************************************************)
(* Proofs about server, network and feed handler together, for every file, *)
(* every ring size and every number of losses, duplicates and datagrams    *)
(* that overtake others.                                                   *)
(***************************************************************************)
EXTENDS FeedNet, TLAPS, FiniteSetTheorems, SequenceTheorems, WellFoundedInduction

\* Datagrams as the server fills them.
Datagrams == [seq : Nat \ {0}, msgs : Seq(Nat)]

\* The sequence number after the last message of a datagram.
End(d) == d.seq + Len(d.msgs)

\* A datagram that carries something, all of it numbered below n.
SentBelow(d, n) == d \in Datagrams /\ Len(d.msgs) > 0 /\ End(d) <= n

\* The number of the oldest message still in the server's buffer.
Unsent == next_seq - Len(packet)

\* The types of what the two processes and the network keep.
Typed ==
  /\ next_msg \in Nat /\ packet \in Seq(Nat) /\ next_seq \in Nat
  /\ Len(packet) < next_seq
  /\ net \in Seq(Datagrams) /\ ring \in Seq(Datagrams) /\ seen \in Nat
  /\ expected_seq \in Nat /\ messages_lost \in Nat /\ joined \in Nat
  /\ got \in SUBSET Nat /\ doubled \in Nat /\ overtaken \in Nat

\* What is on its way, or waits in the ring, the server has sent.
Travelling ==
  /\ \A i \in DOMAIN net : SentBelow(net[i], Unsent)
  /\ \A i \in DOMAIN ring : SentBelow(ring[i], Unsent)

\* What the book thread remembers of the datagrams it took.
Heard ==
  /\ joined = 0 => got = {} /\ expected_seq = 0 /\ messages_lost = 0
  /\ joined # 0 => joined \in got /\ expected_seq > 0 /\ expected_seq - 1 \in got
  /\ \A n \in got : 0 < n /\ n < Unsent

----------------------------------------------------------------------------
(* Sequences *)

LEMMA WithoutIs ==
  ASSUME NEW S, NEW s \in Seq(S), NEW i \in 1 .. Len(s)
  PROVE  /\ Without(s, i) \in Seq(S)
         /\ Len(Without(s, i)) = Len(s) - 1
         /\ \A k \in 1 .. Len(s) - 1 : Without(s, i)[k] = s[IF k < i THEN k ELSE k + 1]
<1> DEFINE a == SubSeq(s, 1, i - 1)
           b == SubSeq(s, i + 1, Len(s))
<1>1. /\ a \in Seq(S) /\ Len(a) = i - 1 /\ \A k \in 1 .. i - 1 : a[k] = s[k]
  OBVIOUS
<1>2. /\ b \in Seq(S) /\ Len(b) = Len(s) - i
      /\ \A k \in 1 .. Len(s) - i : b[k] = s[i + k]
  OBVIOUS
<1> HIDE DEF a, b
<1>3. a \o b \in Seq(S) /\ Len(a \o b) = Len(s) - 1
  <2>1. a \o b \in Seq(S) /\ Len(a \o b) = Len(a) + Len(b)
    BY <1>1, <1>2, ConcatProperties
  <2>2. Len(s) \in Nat
    OBVIOUS
  <2> QED BY <1>1, <1>2, <2>1, <2>2
<1>4. ASSUME NEW k \in 1 .. Len(s) - 1
      PROVE  (a \o b)[k] = s[IF k < i THEN k ELSE k + 1]
  <2>1. CASE k < i
    BY <1>1, <1>2, <2>1
  <2>2. CASE ~ (k < i)
    <3>1. (a \o b)[k] = b[k - (i - 1)]
      BY <1>1, <1>2, <2>2
    <3>2. k - (i - 1) \in 1 .. Len(s) - i /\ i + (k - (i - 1)) = k + 1
      BY <2>2
    <3> QED BY <1>2, <2>2, <3>1, <3>2
  <2> QED BY <2>1, <2>2
<1> QED BY <1>3, <1>4 DEF Without, a, b

\* The receiver and the network take a datagram out of a sequence the same way.
LEMMA SameRemove ==
  ASSUME NEW s, NEW i PROVE Receiver!RemoveAt(s, i) = Without(s, i)
BY DEF Receiver!RemoveAt, Without

----------------------------------------------------------------------------
(* What each step does to the state the invariants are about *)

\* Whatever the server does, it appends at most one datagram, numbered from
\* the oldest message it had buffered.
LEMMA ServerSends ==
  ASSUME Typed, Server!Next
  PROVE  /\ next_msg' \in Nat /\ packet' \in Seq(Nat) /\ next_seq' \in Nat
         /\ Len(packet') < next_seq' /\ next_seq' >= next_seq
         /\ \/ net' = net /\ Unsent' >= Unsent
            \/ /\ packet # << >> /\ Unsent' >= next_seq
               /\ net' = Append(net, [seq |-> Unsent, msgs |-> packet])
<1> USE DEF Typed, Unsent
<1>1. CASE Server!SendMessage
  BY <1>1 DEF Server!SendMessage
<1>2. ASSUME NEW ok, Server!flush(ok)
      PROVE  \/ net' = net
             \/ packet # << >> /\ net' = Append(net, [seq |-> Unsent, msgs |-> packet])
  BY <1>2 DEF Server!flush, Server!Datagram
<1>3. ASSUME NEW ok, Server!SendMessageFull(ok)
      PROVE  /\ Server!flush(ok) /\ next_msg' = next_msg + 1
             /\ \/ packet' = <<next_msg>> /\ next_seq' = next_seq + 1
                \/ packet' = << >> /\ next_seq' = next_seq
  BY <1>3 DEF Server!SendMessageFull
<1>4. ASSUME NEW ok, Server!PaceFlush(ok) \/ Server!Finish(ok)
      PROVE  /\ Server!flush(ok) /\ next_msg' = next_msg
             /\ packet' = << >> /\ next_seq' = next_seq
  BY <1>4 DEF Server!PaceFlush, Server!Finish
<1>5. CASE ~ Server!SendMessage
  <2>1. PICK ok : Server!SendMessageFull(ok) \/ Server!PaceFlush(ok) \/ Server!Finish(ok)
    BY <1>5 DEF Server!Next
  <2>2. \/ net' = net
        \/ packet # << >> /\ net' = Append(net, [seq |-> Unsent, msgs |-> packet])
    BY <1>2, <1>3, <1>4, <2>1
  <2>3. \/ next_msg' = next_msg + 1 /\ packet' = <<next_msg>> /\ next_seq' = next_seq + 1
        \/ next_msg' \in {next_msg, next_msg + 1} /\ packet' = << >> /\ next_seq' = next_seq
    BY <1>3, <1>4, <2>1
  <2>4. /\ next_msg' \in Nat /\ packet' \in Seq(Nat) /\ next_seq' \in Nat
        /\ Len(packet') < next_seq' /\ next_seq' >= next_seq /\ Unsent' = next_seq
    <3>1. CASE next_msg' = next_msg + 1 /\ packet' = <<next_msg>> /\ next_seq' = next_seq + 1
      <4>1. packet' \in Seq(Nat) /\ Len(packet') = 1
        BY <3>1
      <4> QED BY <3>1, <4>1
    <3>2. CASE next_msg' \in {next_msg, next_msg + 1} /\ packet' = << >> /\ next_seq' = next_seq
      <4>1. packet' \in Seq(Nat) /\ Len(packet') = 0 /\ Len(packet) \in Nat
        BY <3>2
      <4> QED BY <3>2, <4>1
    <3> QED BY <2>3, <3>1, <3>2
  <2> QED BY <2>2, <2>4
<1> QED BY <1>1, <1>5

----------------------------------------------------------------------------
(* The count of missing messages, when one more datagram is taken *)

\* From j on, what is below something heard and was not heard itself.
Skipped(j, n, heard) == {x \in j .. n : x \notin heard /\ \E h \in heard : x < h}

\* From j up to e, what was not heard.
Unheard(j, e, heard) == IF j = 0 THEN {} ELSE {x \in j .. e - 1 : x \notin heard}

\* What a datagram numbered seq makes of the first number and of the loss count.
Joined(j, seq) == IF j = 0 THEN seq ELSE j
Counted(had, e, seq) == IF e # 0 /\ seq > e THEN had + (seq - e) ELSE had

\* A gap of `seq - e` makes at most as many messages missing.
LEMMA NeverUnder ==
  ASSUME NEW j \in Nat, NEW e \in Nat, NEW n \in Nat, NEW heard \in SUBSET Nat,
         NEW seq \in Nat \ {0}, NEW len \in Nat \ {0}, NEW had \in Nat,
         j = 0 => heard = {},
         j # 0 => e > 0 /\ e - 1 \in heard,
         had >= Cardinality(Skipped(j, n, heard))
  PROVE  /\ Counted(had, e, seq) \in Nat
         /\ Counted(had, e, seq)
              >= Cardinality(Skipped(Joined(j, seq), n, heard \cup (seq .. seq + len - 1)))
<1> DEFINE new == seq .. seq + len - 1
           S == Skipped(j, n, heard)
           S1 == Skipped(Joined(j, seq), n, heard \cup new)
           gap == e .. seq - 1
<1>0. Counted(had, e, seq) \in Nat
  BY DEF Counted
<1>1. IsFiniteSet(S) /\ Cardinality(S) \in Nat
  <2>1. S \subseteq j .. n /\ IsFiniteSet(j .. n)
    BY FS_Interval DEF Skipped
  <2>2. IsFiniteSet(S)
    <3> HIDE DEF S
    <3> QED BY <2>1, FS_Subset
  <2> QED BY <2>2, FS_CardinalityType
<1>2. IsFiniteSet(gap) /\ Cardinality(gap) = IF e > seq - 1 THEN 0 ELSE (seq - 1) - e + 1
  <2> DEFINE b == seq - 1
  <2>1. e \in Int /\ b \in Int
    OBVIOUS
  <2> HIDE DEF b
  <2>2. IsFiniteSet(e .. b) /\ Cardinality(e .. b) = IF e > b THEN 0 ELSE b - e + 1
    BY <2>1, FS_Interval
  <2> QED BY <2>2 DEF b
<1>3. CASE j = 0
  <2>1. S1 = {}
    <3>1. Joined(j, seq) = seq /\ heard = {}
      BY <1>3 DEF Joined
    <3> QED BY <3>1 DEF Skipped
  <2>2. Cardinality(S1) = 0
    BY <2>1, FS_EmptySet
  <2> HIDE DEF S1
  <2> QED BY <1>0, <2>2 DEF S1
<1>4. CASE j # 0
  <2>1. S1 \subseteq S \cup gap
    <3> SUFFICES ASSUME NEW x \in S1 PROVE x \in S \/ x \in gap
      OBVIOUS
    <3>1. /\ x \in j .. n /\ x \notin heard /\ ~ (seq <= x /\ x <= seq + len - 1)
      BY <1>4 DEF Skipped, Joined
    <3>2. PICK h \in heard \cup new : x < h
      BY DEF Skipped
    <3>3. CASE \E g \in heard : x < g
      BY <3>1, <3>3 DEF Skipped
    <3>4. CASE ~ \E g \in heard : x < g
      <4>1. h \in new /\ x < seq
        BY <3>1, <3>2, <3>4
      <4>2. x >= e - 1 /\ x # e - 1
        BY <1>4, <3>1, <3>4
      <4> QED BY <3>1, <4>1, <4>2
    <3> QED BY <3>3, <3>4
  <2> HIDE DEF S, S1, gap
  <2>2. IsFiniteSet(S \cup gap) /\ Cardinality(S \cup gap) <= Cardinality(S) + Cardinality(gap)
    <3>1. /\ IsFiniteSet(S \cup gap)
          /\ Cardinality(S \cup gap)
               = Cardinality(S) + Cardinality(gap) - Cardinality(S \cap gap)
      BY <1>1, <1>2, FS_Union
    <3>2. IsFiniteSet(S \cap gap)
      BY <1>1, FS_Subset
    <3>3. Cardinality(S \cap gap) \in Nat
      BY <3>2, FS_CardinalityType
    <3>4. Cardinality(gap) \in Nat
      BY <1>2, FS_CardinalityType
    <3> QED BY <1>1, <3>1, <3>3, <3>4
  <2>3. Cardinality(S1) <= Cardinality(S \cup gap)
    BY <2>1, <2>2, FS_Subset
  <2>4. Cardinality(S1) \in Nat /\ Cardinality(S \cup gap) \in Nat
    <3>1. IsFiniteSet(S1)
      BY <2>1, <2>2, FS_Subset
    <3> QED BY <2>2, <3>1, FS_CardinalityType
  <2>5. Counted(had, e, seq) >= had + Cardinality(gap)
    BY <1>2, <1>4 DEF Counted
  <2>6. had >= Cardinality(S) /\ Cardinality(gap) \in Nat
    BY <1>2, FS_CardinalityType DEF S
  <2>7. Cardinality(S1) <= Counted(had, e, seq)
    BY <1>0, <1>1, <2>2, <2>3, <2>4, <2>5, <2>6
  <2> QED BY <1>0, <2>4, <2>7 DEF S1
<1> QED BY <1>3, <1>4

\* Everything heard lies between j and e, and what does not was counted.
ExactSoFar(j, e, heard, had) ==
  /\ j = 0 => heard = {} /\ e = 0
  /\ j # 0 => e > 0 /\ j <= e - 1 /\ heard \subseteq j .. e - 1
  /\ had = Cardinality(Unheard(j, e, heard))

\* In order, it makes exactly as many missing.
LEMMA Exactly ==
  ASSUME NEW j \in Nat, NEW e \in Nat, NEW heard \in SUBSET Nat,
         NEW seq \in Nat \ {0}, NEW len \in Nat \ {0}, NEW had \in Nat,
         e <= seq, ExactSoFar(j, e, heard, had)
  PROVE  ExactSoFar(Joined(j, seq), seq + len, heard \cup (seq .. seq + len - 1),
                    Counted(had, e, seq))
<1> DEFINE new == seq .. seq + len - 1
           S == Unheard(j, e, heard)
           S1 == Unheard(Joined(j, seq), seq + len, heard \cup new)
           gap == e .. seq - 1
<1> USE DEF ExactSoFar
<1>5. Joined(j, seq) # 0 /\ Joined(j, seq) <= seq + len - 1 /\ seq + len > 0
  BY DEF Joined
<1>1. heard \cup new \subseteq Joined(j, seq) .. seq + len - 1
  <2>1. CASE j = 0
    BY <2>1 DEF Joined
  <2>2. CASE j # 0
    <3>1. Joined(j, seq) = j /\ j <= seq /\ e - 1 <= seq + len - 1
      BY <2>2 DEF Joined
    <3> QED BY <2>2, <3>1
  <2> QED BY <2>1, <2>2
<1>2. IsFiniteSet(gap) /\ Cardinality(gap) = IF e > seq - 1 THEN 0 ELSE (seq - 1) - e + 1
  <2> DEFINE b == seq - 1
  <2>1. e \in Int /\ b \in Int
    OBVIOUS
  <2> HIDE DEF b
  <2>2. IsFiniteSet(e .. b) /\ Cardinality(e .. b) = IF e > b THEN 0 ELSE b - e + 1
    BY <2>1, FS_Interval
  <2> QED BY <2>2 DEF b
<1>3. CASE j = 0
  <2>1. S = {} /\ S1 = {}
    BY <1>3 DEF Unheard, Joined
  <2>2. Cardinality(S) = 0 /\ Cardinality(S1) = 0
    BY <2>1, FS_EmptySet
  <2>3. Counted(had, e, seq) = had
    BY <1>3 DEF Counted
  <2> QED BY <1>1, <1>5, <2>2, <2>3
<1>4. CASE j # 0
  <2>1. S1 = S \cup gap /\ S \cap gap = {}
    <3>1. Joined(j, seq) = j
      BY <1>4 DEF Joined
    <3>2. S = {x \in j .. e - 1 : x \notin heard}
          /\ S1 = {x \in j .. seq + len - 1 : x \notin heard \cup new}
      BY <1>4, <3>1 DEF Unheard
    <3>7. \A x : x \in S1 <=> x \in j .. seq + len - 1 /\ x \notin heard /\ x \notin new
      BY <3>2
    <3> HIDE DEF S, S1
    <3>3. ASSUME NEW x \in S1 PROVE x \in S \cup gap
      <4>1. /\ x \in Int /\ j <= x /\ x <= seq + len - 1 /\ x \notin heard
            /\ ~ (seq <= x /\ x <= seq + len - 1)
        BY <3>7, <3>3
      <4>2. x <= e - 1 \/ (e <= x /\ x <= seq - 1)
        BY <4>1
      <4> QED BY <3>2, <4>1, <4>2
    <3>4. ASSUME NEW x \in S PROVE x \in S1
      <4>1. x \in Int /\ j <= x /\ x <= e - 1 /\ x \notin heard
        BY <3>2, <3>4
      <4>2. x <= seq + len - 1 /\ x \notin new
        BY <4>1
      <4> QED BY <3>2, <4>1, <4>2
    <3>5. ASSUME NEW x \in gap PROVE x \in S1
      <4>1. x \in Int /\ e <= x /\ x <= seq - 1
        BY <3>5
      <4>2. x <= seq + len - 1 /\ x \notin new /\ j <= x /\ x \notin heard
        BY <1>4, <4>1
      <4>3. x \in j .. seq + len - 1
        BY <4>1, <4>2
      <4> QED BY <3>7, <4>2, <4>3
    <3>6. ASSUME NEW x \in S PROVE x \notin gap
      BY <3>2, <3>6
    <3> QED BY <3>3, <3>4, <3>5, <3>6
  <2>2. IsFiniteSet(S)
    <3> DEFINE b == e - 1
    <3>1. S \subseteq j .. b /\ j \in Int /\ b \in Int
      BY <1>4 DEF Unheard
    <3> HIDE DEF S, b
    <3>2. IsFiniteSet(j .. b)
      BY <3>1, FS_Interval
    <3> QED BY <3>1, <3>2, FS_Subset
  <2> HIDE DEF S, S1, gap
  <2>3. Cardinality(S1) = Cardinality(S) + Cardinality(gap) - Cardinality({})
    BY <1>2, <2>1, <2>2, FS_Union
  <2>4. Cardinality({}) = 0 /\ Cardinality(S) \in Nat /\ Cardinality(gap) \in Nat
    BY <1>2, <2>2, FS_EmptySet, FS_CardinalityType
  <2>5. Counted(had, e, seq) = had + Cardinality(gap)
    BY <1>2, <1>4 DEF Counted
  <2> QED BY <1>1, <1>5, <2>3, <2>4, <2>5 DEF S, S1
<1> QED BY <1>3, <1>4

----------------------------------------------------------------------------
(* Datagrams that have not overtaken one another *)

\* The ring's datagrams, then the network's, each after the ones before it and
\* none before e.
Ordered(r, w, e) ==
  /\ \A i, k \in DOMAIN r : i < k => End(r[i]) <= r[k].seq
  /\ \A i, k \in DOMAIN w : i < k => End(w[i]) <= w[k].seq
  /\ \A i \in DOMAIN r, k \in DOMAIN w : End(r[i]) <= w[k].seq
  /\ \A i \in DOMAIN r : e <= r[i].seq
  /\ \A i \in DOMAIN w : e <= w[i].seq

\* A datagram numbered after everything on its way keeps the order.
LEMMA OrderedSend ==
  ASSUME NEW r \in Seq(Datagrams), NEW w \in Seq(Datagrams), NEW e \in Nat,
         NEW d \in Datagrams, Ordered(r, w, e), e <= d.seq,
         \A i \in DOMAIN r : End(r[i]) <= d.seq,
         \A i \in DOMAIN w : End(w[i]) <= d.seq
  PROVE  Ordered(r, Append(w, d), e)
<1> DEFINE w1 == Append(w, d)
           n == Len(w)
<1>1. /\ n \in Nat /\ DOMAIN w = 1 .. n /\ DOMAIN w1 = 1 .. n + 1
      /\ w1[n + 1] = d /\ \A i \in 1 .. n : w1[i] = w[i]
  OBVIOUS
<1> HIDE DEF w1, n
<1>2. \A i \in DOMAIN w1 : i = n + 1 \/ i \in DOMAIN w
  BY <1>1
<1>3. ASSUME NEW i \in DOMAIN w1, NEW k \in DOMAIN w1, i < k PROVE End(w1[i]) <= w1[k].seq
  <2>1. i \in DOMAIN w
    BY <1>1, <1>3
  <2> QED BY <1>1, <1>2, <1>3, <2>1 DEF Ordered
<1>4. \A i \in DOMAIN r, k \in DOMAIN w1 : End(r[i]) <= w1[k].seq
  BY <1>1, <1>2 DEF Ordered
<1>5. \A i \in DOMAIN w1 : e <= w1[i].seq
  BY <1>1, <1>2 DEF Ordered
<1> QED BY <1>3, <1>4, <1>5 DEF Ordered, w1

\* A lost datagram keeps the order of the others.
LEMMA OrderedLose ==
  ASSUME NEW r \in Seq(Datagrams), NEW w \in Seq(Datagrams), NEW e \in Nat,
         NEW x \in 1 .. Len(w), Ordered(r, w, e)
  PROVE  Ordered(r, Without(w, x), e)
<1> DEFINE w1 == Without(w, x)
           n == Len(w)
           at(k) == IF k < x THEN k ELSE k + 1
<1>1. /\ w1 \in Seq(Datagrams) /\ Len(w1) = n - 1
      /\ \A k \in 1 .. n - 1 : w1[k] = w[at(k)]
  BY WithoutIs
<1>2. n \in Nat /\ DOMAIN w = 1 .. n
  OBVIOUS
<1>3. DOMAIN w1 = 1 .. n - 1
  <2> HIDE DEF w1
  <2> QED BY <1>1
<1> HIDE DEF w1, n
<1>4. \A k \in 1 .. n - 1 : at(k) \in 1 .. n
  BY <1>2
<1>5. \A i, k \in 1 .. n - 1 : i < k => at(i) < at(k)
  BY <1>2
<1> HIDE DEF at
<1>6. \A i, k \in DOMAIN w1 : i < k => End(w1[i]) <= w1[k].seq
  BY <1>1, <1>2, <1>3, <1>4, <1>5 DEF Ordered
<1>7. \A i \in DOMAIN r, k \in DOMAIN w1 : End(r[i]) <= w1[k].seq
  BY <1>1, <1>2, <1>3, <1>4 DEF Ordered
<1>8. \A i \in DOMAIN w1 : e <= w1[i].seq
  BY <1>1, <1>2, <1>3, <1>4 DEF Ordered
<1> QED BY <1>6, <1>7, <1>8 DEF Ordered, w1

\* The oldest datagram of the network goes into the ring.
LEMMA OrderedRecv ==
  ASSUME NEW r \in Seq(Datagrams), NEW w \in Seq(Datagrams), NEW e \in Nat,
         w # << >>, Ordered(r, w, e)
  PROVE  Ordered(Append(r, w[1]), Without(w, 1), e)
<1> DEFINE w1 == Without(w, 1)
           r1 == Append(r, w[1])
           n == Len(w)
           m == Len(r)
<1>0. n \in Nat /\ DOMAIN w = 1 .. n /\ 1 \in 1 .. n /\ w[1] \in Datagrams
  OBVIOUS
<1>1. /\ w1 \in Seq(Datagrams) /\ Len(w1) = n - 1
      /\ \A k \in 1 .. n - 1 : w1[k] = w[k + 1]
  <2>1. /\ w1 \in Seq(Datagrams) /\ Len(w1) = n - 1
        /\ \A k \in 1 .. n - 1 : w1[k] = w[IF k < 1 THEN k ELSE k + 1]
    BY <1>0, WithoutIs
  <2> HIDE DEF w1, n
  <2> QED BY <1>0, <2>1
<1>2. DOMAIN w1 = 1 .. n - 1
  <2> HIDE DEF w1
  <2> QED BY <1>1
<1>3. /\ m \in Nat /\ DOMAIN r = 1 .. m /\ DOMAIN r1 = 1 .. m + 1
      /\ r1[m + 1] = w[1] /\ \A i \in 1 .. m : r1[i] = r[i]
  <2> DEFINE d == w[1]
  <2>1. d \in Datagrams
    BY <1>0
  <2> HIDE DEF d
  <2>2. /\ m \in Nat /\ DOMAIN r = 1 .. m /\ DOMAIN Append(r, d) = 1 .. m + 1
        /\ Append(r, d)[m + 1] = d /\ \A i \in 1 .. m : Append(r, d)[i] = r[i]
    BY <2>1
  <2> QED BY <2>2 DEF d
<1>4. Ordered(r, w1, e)
  BY <1>0, OrderedLose
<1> HIDE DEF w1, r1, n, m
<1>5. \A i \in DOMAIN r1 : i = m + 1 \/ i \in DOMAIN r
  BY <1>3
<1>6. ASSUME NEW i \in DOMAIN r1, NEW k \in DOMAIN r1, i < k PROVE End(r1[i]) <= r1[k].seq
  <2>1. i \in DOMAIN r
    BY <1>3, <1>6
  <2> QED BY <1>0, <1>3, <1>5, <1>6, <2>1 DEF Ordered
<1>7. ASSUME NEW i \in DOMAIN r1, NEW k \in DOMAIN w1 PROVE End(r1[i]) <= w1[k].seq
  <2>1. CASE i = m + 1
    <3>1. r1[i] = w[1] /\ w1[k] = w[k + 1] /\ k + 1 \in 1 .. n /\ 1 < k + 1
      BY <1>0, <1>1, <1>2, <1>3, <2>1
    <3> QED BY <1>0, <3>1 DEF Ordered
  <2>2. CASE i \in DOMAIN r
    BY <1>3, <1>4, <2>2 DEF Ordered
  <2> QED BY <1>5, <2>1, <2>2
<1>8. \A i \in DOMAIN r1 : e <= r1[i].seq
  BY <1>0, <1>3, <1>5 DEF Ordered
<1> QED BY <1>4, <1>6, <1>7, <1>8 DEF Ordered, w1, r1

\* The book thread takes the oldest datagram of the ring.
LEMMA OrderedPop ==
  ASSUME NEW r \in Seq(Datagrams), NEW w \in Seq(Datagrams), NEW e,
         r # << >>, Ordered(r, w, e)
  PROVE  Ordered(Tail(r), w, End(r[1]))
<1> DEFINE r1 == Tail(r)
           n == Len(r)
<1>1. /\ n \in Nat /\ DOMAIN r = 1 .. n /\ 1 \in 1 .. n /\ DOMAIN r1 = 1 .. n - 1
      /\ \A k \in 1 .. n - 1 : r1[k] = r[k + 1]
  OBVIOUS
<1> HIDE DEF r1, n
<1>2. \A k \in 1 .. n - 1 : k + 1 \in 1 .. n /\ 1 < k + 1
  BY <1>1
<1>3. \A i, k \in DOMAIN r1 : i < k => End(r1[i]) <= r1[k].seq
  <2>1. \A i, k \in DOMAIN r1 : i < k => i + 1 < k + 1
    BY <1>1
  <2> QED BY <1>1, <1>2, <2>1 DEF Ordered
<1>4. \A i \in DOMAIN r1, k \in DOMAIN w : End(r1[i]) <= w[k].seq
  BY <1>1, <1>2 DEF Ordered
<1>5. \A i \in DOMAIN r1 : End(r[1]) <= r1[i].seq
  BY <1>1, <1>2 DEF Ordered
<1>6. \A i \in DOMAIN w : End(r[1]) <= w[i].seq
  BY <1>1 DEF Ordered
<1> QED BY <1>3, <1>4, <1>5, <1>6 DEF Ordered, r1

----------------------------------------------------------------------------
(* The invariant *)

\* As long as nothing was doubled and nothing overtook: what travels is in
\* order, nothing was heard beyond expected_seq, and the count is exact.
InOrder ==
  doubled = 0 /\ overtaken = 0 =>
    /\ Ordered(ring, net, expected_seq)
    /\ joined # 0 => joined <= expected_seq - 1 /\ got \subseteq joined .. expected_seq - 1
    /\ messages_lost = Cardinality(Unheard(joined, expected_seq, got))

\* What is below something heard and was not heard has been counted.
SkippedCounted == messages_lost >= Cardinality(Skipped(joined, next_seq, got))

\* The inductive invariant.
IInv == /\ Typed /\ Travelling /\ Heard /\ InOrder /\ SkippedCounted
        /\ DrainedAtExit

\* The invariant holds before the first datagram.
LEMMA InitIInv == Init => IInv
<1> SUFFICES ASSUME Init PROVE IInv
  OBVIOUS
<1> USE DEF Init, Server!Init, Receiver!Init
<1>1. Typed
  BY DEF Typed
<1>2. Travelling
  BY DEF Travelling
<1>3. Heard
  BY DEF Heard
<1>4. Cardinality({}) = 0
  BY FS_EmptySet
<1>5. InOrder
  <2>1. Ordered(ring, net, expected_seq)
    BY DEF Ordered
  <2>2. Unheard(joined, expected_seq, got) = {}
    BY DEF Unheard
  <2> QED BY <1>4, <2>1, <2>2 DEF InOrder
<1>6. SkippedCounted
  <2>1. Skipped(joined, next_seq, got) = {}
    BY DEF Skipped
  <2> QED BY <1>4, <2>1 DEF SkippedCounted
<1>7. DrainedAtExit
  BY DEF DrainedAtExit
<1> QED BY <1>1, <1>2, <1>3, <1>5, <1>6, <1>7 DEF IInv

\* A later message in the server's buffer changes nothing of what was skipped.
LEMMA SkippedSame ==
  ASSUME NEW j \in Nat, NEW n \in Nat, NEW n1 \in Nat, n <= n1, NEW heard \in SUBSET Nat,
         \A h \in heard : h <= n
  PROVE  Skipped(j, n1, heard) = Skipped(j, n, heard)
BY DEF Skipped

\* Sending, with or without success, keeps the invariant.
LEMMA ServerKeeps ==
  ASSUME IInv, ServerStep
  PROVE  IInv'
<1>1. /\ Server!Next
      /\ UNCHANGED <<ring, seen, expected_seq, messages_lost, joined, got, doubled, overtaken>>
      /\ UNCHANGED <<book_pc, running>>
  BY DEF ServerStep, receiverVars, faults
<1>2. /\ next_msg' \in Nat /\ packet' \in Seq(Nat) /\ next_seq' \in Nat
      /\ Len(packet') < next_seq' /\ next_seq' >= next_seq
      /\ \/ net' = net /\ Unsent' >= Unsent
         \/ /\ packet # << >> /\ Unsent' >= next_seq
            /\ net' = Append(net, [seq |-> Unsent, msgs |-> packet])
  BY <1>1, ServerSends DEF IInv
<1> DEFINE d == [seq |-> Unsent, msgs |-> packet]
           u1 == Unsent'
<1>3. /\ Typed /\ Travelling /\ Heard /\ InOrder /\ SkippedCounted
      /\ packet \in Seq(Nat) /\ next_seq \in Nat /\ Len(packet) < next_seq
      /\ net \in Seq(Datagrams) /\ ring \in Seq(Datagrams) /\ got \in SUBSET Nat
      /\ joined \in Nat /\ expected_seq \in Nat
  BY DEF IInv, Typed
<1>4. Unsent \in Nat \ {0} /\ Unsent <= next_seq /\ Len(packet) \in Nat
  BY <1>3 DEF Unsent
<1>5. u1 \in Nat /\ u1 >= Unsent
  <2>1. u1 = next_seq' - Len(packet') /\ Len(packet') \in Nat
    BY <1>2 DEF Unsent
  <2>2. u1 \in Nat
    BY <1>2, <2>1
  <2>3. u1 >= Unsent \/ u1 >= next_seq
    BY <1>2
  <2> HIDE DEF u1
  <2> QED BY <1>3, <1>4, <2>2, <2>3
<1>6. packet # << >> => d \in Datagrams /\ Len(d.msgs) > 0 /\ End(d) = next_seq /\ d.seq = Unsent
  BY <1>3, <1>4 DEF Datagrams, End, Unsent
<1>17. net' = net \/ (packet # << >> /\ u1 >= next_seq /\ net' = Append(net, d))
  BY <1>2
<1> HIDE DEF d, u1
<1>7. net' \in Seq(Datagrams)
  <2>1. CASE net' = net
    BY <1>3, <2>1
  <2>2. CASE packet # << >> /\ net' = Append(net, d)
    <3>1. d \in Datagrams
      BY <1>6, <2>2
    <3> QED BY <1>3, <2>2, <3>1
  <2> QED BY <1>17, <2>1, <2>2
<1>8. Typed'
  BY <1>1, <1>2, <1>3, <1>7 DEF Typed
<1>9. \A x : SentBelow(x, Unsent) => SentBelow(x, u1)
  BY <1>4, <1>5 DEF SentBelow, End, Datagrams
<1>10. \A i \in DOMAIN net' : SentBelow(net'[i], u1)
  <2>1. CASE net' = net
    BY <1>3, <1>9, <2>1 DEF Travelling
  <2>2. CASE packet # << >> /\ u1 >= next_seq /\ net' = Append(net, d)
    <3>1. /\ DOMAIN net' = 1 .. Len(net) + 1 /\ DOMAIN net = 1 .. Len(net)
          /\ net'[Len(net) + 1] = d /\ \A i \in 1 .. Len(net) : net'[i] = net[i]
          /\ Len(net) \in Nat
      BY <1>3, <1>6, <2>2
    <3>2. SentBelow(d, u1)
      BY <1>3, <1>5, <1>6, <2>2 DEF SentBelow
    <3>3. \A i \in 1 .. Len(net) + 1 : i = Len(net) + 1 \/ i \in 1 .. Len(net)
      BY <3>1
    <3> QED BY <1>3, <1>9, <3>1, <3>2, <3>3 DEF Travelling
  <2> QED BY <1>17, <2>1, <2>2
<1>11. Travelling'
  <2>1. \A i \in DOMAIN ring' : SentBelow(ring'[i], u1)
    BY <1>1, <1>3, <1>9 DEF Travelling
  <2> QED BY <1>10, <2>1 DEF Travelling, u1
<1>12. Heard'
  <2>1. \A n \in got : 0 < n /\ n < u1
    BY <1>3, <1>4, <1>5 DEF Heard
  <2> QED BY <1>1, <1>3, <2>1 DEF Heard, u1
<1>13. expected_seq <= Unsent
  <2>1. CASE joined = 0
    BY <1>3, <1>4, <2>1 DEF Heard
  <2>2. CASE joined # 0
    BY <1>3, <1>4, <2>2 DEF Heard
  <2> QED BY <2>1, <2>2
<1>14. InOrder'
  <2> SUFFICES ASSUME doubled = 0 /\ overtaken = 0, InOrder
               PROVE  Ordered(ring, net', expected_seq)
    BY <1>1, <1>3 DEF InOrder
  <2>1. Ordered(ring, net, expected_seq)
    BY DEF InOrder
  <2>2. CASE net' = net
    BY <2>1, <2>2
  <2>3. CASE packet # << >> /\ net' = Append(net, d)
    <3>1. d \in Datagrams /\ d.seq = Unsent
      BY <1>6, <2>3
    <3>2. /\ \A i \in DOMAIN ring : End(ring[i]) <= d.seq
          /\ \A i \in DOMAIN net : End(net[i]) <= d.seq
      BY <1>3, <3>1 DEF Travelling, SentBelow
    <3>3. Ordered(ring, Append(net, d), expected_seq)
      BY <1>3, <1>13, <2>1, <3>1, <3>2, OrderedSend
    <3> QED BY <2>3, <3>3
  <2> QED BY <1>17, <2>2, <2>3
<1>15. SkippedCounted'
  <2>1. \A h \in got : h <= next_seq
    BY <1>3, <1>4 DEF Heard
  <2>2. Skipped(joined, next_seq', got) = Skipped(joined, next_seq, got)
    <3> DEFINE n1 == next_seq'
    <3>1. n1 \in Nat /\ next_seq <= n1
      BY <1>2, <1>3
    <3> HIDE DEF n1
    <3>2. Skipped(joined, n1, got) = Skipped(joined, next_seq, got)
      BY <1>3, <2>1, <3>1, SkippedSame
    <3> QED BY <3>2 DEF n1
  <2> QED BY <1>1, <1>3, <2>2 DEF SkippedCounted
<1>16. DrainedAtExit'
  BY <1>1 DEF IInv, DrainedAtExit
<1> QED BY <1>8, <1>11, <1>12, <1>14, <1>15, <1>16 DEF IInv

\* What a datagram leaves behind when it is taken off the network.
LEMMA TakenOff ==
  ASSUME IInv, NEW i \in DOMAIN net
  PROVE  /\ Without(net, i) \in Seq(Datagrams)
         /\ \A k \in DOMAIN Without(net, i) : SentBelow(Without(net, i)[k], Unsent)
         /\ net[i] \in Datagrams /\ SentBelow(net[i], Unsent)
         /\ InOrder => (doubled = 0 /\ overtaken = 0
                          => Ordered(ring, Without(net, i), expected_seq))
<1>1. /\ net \in Seq(Datagrams) /\ ring \in Seq(Datagrams) /\ expected_seq \in Nat
      /\ i \in 1 .. Len(net) /\ DOMAIN net = 1 .. Len(net) /\ Len(net) \in Nat
  BY DEF IInv, Typed
<1> DEFINE w == Without(net, i)
<1>2. /\ w \in Seq(Datagrams) /\ Len(w) = Len(net) - 1
      /\ \A k \in 1 .. Len(net) - 1 : w[k] = net[IF k < i THEN k ELSE k + 1]
  BY <1>1, WithoutIs
<1>3. \A k \in DOMAIN net : SentBelow(net[k], Unsent)
  BY DEF IInv, Travelling
<1>4. doubled = 0 /\ overtaken = 0 /\ InOrder => Ordered(ring, w, expected_seq)
  BY <1>1, OrderedLose DEF InOrder
<1> HIDE DEF w
<1>5. \A k \in DOMAIN w : SentBelow(w[k], Unsent)
  <2> SUFFICES ASSUME NEW k \in DOMAIN w PROVE SentBelow(w[k], Unsent)
    OBVIOUS
  <2>1. k \in 1 .. Len(net) - 1
    BY <1>2
  <2>2. (IF k < i THEN k ELSE k + 1) \in 1 .. Len(net)
    BY <1>1, <2>1
  <2> QED BY <1>1, <1>2, <1>3, <2>1, <2>2
<1> QED BY <1>1, <1>2, <1>3, <1>4, <1>5 DEF w

\* A datagram moves from the network into the ring, or finds it full.
LEMMA RecvKeeps ==
  ASSUME IInv, NEW i \in DOMAIN net, Receiver!Recv(i), UNCHANGED <<serverVars, doubled>>,
         overtaken' \in Nat, overtaken' = 0 => overtaken = 0 /\ i = 1
  PROVE  IInv'
<1> DEFINE w == Without(net, i)
           d == net[i]
<1>1. /\ net' = w /\ (ring' = ring \/ ring' = Append(ring, d))
      /\ UNCHANGED <<next_msg, packet, next_seq, seen, expected_seq, messages_lost, joined,
                     got, doubled, book_pc, running>>
      /\ running
  BY SameRemove DEF Receiver!Recv, Receiver!bookVars, serverVars
<1>2. /\ w \in Seq(Datagrams) /\ \A k \in DOMAIN w : SentBelow(w[k], Unsent)
      /\ d \in Datagrams /\ SentBelow(d, Unsent)
      /\ doubled = 0 /\ overtaken = 0 => Ordered(ring, w, expected_seq)
  BY TakenOff DEF IInv
<1>3. /\ Typed /\ Travelling /\ Heard /\ InOrder /\ SkippedCounted /\ DrainedAtExit
      /\ net \in Seq(Datagrams) /\ ring \in Seq(Datagrams) /\ net # << >>
      /\ expected_seq \in Nat
  BY DEF IInv, Typed
<1>4. i = 1 /\ doubled = 0 /\ overtaken = 0 => Ordered(Append(ring, d), w, expected_seq)
  BY <1>3, OrderedRecv DEF InOrder
<1> HIDE DEF w, d
<1>5. ring' \in Seq(Datagrams) /\ \A k \in DOMAIN ring' : SentBelow(ring'[k], Unsent)
  <2>1. \A k \in DOMAIN ring : SentBelow(ring[k], Unsent)
    BY <1>3 DEF Travelling
  <2>2. CASE ring' = Append(ring, d)
    <3>1. \A k \in DOMAIN ring' : ring'[k] = d \/ (k \in DOMAIN ring /\ ring'[k] = ring[k])
      BY <1>2, <1>3, <2>2
    <3> QED BY <1>2, <1>3, <2>1, <2>2, <3>1
  <2> QED BY <1>1, <1>3, <2>1, <2>2
<1>6. Unsent' = Unsent
  BY <1>1 DEF Unsent
<1>7. Typed'
  BY <1>1, <1>2, <1>3, <1>5 DEF Typed
<1>8. Travelling'
  BY <1>1, <1>2, <1>5, <1>6 DEF Travelling
<1>9. Heard'
  BY <1>1, <1>3, <1>6 DEF Heard
<1>10. InOrder'
  BY <1>1, <1>2, <1>3, <1>4 DEF InOrder
<1>11. SkippedCounted' /\ DrainedAtExit'
  BY <1>1, <1>3 DEF SkippedCounted, DrainedAtExit
<1> QED BY <1>7, <1>8, <1>9, <1>10, <1>11 DEF IInv

\* The network loses a datagram, delivers it twice or has no one to deliver to.
LEMMA NetworkKeeps ==
  ASSUME IInv, UNCHANGED <<next_msg, packet, next_seq, ring, seen, expected_seq,
                           messages_lost, joined, got, overtaken, book_pc, running>>,
         \/ doubled' = doubled /\ \E i \in DOMAIN net : net' = Without(net, i)
         \/ doubled' = doubled + 1 /\ \E i \in DOMAIN net : net' = Append(net, net[i])
         \/ doubled' = doubled /\ net' = << >>
  PROVE  IInv'
<1>1. /\ Typed /\ Travelling /\ Heard /\ InOrder /\ SkippedCounted /\ DrainedAtExit
      /\ net \in Seq(Datagrams) /\ ring \in Seq(Datagrams) /\ doubled \in Nat
      /\ \A k \in DOMAIN net : SentBelow(net[k], Unsent)
  BY DEF IInv, Typed, Travelling
<1>2. /\ net' \in Seq(Datagrams) /\ \A k \in DOMAIN net' : SentBelow(net'[k], Unsent)
      /\ doubled' \in Nat
      /\ doubled' = 0 /\ overtaken = 0 => Ordered(ring, net', expected_seq)
  <2>1. ASSUME NEW i \in DOMAIN net, net' = Without(net, i), doubled' = doubled PROVE <1>2!:
    BY <1>1, <2>1, TakenOff
  <2>2. ASSUME NEW i \in DOMAIN net, net' = Append(net, net[i]), doubled' = doubled + 1
        PROVE <1>2!:
    <3> DEFINE d == net[i]
    <3>1. d \in Datagrams /\ SentBelow(d, Unsent)
      BY <1>1
    <3>2. net' = Append(net, d)
      BY <2>2
    <3> HIDE DEF d
    <3>3. \A k \in DOMAIN net' : net'[k] = d \/ (k \in DOMAIN net /\ net'[k] = net[k])
      BY <1>1, <3>1, <3>2
    <3> QED BY <1>1, <2>2, <3>1, <3>2, <3>3
  <2>3. ASSUME net' = << >>, doubled' = doubled PROVE <1>2!:
    <3>1. doubled = 0 /\ overtaken = 0 => Ordered(ring, net, expected_seq)
      BY <1>1 DEF InOrder
    <3>2. DOMAIN net' = {}
      BY <2>3
    <3> QED BY <1>1, <2>3, <3>1, <3>2 DEF Ordered
  <2> QED BY <2>1, <2>2, <2>3
<1>3. Unsent' = Unsent
  BY DEF Unsent
<1>4. Typed' /\ Travelling' /\ Heard'
  BY <1>1, <1>2, <1>3 DEF Typed, Travelling, Heard
<1>5. InOrder'
  BY <1>1, <1>2 DEF InOrder
<1>6. SkippedCounted' /\ DrainedAtExit'
  BY <1>1 DEF SkippedCounted, DrainedAtExit
<1> QED BY <1>4, <1>5, <1>6 DEF IInv

\* The book thread takes a datagram and accounts for it.
LEMMA PopKeeps ==
  ASSUME IInv, NEW k \in seen .. Len(ring), Receiver!Pop(k), UNCHANGED <<serverVars, faults>>
  PROVE  IInv'
<1> DEFINE d == ring[1]
           seq == d.seq
           len == Len(d.msgs)
           new == seq .. seq + len - 1
<1>1. /\ Typed /\ Travelling /\ Heard /\ InOrder /\ SkippedCounted /\ DrainedAtExit
      /\ net \in Seq(Datagrams) /\ ring \in Seq(Datagrams) /\ Len(ring) \in Nat
      /\ joined \in Nat /\ expected_seq \in Nat /\ got \in SUBSET Nat /\ messages_lost \in Nat
      /\ next_seq \in Nat /\ packet \in Seq(Nat) /\ seen \in Nat
  BY DEF IInv, Typed
<1>2. k > 0 /\ k \in Nat /\ ring # << >> /\ Head(ring) = d
  <2>1. k > 0
    BY DEF Receiver!Pop
  <2> QED BY <1>1, <2>1
<1>3. /\ expected_seq' = End(d)
      /\ messages_lost' = Counted(messages_lost, expected_seq, seq)
      /\ joined' = Joined(joined, seq)
      /\ got' = got \cup new
      /\ ring' = Tail(ring) /\ seen' = k - 1
      /\ UNCHANGED <<net, running, book_pc, next_msg, packet, next_seq, doubled, overtaken>>
      /\ book_pc = "pop"
  BY <1>2 DEF Receiver!Pop, Receiver!Account, Receiver!socketVars, serverVars, faults, End,
              Counted, Joined
<1>4. SentBelow(d, Unsent) /\ d \in Datagrams
  <2>1. 1 \in DOMAIN ring
    BY <1>1, <1>2
  <2> QED BY <1>1, <2>1 DEF Travelling, SentBelow
<1>5. seq \in Nat \ {0} /\ len \in Nat \ {0} /\ End(d) = seq + len /\ seq + len <= Unsent
  BY <1>4 DEF SentBelow, Datagrams, End
<1>6. Unsent' = Unsent /\ Unsent \in Nat /\ Unsent <= next_seq
  BY <1>1, <1>3 DEF Unsent, Typed
<1>7. doubled = 0 /\ overtaken = 0 => Ordered(Tail(ring), net, End(d)) /\ expected_seq <= seq
  <2> SUFFICES ASSUME doubled = 0 /\ overtaken = 0
               PROVE  Ordered(Tail(ring), net, End(d)) /\ expected_seq <= seq
    OBVIOUS
  <2>1. Ordered(ring, net, expected_seq)
    BY <1>1 DEF InOrder
  <2>2. 1 \in DOMAIN ring
    BY <1>1, <1>2
  <2> QED BY <1>1, <1>2, <2>1, <2>2, OrderedPop DEF Ordered
<1>8. ring' \in Seq(Datagrams) /\ \A i \in DOMAIN ring' : SentBelow(ring'[i], Unsent)
  <2>1. /\ ring' \in Seq(Datagrams)
        /\ \A i \in DOMAIN ring' : i + 1 \in DOMAIN ring /\ ring'[i] = ring[i + 1]
    BY <1>1, <1>2, <1>3
  <2> QED BY <1>1, <2>1 DEF Travelling
<1> HIDE DEF d, seq, len
<1>9. /\ joined = 0 => got = {} /\ expected_seq = 0 /\ messages_lost = 0
      /\ joined # 0 => joined \in got /\ expected_seq > 0 /\ expected_seq - 1 \in got
      /\ \A n \in got : 0 < n /\ n < Unsent
  BY <1>1 DEF Heard
<1>10. /\ Counted(messages_lost, expected_seq, seq) \in Nat
       /\ Counted(messages_lost, expected_seq, seq)
            >= Cardinality(Skipped(Joined(joined, seq), next_seq, got \cup new))
  <2>1. /\ joined \in Nat /\ expected_seq \in Nat /\ next_seq \in Nat /\ got \in SUBSET Nat
        /\ messages_lost \in Nat
    BY <1>1
  <2>2. seq \in Nat \ {0} /\ len \in Nat \ {0}
    BY <1>5
  <2>3. /\ joined = 0 => got = {}
        /\ joined # 0 => expected_seq > 0 /\ expected_seq - 1 \in got
    BY <1>9
  <2>4. messages_lost >= Cardinality(Skipped(joined, next_seq, got))
    BY <1>1 DEF SkippedCounted
  <2> QED BY <2>1, <2>2, <2>3, <2>4, NeverUnder
<1>11. Joined(joined, seq) \in Nat \ {0} /\ new \in SUBSET Nat
  BY <1>1, <1>5 DEF Joined
<1>12. Typed'
  <2>1. seen' \in Nat /\ expected_seq' \in Nat
    BY <1>2, <1>3, <1>5
  <2>2. messages_lost' \in Nat /\ joined' \in Nat
    BY <1>3, <1>10, <1>11
  <2>3. got' \in SUBSET Nat
    BY <1>1, <1>3, <1>11
  <2>4. ring' \in Seq(Datagrams)
    BY <1>8
  <2>5. UNCHANGED <<net, next_msg, packet, next_seq, doubled, overtaken>>
    BY <1>3
  <2> QED BY <1>1, <2>1, <2>2, <2>3, <2>4, <2>5 DEF Typed
<1>13. Travelling'
  BY <1>1, <1>3, <1>6, <1>8 DEF Travelling
<1>14. Heard'
  <2>1. Joined(joined, seq) \in got \cup new
    BY <1>1, <1>5, <1>9 DEF Joined
  <2>2. seq + len > 0 /\ (seq + len) - 1 \in new
    BY <1>5
  <2>3. \A n \in got \cup new : 0 < n /\ n < Unsent
    BY <1>5, <1>6, <1>9
  <2> HIDE DEF new
  <2> QED BY <1>3, <1>5, <1>6, <1>11, <2>1, <2>2, <2>3 DEF Heard
<1>15. InOrder'
  <2> SUFFICES ASSUME doubled = 0 /\ overtaken = 0
               PROVE  /\ Ordered(ring', net', expected_seq')
                      /\ joined' <= expected_seq' - 1 /\ got' \subseteq joined' .. expected_seq' - 1
                      /\ messages_lost' = Cardinality(Unheard(joined', expected_seq', got'))
    BY <1>3 DEF InOrder
  <2>1. /\ joined # 0 => joined <= expected_seq - 1 /\ got \subseteq joined .. expected_seq - 1
        /\ messages_lost = Cardinality(Unheard(joined, expected_seq, got))
    BY <1>1 DEF InOrder
  <2>2. ExactSoFar(joined, expected_seq, got, messages_lost) /\ expected_seq <= seq
    BY <1>7, <1>9, <2>1 DEF ExactSoFar
  <2>3. ExactSoFar(Joined(joined, seq), seq + len, got \cup new,
                   Counted(messages_lost, expected_seq, seq))
    BY <1>1, <1>5, <2>2, Exactly
  <2> HIDE DEF new
  <2> QED BY <1>3, <1>5, <1>7, <1>11, <2>3 DEF ExactSoFar
<1>16. SkippedCounted'
  BY <1>3, <1>10 DEF SkippedCounted
<1>17. DrainedAtExit'
  BY <1>3 DEF DrainedAtExit
<1> QED BY <1>12, <1>13, <1>14, <1>15, <1>16, <1>17 DEF IInv

\* The steps that move no datagram.
LEMMA OthersKeep ==
  ASSUME IInv, UNCHANGED <<next_msg, packet, next_seq, net, ring, expected_seq, messages_lost,
                           joined, got, doubled, overtaken>>,
         seen' \in Nat, DrainedAtExit'
  PROVE  IInv'
<1>1. Unsent' = Unsent
  BY DEF Unsent
<1>2. Typed' /\ Travelling' /\ Heard'
  BY <1>1 DEF IInv, Typed, Travelling, Heard
<1>3. InOrder' /\ SkippedCounted'
  BY DEF IInv, InOrder, SkippedCounted
<1> QED BY <1>2, <1>3 DEF IInv

\* Every step keeps the invariant.
LEMMA NextIInv == IInv /\ [Next]_vars => IInv'
<1> SUFFICES ASSUME IInv, [Next]_vars PROVE IInv'
  OBVIOUS
<1>0. /\ DrainedAtExit /\ overtaken \in Nat /\ seen \in Nat /\ net \in Seq(Datagrams)
      /\ Len(ring) \in Nat /\ ring \in Seq(Datagrams)
  BY DEF IInv, Typed
<1>1. CASE ServerStep
  BY <1>1, ServerKeeps
<1>2. CASE Recv
  <2>1. 1 \in DOMAIN net
    BY <1>0, <1>2 DEF Recv
  <2>2. /\ Receiver!Recv(1) /\ UNCHANGED <<serverVars, doubled>> /\ overtaken' = overtaken
    BY <1>2 DEF Recv, ReceiverStep, faults
  <2> QED BY <1>0, <2>1, <2>2, RecvKeeps
<1>3. ASSUME NEW i \in DOMAIN net, Overtake(i) PROVE IInv'
  <2>1. /\ Receiver!Recv(i) /\ UNCHANGED <<serverVars, doubled>> /\ overtaken' = overtaken + 1
    BY <1>3 DEF Overtake
  <2>2. overtaken' \in Nat /\ overtaken' # 0
    BY <1>0, <2>1
  <2> QED BY <2>1, <2>2, RecvKeeps
<1>4. ASSUME NEW i \in DOMAIN net, Lose(i) PROVE IInv'
  BY <1>4, NetworkKeeps DEF Lose, serverVars, receiverVars
<1>5. ASSUME NEW i \in DOMAIN net, Duplicate(i) PROVE IInv'
  BY <1>5, NetworkKeeps DEF Duplicate, serverVars, receiverVars
<1>6. CASE Undeliverable
  BY <1>6, NetworkKeeps DEF Undeliverable, serverVars, receiverVars, faults
<1>7. CASE Bind
  <2>1. /\ UNCHANGED <<next_msg, packet, next_seq, net, ring, expected_seq, messages_lost,
                       joined, got, doubled, overtaken>>
        /\ UNCHANGED <<seen, book_pc, running>>
    BY <1>7 DEF Bind, ReceiverStep, Receiver!Bind, Receiver!bookVars, serverVars, faults
  <2>2. DrainedAtExit'
    BY <1>0, <2>1 DEF DrainedAtExit
  <2> QED BY <1>0, <2>1, <2>2, OthersKeep
<1>8. CASE IdleTimeout
  <2>1. /\ UNCHANGED <<next_msg, packet, next_seq, net, ring, expected_seq, messages_lost,
                       joined, got, doubled, overtaken>>
        /\ UNCHANGED <<seen, book_pc>> /\ running' = FALSE
    BY <1>8 DEF IdleTimeout, ReceiverStep, Receiver!IdleTimeout, Receiver!bookVars, serverVars,
                faults
  <2>2. DrainedAtExit'
    BY <1>0, <2>1 DEF DrainedAtExit
  <2> QED BY <1>0, <2>1, <2>2, OthersKeep
<1>9. CASE BookThread
  <2>1. Receiver!BookThread /\ UNCHANGED <<serverVars, faults>>
    BY <1>9 DEF BookThread, ReceiverStep
  <2>2. ASSUME NEW k \in seen .. Len(ring), Receiver!Pop(k) PROVE IInv'
    BY <2>1, <2>2, PopKeeps
  <2>3. CASE Receiver!PopEmpty \/ Receiver!StillRunning \/ Receiver!Stopped
    <3>1. /\ UNCHANGED <<next_msg, packet, next_seq, net, ring, expected_seq, messages_lost,
                         joined, got, doubled, overtaken>>
      BY <2>1, <2>3 DEF Receiver!PopEmpty, Receiver!StillRunning, Receiver!Stopped, serverVars,
                        faults
    <3>2. CASE Receiver!PopEmpty \/ Receiver!StillRunning
      <4>1. book_pc' # "done" /\ seen' = seen
        BY <3>2 DEF Receiver!PopEmpty, Receiver!StillRunning
      <4>2. DrainedAtExit'
        BY <4>1 DEF DrainedAtExit
      <4> QED BY <1>0, <3>1, <4>1, <4>2, OthersKeep
    <3>3. CASE Receiver!Stopped
      <4>1. /\ seen' = Len(ring) /\ book_pc' = IF seen' = 0 THEN "done" ELSE "pop"
            /\ ~ running /\ running' = running
        BY <3>3 DEF Receiver!Stopped, Receiver!socketVars
      <4>2. book_pc' = "done" => ring' = << >>
        BY <1>0, <3>1, <4>1
      <4>3. DrainedAtExit'
        BY <4>1, <4>2 DEF DrainedAtExit
      <4> QED BY <1>0, <3>1, <4>1, <4>3, OthersKeep
    <3> QED BY <2>3, <3>2, <3>3
  <2> QED BY <2>1, <2>2, <2>3 DEF Receiver!BookThread
<1>10. CASE UNCHANGED vars
  <2>1. /\ UNCHANGED <<next_msg, packet, next_seq, net, ring, expected_seq, messages_lost,
                       joined, got, doubled, overtaken>>
        /\ UNCHANGED <<seen, book_pc, running>>
    BY <1>10 DEF vars, serverVars, receiverVars, faults
  <2>2. DrainedAtExit'
    BY <1>0, <2>1 DEF DrainedAtExit
  <2> QED BY <1>0, <2>1, <2>2, OthersKeep
<1>11. CASE Finished
  BY <1>10, <1>11 DEF Finished
<1> QED BY <1>1, <1>2, <1>3, <1>4, <1>5, <1>6, <1>7, <1>8, <1>9, <1>10, <1>11 DEF Next

\* The state of server, network and feed handler keeps its invariant.
THEOREM FeedInvariant == Spec => []IInv
BY InitIInv, NextIInv, PTL DEF Spec

\* Losses are counted precisely while the network keeps the order, however the
\* network, the full ring or a failed send lost them.
THEOREM LossesCounted == Spec => []CountedPrecisely
<1>1. IInv => CountedPrecisely
  BY DEF IInv, InOrder, CountedPrecisely, Missing, Unheard
<1> QED BY <1>1, FeedInvariant, PTL

\* Under reordering and duplicates too the count is never below the number of
\* numbered messages missing between the first one heard and the highest.
THEOREM LossesNotHidden == Spec => []NeverUndercounts
<1>1. IInv => NeverUndercounts
  BY DEF IInv, SkippedCounted, NeverUndercounts, Skipped
<1> QED BY <1>1, FeedInvariant, PTL

\* The receiver returns only with an empty ring.
THEOREM NothingLeft == Spec => []DrainedAtExit
<1>1. IInv => DrainedAtExit
  BY DEF IInv
<1> QED BY <1>1, FeedInvariant, PTL

----------------------------------------------------------------------------
(* Recursive functions *)

\* A set of natural numbers that is not empty has a least element.
LEMMA LeastNatural ==
  ASSUME NEW S \in SUBSET Nat, S # {}
  PROVE  \E n \in S : \A m \in S : n <= m
<1> DEFINE R == {ss \in Nat \X Nat : ss[1] < ss[2]}
<1>1. IsWellFoundedOn(R, Nat)
  BY NatLessThanWellFounded DEF OpToRel
<1> HIDE DEF R
<1>2. PICK n \in S : \A m \in S : ~ (<<m, n>> \in R)
  BY <1>1, WFMin
<1>3. \A m \in S : ~ (m < n)
  BY <1>2 DEF R
<1> QED BY <1>3

\* f begins with v and goes on by G.
Iterates(f, n, V, v, G) ==
  /\ f \in [0 .. n -> V] /\ f[0] = v
  /\ \A i \in 1 .. n : f[i] = G[i][f[i - 1]]

\* Every such recursion has a solution.
LEMMA RecursionExists ==
  ASSUME NEW n \in Nat, NEW V, NEW v \in V, NEW G \in [1 .. n -> [V -> V]]
  PROVE  \E f : Iterates(f, n, V, v, G)
<1> DEFINE T == {k \in 0 .. n : ~ \E f : Iterates(f, k, V, v, G)}
<1>1. CASE T = {}
  <2>1. n \in 0 .. n
    OBVIOUS
  <2>2. n \notin T
    BY <1>1
  <2> QED BY <2>1, <2>2
<1>2. CASE T # {}
  <2>1. T \in SUBSET Nat
    OBVIOUS
  <2>2. PICK k \in T : \A m \in T : k <= m
    <3> HIDE DEF T
    <3> QED BY <1>2, <2>1, LeastNatural
  <2>3. k # 0
    <3>1. Iterates([i \in 0 .. 0 |-> v], 0, V, v, G)
      BY DEF Iterates
    <3> QED BY <2>2, <3>1
  <2>4. k - 1 \in 0 .. n /\ k - 1 \notin T /\ k \in 1 .. n
    BY <2>2, <2>3
  <2>5. PICK f : Iterates(f, k - 1, V, v, G)
    BY <2>4
  <2>6. f \in [0 .. k - 1 -> V] /\ f[0] = v /\ f[k - 1] \in V
    <3>1. k - 1 \in 0 .. k - 1
      BY <2>4
    <3> QED BY <2>5, <3>1 DEF Iterates
  <2> DEFINE w == G[k][f[k - 1]]
             g == [i \in 0 .. k |-> IF i = k THEN w ELSE f[i]]
  <2>7. w \in V
    BY <2>4, <2>6
  <2> HIDE DEF w
  <2>8. g \in [0 .. k -> V] /\ g[0] = v
    <3>1. ASSUME NEW i \in 0 .. k, i # k PROVE f[i] \in V
      <4>1. i \in 0 .. k - 1
        BY <2>4, <3>1
      <4> QED BY <2>6, <4>1
    <3>2. k # 0 /\ 0 \in 0 .. k
      BY <2>3, <2>4
    <3> QED BY <2>6, <2>7, <3>1, <3>2
  <2>9. ASSUME NEW i \in 1 .. k PROVE g[i] = G[i][g[i - 1]]
    <3>1. i \in 0 .. k /\ i - 1 \in 0 .. k /\ i - 1 # k
      BY <2>4
    <3>2. g[i - 1] = f[i - 1]
      BY <3>1
    <3>3. CASE i = k
      BY <3>1, <3>2, <3>3 DEF w
    <3>4. CASE i # k
      <4>1. i \in 1 .. k - 1
        BY <2>4, <3>4
      <4>2. g[i] = f[i]
        BY <3>1, <3>4
      <4> HIDE DEF g
      <4> QED BY <2>5, <3>2, <4>1, <4>2 DEF Iterates
    <3> QED BY <3>3, <3>4
  <2>10. Iterates(g, k, V, v, G)
    <3> HIDE DEF g
    <3> QED BY <2>8, <2>9 DEF Iterates
  <2> QED BY <2>2, <2>10
<1> QED BY <1>1, <1>2

\* A function that obeys such a recursion stays in V.
LEMMA RecursionIs ==
  ASSUME NEW n \in Nat, NEW V, NEW v \in V, NEW G \in [1 .. n -> [V -> V]],
         NEW f, f = [i \in 0 .. n |-> f[i]], f[0] = v,
         \A i \in 1 .. n : f[i - 1] \in V => f[i] = G[i][f[i - 1]]
  PROVE  Iterates(f, n, V, v, G)
<1>1. \A i \in 0 .. n : f[i] \in V
  <2> DEFINE T == {i \in 0 .. n : f[i] \notin V}
  <2> SUFFICES ASSUME T # {} PROVE FALSE
    OBVIOUS
  <2>1. T \in SUBSET Nat
    OBVIOUS
  <2>2. PICK i \in T : \A m \in T : i <= m
    <3> HIDE DEF T
    <3> QED BY <2>1, LeastNatural
  <2>3. i # 0
    BY <2>2
  <2>4. i \in 1 .. n /\ i - 1 \in 0 .. n /\ i - 1 \notin T
    BY <2>2, <2>3
  <2>5. f[i - 1] \in V /\ f[i] = G[i][f[i - 1]]
    BY <2>4
  <2> QED BY <2>2, <2>4, <2>5
<1>2. f \in [0 .. n -> V]
  BY <1>1
<1>3. \A i \in 1 .. n : i - 1 \in 0 .. n
  OBVIOUS
<1> QED BY <1>1, <1>2, <1>3 DEF Iterates

----------------------------------------------------------------------------
(* What the receive loop makes of a run of messages *)

\* Messages, directories, and the state of the receive loop.
Msgs == [type : STRING, len : Nat, locate : Locates, name : STRING, ts : Nat]

Dirs == [symbols : [Locates -> STRING \cup {Unknown}], subscribed : SUBSET Locates,
         pending : Seq(STRING), all : BOOLEAN]

States == [dir : Dirs, applied : Seq(Msgs)]

\* The search of the waiting names finds one if there is one.
LEMMA PendingIs ==
  ASSUME NEW d \in Dirs, NEW name
  PROVE  IF \E i \in DOMAIN d.pending : d.pending[i] = name
           THEN /\ Receiver!PendingAt(d, name) \in DOMAIN d.pending
                /\ d.pending[Receiver!PendingAt(d, name)] = name
           ELSE Receiver!PendingAt(d, name) = 0
<1> DEFINE p == d.pending
           I == {i \in 1 .. Len(p) : p[i] = name}
<1>1. p \in Seq(STRING) /\ DOMAIN p = 1 .. Len(p) /\ Len(p) \in Nat
  BY DEF Dirs
<1>2. Receiver!PendingAt(d, name) = IF I # {} THEN Receiver!Min(I) ELSE 0
  BY DEF Receiver!PendingAt, Receiver!SelectInSeq
<1>3. CASE I # {}
  <2>1. \E i \in I : \A j \in I : i <= j
    <3>1. I \in SUBSET Nat
      BY <1>1
    <3> HIDE DEF I
    <3> QED BY <1>3, <3>1, LeastNatural
  <2>2. Receiver!Min(I) \in I
    BY <2>1 DEF Receiver!Min
  <2> QED BY <1>1, <1>2, <1>3, <2>2
<1>4. CASE I = {}
  BY <1>1, <1>2, <1>4
<1> QED BY <1>3, <1>4

\* Taking a name off the list leaves one name less.
LEMMA DropIs ==
  ASSUME NEW p \in Seq(STRING), NEW i \in DOMAIN p
  PROVE  Receiver!DropPending(p, i) \in Seq(STRING)
         /\ Len(Receiver!DropPending(p, i)) = Len(p) - 1
<1> DEFINE n == Len(p)
           q == [p EXCEPT ![i] = p[n]]
<1>1. n \in Nat \ {0} /\ i \in 1 .. n /\ DOMAIN p = 1 .. n
  OBVIOUS
<1>2. q \in Seq(STRING) /\ Len(q) = n
  BY <1>1
<1>3. Receiver!DropPending(p, i) = SubSeq(q, 1, n - 1)
  BY DEF Receiver!DropPending
<1> HIDE DEF q, n
<1> QED BY <1>1, <1>2, <1>3 DEF n

\* A subscription waits for the name.
Waits(d, name) == \E i \in DOMAIN d.pending : d.pending[i] = name

\* What an 'R' message makes of the directory.
LEMMA FeedIs ==
  ASSUME NEW d \in Dirs, NEW l \in Locates, NEW name \in STRING
  PROVE  LET e == Receiver!feed(d, l, name)
         IN  /\ e \in Dirs /\ e.all = d.all
             /\ ~ Waits(d, name) => e.subscribed = d.subscribed /\ e.pending = d.pending
             /\ Waits(d, name) => /\ e.subscribed = d.subscribed \cup {l}
                                  /\ Len(e.pending) = Len(d.pending) - 1
<1> DEFINE i == Receiver!PendingAt(d, name)
           named == [d EXCEPT !.symbols[l] = name]
           e == Receiver!feed(d, l, name)
<1>1. named \in Dirs /\ named.all = d.all /\ named.subscribed = d.subscribed
      /\ named.pending = d.pending
  BY DEF Dirs
<1>2. CASE ~ Waits(d, name)
  <2>1. e = named
    BY <1>2, PendingIs DEF Waits, Receiver!feed
  <2> HIDE DEF e, named
  <2> QED BY <1>1, <1>2, <2>1 DEF e
<1>3. CASE Waits(d, name)
  <2> DEFINE q == Receiver!DropPending(d.pending, i)
  <2>1. i \in DOMAIN d.pending /\ i # 0 /\ d.pending \in Seq(STRING)
    <3>1. i \in DOMAIN d.pending
      BY <1>3, PendingIs DEF Waits
    <3> QED BY <3>1 DEF Dirs
  <2>2. q \in Seq(STRING) /\ Len(q) = Len(d.pending) - 1
    <3> HIDE DEF i
    <3> QED BY <2>1, DropIs
  <2>3. e = [named EXCEPT !.subscribed = @ \cup {l}, !.pending = q]
    BY <1>1, <2>1 DEF Receiver!feed
  <2> HIDE DEF q, i, named
  <2>4. e \in Dirs /\ e.all = d.all /\ e.subscribed = d.subscribed \cup {l} /\ e.pending = q
    <3>1. named.subscribed \cup {l} \in SUBSET Locates
      BY <1>1 DEF Dirs
    <3> HIDE DEF e
    <3> QED BY <1>1, <2>2, <2>3, <3>1 DEF Dirs
  <2> HIDE DEF e
  <2> QED BY <1>3, <2>2, <2>4 DEF e
<1> QED BY <1>2, <1>3

\* One message keeps the state of the loop a state of the loop.
LEMMA ConsumeTyped ==
  ASSUME NEW s \in States, NEW m \in Msgs
  PROVE  Receiver!Consume(s, m) \in States
<1>1. s.dir \in Dirs /\ s.applied \in Seq(Msgs)
  BY DEF States
<1>2. Receiver!feed(s.dir, m.locate, m.name) \in Dirs
  <2>1. m.locate \in Locates /\ m.name \in STRING
    BY DEF Msgs
  <2> QED BY <1>1, <2>1, FeedIs
<1>3. Append(s.applied, m) \in Seq(Msgs)
  BY <1>1
<1>4. CASE Receiver!IsDirectory(m)
  <2>1. Receiver!Consume(s, m) = [s EXCEPT !.dir = Receiver!feed(s.dir, m.locate, m.name)]
    BY <1>4 DEF Receiver!Consume, States
  <2> QED BY <1>1, <1>2, <2>1 DEF States
<1>5. CASE ~ Receiver!IsDirectory(m)
  <2>1. \/ Receiver!Consume(s, m) = [s EXCEPT !.applied = Append(s.applied, m)]
        \/ Receiver!Consume(s, m) = s
    BY <1>5 DEF Receiver!Consume, States
  <2> QED BY <1>1, <1>3, <2>1 DEF States
<1> QED BY <1>4, <1>5

\* f is the state of the loop after 0, 1, 2, ... messages of q.
Runs(f, s, q) ==
  /\ f \in [0 .. Len(q) -> States] /\ f[0] = s
  /\ \A i \in 1 .. Len(q) : f[i] = Receiver!Consume(f[i - 1], q[i])

\* A datagram is consumed message by message.
LEMMA ConsumeAllIs ==
  ASSUME NEW s \in States, NEW q \in Seq(Msgs)
  PROVE  \E f : Runs(f, s, q) /\ Receiver!ConsumeAll(s, q) = f[Len(q)]
<1> DEFINE n == Len(q)
           V == States
           C(t, m) == Receiver!Consume(t, m)
           G == [i \in 1 .. n |-> [t \in V |-> C(t, q[i])]]
           Body(g) == [i \in 0 .. n |-> IF i = 0 THEN s ELSE C(g[i - 1], q[i])]
           f == CHOOSE g : g = Body(g)
<1>1. n \in Nat /\ \A i \in 1 .. n : q[i] \in Msgs
  OBVIOUS
<1>2. Receiver!ConsumeAll(s, q) = f[n]
  BY DEF Receiver!ConsumeAll
<1>3. \A t \in V, m \in Msgs : C(t, m) \in V
  BY ConsumeTyped
<1> HIDE DEF n, V, C
<1>4. G \in [1 .. n -> [V -> V]] /\ \A i \in 1 .. n, t \in V : G[i][t] = C(t, q[i])
  BY <1>1, <1>3
<1>5. s \in V
  BY DEF V
<1> HIDE DEF G
<1>6. PICK h : Iterates(h, n, V, s, G)
  BY <1>1, <1>4, <1>5, RecursionExists
<1>7. h = Body(h)
  <2>1. h \in [0 .. n -> V] /\ h[0] = s
    BY <1>6 DEF Iterates
  <2>2. ASSUME NEW i \in 0 .. n, i # 0 PROVE h[i] = C(h[i - 1], q[i])
    <3>1. i \in 1 .. n /\ i - 1 \in 0 .. n
      BY <1>1, <2>2
    <3> QED BY <1>4, <1>6, <2>1, <3>1 DEF Iterates
  <2> QED BY <2>1, <2>2
<1>8. f = Body(f)
  <2> HIDE DEF Body
  <2> QED BY <1>7
<1> HIDE DEF f
<1>9. f[0] = s /\ f = [i \in 0 .. n |-> f[i]] /\ \A i \in 1 .. n : f[i] = C(f[i - 1], q[i])
  <2>1. 0 \in 0 .. n /\ \A i \in 1 .. n : i \in 0 .. n /\ i # 0
    BY <1>1
  <2>2. \A i \in 0 .. n : f[i] = IF i = 0 THEN s ELSE C(f[i - 1], q[i])
    BY <1>8
  <2>3. DOMAIN f = 0 .. n
    BY <1>8
  <2>4. f = [i \in 0 .. n |-> f[i]]
    BY <1>8, <2>3
  <2> QED BY <2>1, <2>2, <2>4
<1>10. Iterates(f, n, V, s, G)
  <2>1. \A i \in 1 .. n : f[i - 1] \in V => f[i] = G[i][f[i - 1]]
    BY <1>4, <1>9
  <2> QED BY <1>1, <1>4, <1>5, <1>9, <2>1, RecursionIs
<1>11. Runs(f, s, q)
  BY <1>9, <1>10 DEF Iterates, Runs, n, V, C
<1> QED BY <1>2, <1>11 DEF n

\* The state of the loop before the first message, and after each of the file.
Start == [dir |-> Receiver!subscribe(Receiver!NewDirectory, Ticker), applied |-> << >>]

Read == CHOOSE f : Runs(f, Start, File)

\* main's subscription waits for its directory message.
LEMMA StartIs ==
  /\ Start \in States /\ Start.dir.all = FALSE /\ Start.dir.subscribed = {}
  /\ Start.dir.pending = <<Ticker>> /\ Start.applied = << >>
<1> DEFINE d == Receiver!NewDirectory
           e == Receiver!subscribe(d, Ticker)
<1>1. d \in Dirs /\ d.pending = << >> /\ d.subscribed = {} /\ d.all = FALSE
      /\ \A l \in Locates : d.symbols[l] = Unknown
  BY DEF Receiver!NewDirectory, Dirs
<1> HIDE DEF d
<1>2. Receiver!KnownAs(d, Ticker) = {}
  BY <1>1, TickerAssumption DEF Receiver!KnownAs
<1>3. e = [d EXCEPT !.pending = Append(d.pending, Ticker)]
  BY <1>1, <1>2, TickerAssumption DEF Receiver!subscribe, Dirs
<1>4. Append(d.pending, Ticker) = <<Ticker>> /\ <<Ticker>> \in Seq(STRING)
  BY <1>1, TickerAssumption
<1>5. e \in Dirs /\ e.pending = <<Ticker>> /\ e.subscribed = {} /\ e.all = FALSE
  <2> HIDE DEF e
  <2> QED BY <1>1, <1>3, <1>4 DEF Dirs
<1> HIDE DEF e
<1>6. Start = [dir |-> e, applied |-> << >>]
  BY DEF Start, e, d
<1> QED BY <1>5, <1>6 DEF States

\* The file has such a run.
LEMMA ReadIs == Runs(Read, Start, File) /\ File \in Seq(Msgs)
<1>1. File \in Seq(Msgs)
  BY FileAssumption DEF Msgs
<1>2. \E f : Runs(f, Start, File)
  BY <1>1, StartIs, ConsumeAllIs
<1> QED BY <1>1, <1>2 DEF Read

\* A datagram with the messages that come next takes the loop on to the state
\* after them.
LEMMA ReadOn ==
  ASSUME NEW a \in Nat, NEW q \in Seq(Msgs), a + Len(q) <= Len(File),
         \A j \in 1 .. Len(q) : q[j] = File[a + j]
  PROVE  Receiver!ConsumeAll(Read[a], q) = Read[a + Len(q)] /\ Read[a + Len(q)] \in States
<1> DEFINE n == Len(q)
           N == Len(File)
<1>1. n \in Nat /\ N \in Nat /\ a + n <= N
  BY ReadIs
<1>2. /\ Read \in [0 .. N -> States]
      /\ \A i \in 1 .. N : Read[i] = Receiver!Consume(Read[i - 1], File[i])
  BY ReadIs DEF Runs
<1>3. Read[a] \in States
  <2>1. a \in 0 .. N
    BY <1>1
  <2> HIDE DEF N
  <2> QED BY <1>2, <2>1
<1>4. PICK f : Runs(f, Read[a], q) /\ Receiver!ConsumeAll(Read[a], q) = f[n]
  BY <1>3, ConsumeAllIs
<1>5. f[0] = Read[a] /\ \A i \in 1 .. n : f[i] = Receiver!Consume(f[i - 1], q[i])
  BY <1>4 DEF Runs
<1> HIDE DEF n, N
<1>6. \A j \in 0 .. n : f[j] = Read[a + j]
  <2> DEFINE T == {j \in 0 .. n : f[j] # Read[a + j]}
  <2> SUFFICES ASSUME T # {} PROVE FALSE
    OBVIOUS
  <2>1. T \in SUBSET Nat
    BY <1>1
  <2>2. PICK j \in T : \A k \in T : j <= k
    <3> HIDE DEF T
    <3> QED BY <2>1, LeastNatural
  <2>3. j # 0
    BY <1>5, <2>2
  <2>4. /\ j \in 1 .. n /\ j - 1 \in 0 .. n /\ a + j \in 1 .. N
        /\ (a + j) - 1 = a + (j - 1)
    BY <1>1, <2>2, <2>3
  <2>5. f[j - 1] = Read[(a + j) - 1]
    <3>1. j - 1 \notin T
      BY <2>2, <2>4
    <3> QED BY <2>4, <3>1
  <2>6. f[j] = Receiver!Consume(f[j - 1], q[j]) /\ q[j] = File[a + j]
    BY <1>5, <2>4 DEF n
  <2>7. Read[a + j] = Receiver!Consume(Read[(a + j) - 1], File[a + j])
    BY <1>2, <2>4
  <2> QED BY <2>2, <2>5, <2>6, <2>7
<1>7. a + n \in 0 .. N /\ n \in 0 .. n
  BY <1>1
<1> QED BY <1>2, <1>4, <1>6, <1>7 DEF n

\* What the file replay has applied after each message.
Filtered(g) ==
  /\ g \in [0 .. Len(File) -> Seq(Msgs)] /\ g[0] = << >>
  /\ \A i \in 1 .. Len(File) :
       g[i] = IF ForBook(File[i]) THEN Append(g[i - 1], File[i]) ELSE g[i - 1]

\* FileReplayed is what is left of the file.
LEMMA FileReplayedIs == \E g : Filtered(g) /\ FileReplayed = g[Len(File)]
<1> DEFINE n == Len(File)
           V == Seq(Msgs)
           C(v, i) == IF ForBook(File[i]) THEN Append(v, File[i]) ELSE v
           G == [i \in 1 .. n |-> [v \in V |-> C(v, i)]]
           Body(g) == [i \in 0 .. n |->
                         IF i = 0 THEN << >>
                         ELSE IF ForBook(File[i]) THEN Append(g[i - 1], File[i]) ELSE g[i - 1]]
           f == CHOOSE g : g = Body(g)
<1>1. n \in Nat /\ << >> \in V /\ \A i \in 1 .. n : File[i] \in Msgs
  BY ReadIs
<1>2. FileReplayed = f[n]
  BY DEF FileReplayed
<1>3. \A v \in V, i \in 1 .. n : C(v, i) \in V
  BY <1>1
<1>4. \A g : Body(g) = [i \in 0 .. n |-> IF i = 0 THEN << >> ELSE C(g[i - 1], i)]
  OBVIOUS
<1> HIDE DEF n, V, C, Body
<1>5. G \in [1 .. n -> [V -> V]] /\ \A i \in 1 .. n, v \in V : G[i][v] = C(v, i)
  BY <1>3
<1> HIDE DEF G
<1>6. PICK h : Iterates(h, n, V, << >>, G)
  BY <1>1, <1>5, RecursionExists
<1>7. h = Body(h)
  <2>1. h \in [0 .. n -> V] /\ h[0] = << >>
    BY <1>6 DEF Iterates
  <2>2. ASSUME NEW i \in 0 .. n, i # 0 PROVE h[i] = C(h[i - 1], i)
    <3>1. i \in 1 .. n /\ i - 1 \in 0 .. n
      BY <1>1, <2>2
    <3> QED BY <1>5, <1>6, <2>1, <3>1 DEF Iterates
  <2> QED BY <1>4, <2>1, <2>2
<1>8. f = Body(f)
  BY <1>7
<1> HIDE DEF f
<1>9. f[0] = << >> /\ f = [i \in 0 .. n |-> f[i]] /\ \A i \in 1 .. n : f[i] = C(f[i - 1], i)
  <2>0. f = [i \in 0 .. n |-> IF i = 0 THEN << >> ELSE C(f[i - 1], i)]
    BY <1>4, <1>8
  <2>1. 0 \in 0 .. n /\ \A i \in 1 .. n : i \in 0 .. n /\ i # 0
    BY <1>1
  <2>2. \A i \in 0 .. n : f[i] = IF i = 0 THEN << >> ELSE C(f[i - 1], i)
    BY <2>0
  <2>3. DOMAIN f = 0 .. n
    BY <2>0
  <2>4. f = [i \in 0 .. n |-> f[i]]
    BY <2>0, <2>3
  <2> QED BY <2>1, <2>2, <2>4
<1>10. Iterates(f, n, V, << >>, G)
  <2>1. \A i \in 1 .. n : f[i - 1] \in V => f[i] = G[i][f[i - 1]]
    BY <1>5, <1>9
  <2> QED BY <1>1, <1>5, <1>9, <2>1, RecursionIs
<1>11. Filtered(f)
  BY <1>9, <1>10 DEF Iterates, Filtered, n, V, C
<1> QED BY <1>2, <1>11 DEF n

\* The directory message of the ticker is among the first i messages.
Told(i, l) ==
  \E j \in 1 .. i : File[j].type = "R" /\ File[j].name = Ticker /\ File[j].locate = l

\* The parser accepts the messages for the book, all of the length they have.
LEMMA ParseIs ==
  ASSUME NEW i \in 1 .. Len(File)
  PROVE  /\ Receiver!IsDirectory(File[i]) <=> File[i].type = "R"
         /\ Receiver!parse(File[i]) = "parsed" <=> Receiver!is_book_message(File[i].type)
         /\ Receiver!is_book_message(File[i].type) => File[i].len >= 11
<1> DEFINE m == File[i]
           t == m.type
           L == Receiver!Lengths
<1>1. i \in DOMAIN File /\ m \in Msgs
  BY ReadIs
<1>2. t \in DOMAIN L => m.len = L[t]
  BY <1>1, FileAssumption
<1>3. "R" \in DOMAIN L /\ L["R"] = 39
  BY DEF Receiver!Lengths
<1>4. Receiver!is_book_message(t) => t \in DOMAIN L /\ L[t] \in Nat /\ L[t] >= 11
  BY DEF Receiver!Lengths, Receiver!is_book_message
<1> HIDE DEF L
<1>5. Receiver!IsDirectory(m) <=> t = "R"
  BY <1>2, <1>3 DEF Receiver!IsDirectory
<1>6. CASE Receiver!is_book_message(t)
  <2>1. t \in DOMAIN L /\ m.len = L[t] /\ L[t] \in Nat /\ L[t] >= 11
    BY <1>2, <1>4, <1>6
  <2>2. Receiver!expected_length(t) = L[t]
    BY <2>1 DEF Receiver!expected_length, L
  <2> HIDE DEF m, t
  <2>3. Receiver!parse(m) = "parsed"
    BY <1>6, <2>1, <2>2 DEF Receiver!parse, Receiver!Header, t
  <2> QED BY <1>5, <1>6, <2>1, <2>3 DEF m, t
<1>7. CASE ~ Receiver!is_book_message(t)
  <2>1. Receiver!parse(m) # "parsed"
    BY <1>7 DEF Receiver!parse
  <2> QED BY <1>5, <1>7, <2>1
<1> QED BY <1>6, <1>7

\* The state of the loop as the ticker sees it: its locate is subscribed once
\* its directory message was read, and what was applied is the replay's.
Following(i, s, g) ==
  /\ s.dir.all = FALSE
  /\ \A l \in Locates : l \in s.dir.subscribed <=> Told(i, l)
  /\ s.dir.pending = IF \E l \in Locates : Told(i, l) THEN << >> ELSE <<Ticker>>
  /\ s.applied = g[i]

\* A directory message: the ticker's is the one that resolves the subscription.
LEMMA FollowDirectory ==
  ASSUME NEW g, Filtered(g), NEW i \in 1 .. Len(File), NEW s \in States,
         Following(i - 1, s, g), File[i].type = "R"
  PROVE  Following(i, Receiver!Consume(s, File[i]), g)
<1> DEFINE m == File[i]
           d == s.dir
           e == Receiver!feed(d, m.locate, m.name)
           r == Receiver!Consume(s, m)
           waits == Waits(d, m.name)
<1>1. m \in Msgs /\ d \in Dirs /\ i \in Nat
  BY ReadIs DEF States
<1>2. m.locate \in Locates /\ m.name \in STRING
  BY <1>1 DEF Msgs
<1>3. r.dir = e /\ r.applied = s.applied
  BY ParseIs DEF Receiver!Consume, States
<1>4. g[i] = g[i - 1]
  BY DEF Filtered, ForBook
<1>5. /\ e \in Dirs /\ e.all = d.all
      /\ ~ waits => e.subscribed = d.subscribed /\ e.pending = d.pending
      /\ waits => /\ e.subscribed = d.subscribed \cup {m.locate}
                  /\ Len(e.pending) = Len(d.pending) - 1
  <2> HIDE DEF d, m
  <2> QED BY <1>1, <1>2, FeedIs
<1>6. \A l : Told(i, l) <=> Told(i - 1, l) \/ (m.name = Ticker /\ m.locate = l)
  <2>1. \A j : j \in 1 .. i <=> j \in 1 .. i - 1 \/ j = i
    BY <1>1
  <2> HIDE DEF m
  <2>2. m = File[i] /\ m.type = "R"
    BY DEF m
  <2> QED BY <2>1, <2>2 DEF Told
<1>7. /\ d.all = FALSE
      /\ \A l \in Locates : l \in d.subscribed <=> Told(i - 1, l)
      /\ d.pending = IF \E l \in Locates : Told(i - 1, l) THEN << >> ELSE <<Ticker>>
      /\ s.applied = g[i - 1]
  BY DEF Following
<1>8. waits <=> m.name = Ticker /\ ~ \E l \in Locates : Told(i - 1, l)
  <2>1. DOMAIN << >> = {} /\ DOMAIN <<Ticker>> = {1} /\ <<Ticker>>[1] = Ticker
    OBVIOUS
  <2> QED BY <1>7, <2>1 DEF Waits
<1> HIDE DEF waits, e, d, m
<1>9. CASE waits
  <2>1. \A l \in Locates : l \in e.subscribed <=> Told(i, l)
    BY <1>2, <1>5, <1>6, <1>7, <1>8, <1>9
  <2>2. e.pending = << >>
    <3>1. Len(<<Ticker>>) = 1 /\ e.pending \in Seq(STRING)
      BY <1>5 DEF Dirs
    <3>2. Len(e.pending) = 0
      BY <1>5, <1>7, <1>8, <1>9, <3>1
    <3> QED BY <3>1, <3>2
  <2>3. \E l \in Locates : Told(i, l)
    BY <1>2, <1>6, <1>8, <1>9
  <2> QED BY <1>3, <1>4, <1>5, <1>7, <2>1, <2>2, <2>3 DEF Following, m
<1>10. CASE ~ waits
  <2>1. ASSUME NEW l \in Locates PROVE Told(i, l) <=> Told(i - 1, l)
    <3>1. CASE m.name # Ticker
      BY <1>6, <3>1
    <3>2. CASE m.name = Ticker
      <4>1. PICK k \in Locates : Told(i - 1, k)
        BY <1>8, <1>10, <3>2
      <4>2. PICK j \in 1 .. i - 1 :
              File[j].type = "R" /\ File[j].name = Ticker /\ File[j].locate = k
        BY <4>1 DEF Told
      <4>3. i \in DOMAIN File /\ j \in DOMAIN File
        BY <1>1, ReadIs
      <4>4. m.locate = k
        BY <3>2, <4>2, <4>3, FileAssumption DEF m
      <4> QED BY <1>6, <4>1, <4>4
    <3> QED BY <3>1, <3>2
  <2> QED BY <1>3, <1>4, <1>5, <1>7, <1>10, <2>1 DEF Following, m
<1> QED BY <1>9, <1>10

\* Any other message: the filter by locate lets through what is about the
\* ticker.
LEMMA FollowOther ==
  ASSUME NEW g, Filtered(g), NEW i \in 1 .. Len(File), NEW s \in States,
         Following(i - 1, s, g), File[i].type # "R"
  PROVE  Following(i, Receiver!Consume(s, File[i]), g)
<1> DEFINE m == File[i]
           d == s.dir
           r == Receiver!Consume(s, m)
           book == Receiver!is_book_message(m.type)
<1>1. m \in Msgs /\ i \in Nat /\ i \in DOMAIN File
  BY ReadIs
<1>2. m.locate \in Locates /\ m.name \in STRING /\ m.len \in Nat
  BY <1>1 DEF Msgs
<1>3. \A l : Told(i, l) <=> Told(i - 1, l)
  <2>1. 1 .. i = (1 .. i - 1) \cup {i}
    BY <1>1
  <2> QED BY <2>1 DEF Told
<1>4. /\ d.all = FALSE
      /\ \A l \in Locates : l \in d.subscribed <=> Told(i - 1, l)
      /\ d.pending = IF \E l \in Locates : Told(i - 1, l) THEN << >> ELSE <<Ticker>>
      /\ s.applied = g[i - 1]
  BY DEF Following
<1>5. /\ ~ Receiver!IsDirectory(m)
      /\ Receiver!parse(m) = "parsed" <=> book
      /\ book => m.len >= 11
  BY ParseIs
<1>6. g[i] = IF m.name = Ticker /\ book THEN Append(g[i - 1], m) ELSE g[i - 1]
  BY DEF Filtered, ForBook, Receiver!is_book_message
<1>7. book => (Receiver!Wanted(d, m) <=> m.name = Ticker)
  <2> SUFFICES ASSUME book PROVE Receiver!Wanted(d, m) <=> m.name = Ticker
    OBVIOUS
  <2>1. Receiver!Wanted(d, m) <=> Told(i - 1, m.locate)
    BY <1>2, <1>4, <1>5 DEF Receiver!Wanted, Receiver!is_subscribed
  <2>2. ASSUME Told(i - 1, m.locate) PROVE m.name = Ticker
    <3>1. PICK j \in 1 .. i - 1 :
            File[j].type = "R" /\ File[j].name = Ticker /\ File[j].locate = m.locate
      BY <2>2 DEF Told
    <3>2. j \in DOMAIN File
      BY <1>1, ReadIs
    <3> QED BY <1>1, <3>1, <3>2, FileAssumption
  <2>3. ASSUME m.name = Ticker PROVE Told(i - 1, m.locate)
    <3>1. PICK j \in 1 .. i - 1 : File[j].type = "R" /\ File[j].name = m.name
      BY <1>1, FileAssumption
    <3>2. j \in DOMAIN File
      BY <1>1, ReadIs
    <3>3. File[j].locate = m.locate
      BY <1>1, <3>1, <3>2, FileAssumption
    <3> QED BY <2>3, <3>1, <3>3 DEF Told
  <2> QED BY <2>1, <2>2, <2>3
<1>8. r.dir = d /\ r.applied = g[i]
  <2>1. CASE m.name = Ticker /\ book
    <3>1. r = [s EXCEPT !.applied = Append(s.applied, m)]
      BY <1>5, <1>7, <2>1 DEF Receiver!Consume, States
    <3>2. r.dir = s.dir /\ r.applied = Append(s.applied, m)
      BY <3>1 DEF States
    <3> QED BY <1>4, <1>6, <2>1, <3>2
  <2>2. CASE ~ (m.name = Ticker /\ book)
    <3>1. ~ (Receiver!Wanted(s.dir, m) /\ Receiver!parse(m) = "parsed")
      BY <1>5, <1>7, <2>2
    <3>2. r = s
      <4> HIDE DEF m
      <4> QED BY <1>5, <3>1 DEF Receiver!Consume
    <3> QED BY <1>4, <1>6, <2>2, <3>2
  <2> QED BY <2>1, <2>2
<1> HIDE DEF r, d
<1> QED BY <1>3, <1>4, <1>8 DEF Following, r, d

\* The receive loop, given every message in order, applies what the file
\* replay applies.
LEMMA ReadReplays == Read[Len(File)].applied = FileReplayed
<1> DEFINE N == Len(File)
<1>1. PICK g : Filtered(g) /\ FileReplayed = g[N]
  BY FileReplayedIs
<1>2. /\ N \in Nat /\ Read \in [0 .. N -> States] /\ Read[0] = Start
      /\ \A i \in 1 .. N : Read[i] = Receiver!Consume(Read[i - 1], File[i])
  BY ReadIs DEF Runs
<1>3. \A i \in 0 .. N : Following(i, Read[i], g)
  <2> DEFINE T == {i \in 0 .. N : ~ Following(i, Read[i], g)}
  <2> SUFFICES ASSUME T # {} PROVE FALSE
    OBVIOUS
  <2>1. T \in SUBSET Nat
    BY <1>2
  <2>2. PICK i \in T : \A k \in T : i <= k
    <3> HIDE DEF T
    <3> QED BY <2>1, LeastNatural
  <2>3. i # 0
    <3>1. \A l : ~ Told(0, l)
      BY DEF Told
    <3>2. Following(0, Read[0], g)
      BY <1>1, <1>2, <3>1, StartIs DEF Following, Filtered
    <3> QED BY <2>2, <3>2
  <2>4. i \in 1 .. N /\ i - 1 \in 0 .. N
    BY <1>2, <2>2, <2>3
  <2>5. Following(i - 1, Read[i - 1], g)
    <3>1. i - 1 \notin T
      BY <2>2, <2>4
    <3> QED BY <2>4, <3>1
  <2>6. Read[i] = Receiver!Consume(Read[i - 1], File[i]) /\ Read[i - 1] \in States
    BY <1>2, <2>4
  <2>7. Following(i, Read[i], g)
    BY <1>1, <2>4, <2>5, <2>6, FollowDirectory, FollowOther
  <2> QED BY <2>2, <2>7
<1>4. N \in 0 .. N
  BY <1>2
<1> HIDE DEF N
<1> QED BY <1>1, <1>3, <1>4 DEF Following, N

----------------------------------------------------------------------------
(* A clean run and the file *)

\* The messages of the datagram are those its sequence numbers say, if the
\* server has dropped none.
InPlace(d) == \A j \in DOMAIN d.msgs : d.msgs[j] = d.seq + j - 1

\* The server numbers no more messages than it reads; as long as it has dropped
\* none, a sequence number is a place in the file.
Aligned ==
  /\ next_seq <= next_msg /\ next_msg <= Len(File) + 1
  /\ next_msg = next_seq =>
       /\ \A j \in DOMAIN packet : packet[j] = Unsent + j - 1
       /\ \A i \in DOMAIN net : InPlace(net[i])
       /\ \A i \in DOMAIN ring : InPlace(ring[i])

\* Nothing was missed and nothing came late so far.
Clean == joined = 1 /\ messages_lost = 0 /\ out_of_order = 0

\* A receiver that missed nothing has made of the datagrams what the loop makes
\* of the beginning of the file.
Consumed ==
  /\ out_of_order \in Nat
  /\ joined = 0 => dir = Start.dir /\ applied = Start.applied /\ out_of_order = 0
  /\ Clean /\ next_msg = next_seq =>
       dir = Read[expected_seq - 1].dir /\ applied = Read[expected_seq - 1].applied

\* The datagram travels.
Underway(d) == (\E j \in DOMAIN net : d = net[j]) \/ (\E j \in DOMAIN ring : d = ring[j])

\* What moves datagrams about and makes none keeps them in place.
LEMMA MovesAlign ==
  ASSUME Aligned, UNCHANGED <<next_msg, packet, next_seq>>,
         \A k \in DOMAIN net' : Underway(net'[k]), \A k \in DOMAIN ring' : Underway(ring'[k])
  PROVE  Aligned'
<1>1. Unsent' = Unsent
  BY DEF Unsent
<1>2. \A d : Underway(d) /\ next_msg = next_seq => InPlace(d)
  BY DEF Aligned, Underway
<1>3. next_msg' = next_seq' =>
        /\ \A j \in DOMAIN packet' : packet'[j] = Unsent' + j - 1
        /\ \A i \in DOMAIN net' : InPlace(net'[i])
        /\ \A i \in DOMAIN ring' : InPlace(ring'[i])
  BY <1>1, <1>2 DEF Aligned
<1> QED BY <1>3 DEF Aligned, InPlace

\* Taking a datagram off the network leaves others of it.
LEMMA WithoutMoves ==
  ASSUME IInv, NEW i \in DOMAIN net
  PROVE  /\ \A k \in DOMAIN Without(net, i) : Underway(Without(net, i)[k])
         /\ Underway(net[i])
<1>1. /\ net \in Seq(Datagrams) /\ i \in 1 .. Len(net) /\ DOMAIN net = 1 .. Len(net)
      /\ Len(net) \in Nat
  BY DEF IInv, Typed
<1> DEFINE w == Without(net, i)
<1>2. /\ w \in Seq(Datagrams) /\ Len(w) = Len(net) - 1
      /\ \A k \in 1 .. Len(net) - 1 : w[k] = net[IF k < i THEN k ELSE k + 1]
  BY <1>1, WithoutIs
<1> HIDE DEF w
<1>3. ASSUME NEW k \in DOMAIN w PROVE Underway(w[k])
  <2>1. k \in 1 .. Len(net) - 1
    BY <1>2
  <2>2. (IF k < i THEN k ELSE k + 1) \in DOMAIN net
    BY <1>1, <2>1
  <2>3. w[k] = net[IF k < i THEN k ELSE k + 1]
    BY <1>2, <2>1
  <2> QED BY <2>2, <2>3 DEF Underway
<1> QED BY <1>3 DEF Underway, w

\* Appending a datagram that travels adds none.
LEMMA AppendMoves ==
  ASSUME NEW s \in Seq(Datagrams), NEW d \in Datagrams, Underway(d),
         \A k \in DOMAIN s : Underway(s[k])
  PROVE  \A k \in DOMAIN Append(s, d) : Underway(Append(s, d)[k])
<1>1. \A k \in DOMAIN Append(s, d) :
        Append(s, d)[k] = d \/ (k \in DOMAIN s /\ Append(s, d)[k] = s[k])
  OBVIOUS
<1> QED BY <1>1

\* The server numbers what it sends by its place in the file.
LEMMA ServerAligns ==
  ASSUME IInv, Aligned, ServerStep
  PROVE  /\ Aligned'
         /\ next_msg' = next_seq' => next_msg = next_seq
<1> DEFINE L == Len(packet)
           d == [seq |-> Unsent, msgs |-> packet]
           none == \A j \in DOMAIN packet' : packet'[j] = Unsent' + j - 1
<1>1. /\ next_msg \in Nat /\ next_seq \in Nat /\ packet \in Seq(Nat) /\ net \in Seq(Datagrams)
      /\ L \in Nat /\ L < next_seq /\ Unsent = next_seq - L
      /\ next_seq <= next_msg /\ next_msg <= Len(File) + 1 /\ Len(File) \in Nat
      /\ DOMAIN packet = 1 .. L
  BY ReadIs DEF IInv, Typed, Aligned, Unsent
<1>2. ring' = ring /\ Server!Next
  BY DEF ServerStep, receiverVars
<1>3. next_msg = next_seq =>
        /\ \A j \in DOMAIN packet : packet[j] = Unsent + j - 1
        /\ \A i \in DOMAIN net : InPlace(net[i])
        /\ \A i \in DOMAIN ring : InPlace(ring[i])
  BY DEF Aligned
<1>4. Unsent' = next_seq' - Len(packet')
  BY DEF Unsent
<1>5. Server!Datagram = d /\ d \in Datagrams
  <2>1. Unsent \in Nat \ {0}
    <3>1. next_seq \in Nat /\ L \in Nat /\ L < next_seq
      BY <1>1
    <3> QED BY <3>1 DEF Unsent
  <2>2. Server!Datagram = d
    BY DEF Server!Datagram, Unsent
  <2> QED BY <1>1, <2>1, <2>2 DEF Datagrams
<1>6. next_msg = next_seq => InPlace(d)
  <2>1. d.msgs = packet /\ d.seq = Unsent
    OBVIOUS
  <2> QED BY <1>3, <2>1 DEF InPlace
<1>7. ASSUME net' = net \/ net' = Append(net, d), next_msg = next_seq
      PROVE  \A i \in DOMAIN net' : InPlace(net'[i])
  <2> HIDE DEF d
  <2>1. CASE net' = Append(net, d)
    <3>1. \A k \in DOMAIN net' : net'[k] = d \/ (k \in DOMAIN net /\ net'[k] = net[k])
      BY <1>1, <1>5, <2>1
    <3> QED BY <1>3, <1>6, <1>7, <3>1
  <2> QED BY <1>3, <1>7, <2>1
<1>8. /\ net' = net \/ net' = Append(net, d)
      /\ next_seq' <= next_msg' /\ next_msg' <= Len(File) + 1
      /\ next_msg' = next_seq' => next_msg = next_seq /\ none
  <2>1. CASE Server!SendMessage
    <3>1. /\ next_msg <= Len(File) /\ packet' = Append(packet, next_msg) /\ net' = net
          /\ next_seq' = next_seq + 1 /\ next_msg' = next_msg + 1
      BY <2>1 DEF Server!SendMessage
    <3>2. /\ Len(packet') = L + 1 /\ DOMAIN packet' = 1 .. L + 1
          /\ packet'[L + 1] = next_msg /\ \A j \in 1 .. L : packet'[j] = packet[j]
      BY <1>1, <3>1
    <3>3. Unsent' = Unsent
      BY <1>1, <1>4, <3>1, <3>2
    <3>4. ASSUME next_msg = next_seq, NEW j \in 1 .. L + 1 PROVE packet'[j] = Unsent' + j - 1
      <4>1. CASE j = L + 1
        BY <1>1, <3>2, <3>3, <3>4, <4>1
      <4>2. CASE j \in 1 .. L
        BY <1>1, <1>3, <3>2, <3>3, <3>4, <4>2
      <4> QED BY <1>1, <4>1, <4>2
    <3>5. next_msg' = next_seq' => next_msg = next_seq
      BY <1>1, <3>1
    <3>6. next_seq' <= next_msg' /\ next_msg' <= Len(File) + 1
      BY <1>1, <3>1
    <3> QED BY <3>1, <3>2, <3>4, <3>5, <3>6
  <2>2. ASSUME NEW ok \in Server!Outcomes, Server!SendMessageFull(ok) PROVE <1>8!:
    <3>1. /\ next_msg <= Len(File) /\ packet' = IF ok THEN <<next_msg>> ELSE << >>
          /\ next_seq' = IF ok THEN next_seq + 1 ELSE next_seq
          /\ next_msg' = next_msg + 1
          /\ net' = net \/ net' = Append(net, d)
      BY <1>5, <2>2 DEF Server!SendMessageFull, Server!flush
    <3>2. CASE ok
      <4>1. packet' = <<next_msg>> /\ next_seq' = next_seq + 1 /\ Unsent' = next_seq
        BY <1>1, <1>4, <3>1, <3>2
      <4>2. DOMAIN packet' = {1} /\ packet'[1] = next_msg
        BY <4>1
      <4>3. next_msg = next_seq => none
        BY <1>1, <4>1, <4>2
      <4>4. next_seq' <= next_msg' /\ next_msg' <= Len(File) + 1
            /\ (next_msg' = next_seq' => next_msg = next_seq)
        BY <1>1, <3>1, <4>1
      <4> QED BY <3>1, <4>3, <4>4
    <3>3. CASE ~ ok
      BY <1>1, <3>1, <3>3
    <3> QED BY <3>2, <3>3
  <2>3. ASSUME NEW ok \in Server!Outcomes, Server!PaceFlush(ok) \/ Server!Finish(ok)
        PROVE  <1>8!:
    <3>1. /\ packet' = << >> /\ next_seq' = next_seq /\ next_msg' = next_msg
          /\ net' = net \/ net' = Append(net, d)
      BY <1>5, <2>3 DEF Server!PaceFlush, Server!Finish, Server!flush
    <3>2. DOMAIN packet' = {}
      BY <3>1
    <3> QED BY <1>1, <3>1, <3>2
  <2> QED BY <1>2, <2>1, <2>2, <2>3 DEF Server!Next
<1>9. next_msg' = next_seq' =>
        /\ \A j \in DOMAIN packet' : packet'[j] = Unsent' + j - 1
        /\ \A i \in DOMAIN net' : InPlace(net'[i])
        /\ \A i \in DOMAIN ring' : InPlace(ring'[i])
  BY <1>2, <1>3, <1>7, <1>8
<1> QED BY <1>8, <1>9 DEF Aligned, InPlace

\* The book thread takes the datagram that comes next, or the run is not clean.
LEMMA PopConsumes ==
  ASSUME IInv, Aligned, Consumed, NEW k \in seen .. Len(ring), Receiver!Pop(k),
         UNCHANGED <<serverVars, faults>>
  PROVE  Consumed' /\ Aligned'
<1> DEFINE d == ring[1]
           seq == d.seq
           len == Len(d.msgs)
           msgs == [i \in DOMAIN d.msgs |-> File[d.msgs[i]]]
           s == [dir |-> dir, applied |-> applied]
           r == Receiver!ConsumeAll(s, msgs)
<1>1. /\ ring \in Seq(Datagrams) /\ Len(ring) \in Nat /\ expected_seq \in Nat /\ joined \in Nat
      /\ messages_lost \in Nat /\ next_seq \in Nat /\ next_msg \in Nat /\ packet \in Seq(Nat)
      /\ seen \in Nat /\ out_of_order \in Nat
  BY DEF IInv, Typed, Consumed
<1>2. k > 0 /\ ring # << >> /\ Head(ring) = d /\ 1 \in DOMAIN ring
  <2>1. k > 0
    BY DEF Receiver!Pop
  <2> QED BY <1>1, <2>1
<1>3. /\ expected_seq' = seq + len
      /\ messages_lost' = IF expected_seq # 0 /\ seq > expected_seq
                            THEN messages_lost + (seq - expected_seq) ELSE messages_lost
      /\ out_of_order' = IF seq < expected_seq THEN out_of_order + 1 ELSE out_of_order
      /\ joined' = IF joined = 0 THEN seq ELSE joined
      /\ dir' = r.dir /\ applied' = r.applied
  BY <1>2 DEF Receiver!Pop, Receiver!Account
<1>4. ring' = Tail(ring) /\ UNCHANGED <<net, next_msg, packet, next_seq>>
  BY DEF Receiver!Pop, serverVars
<1>5. SentBelow(d, Unsent) /\ d \in Datagrams
  BY <1>2 DEF IInv, Travelling, SentBelow
<1>6. /\ seq \in Nat \ {0} /\ len \in Nat \ {0} /\ seq + len <= next_seq
      /\ d.msgs \in Seq(Nat) /\ DOMAIN d.msgs = 1 .. len
  <2>1. seq \in Nat \ {0} /\ len \in Nat \ {0} /\ seq + len <= Unsent /\ d.msgs \in Seq(Nat)
    BY <1>5 DEF SentBelow, Datagrams, End
  <2>2. Unsent <= next_seq
    BY <1>1 DEF Unsent
  <2>3. Unsent \in Int
    BY <1>1 DEF Unsent
  <2> QED BY <1>1, <2>1, <2>2, <2>3
<1>7. Aligned'
  <2>1. \A j \in DOMAIN ring' : j + 1 \in DOMAIN ring /\ ring'[j] = ring[j + 1]
    BY <1>1, <1>2, <1>4
  <2>2. \A j \in DOMAIN ring' : Underway(ring'[j])
    BY <2>1 DEF Underway
  <2>3. \A j \in DOMAIN net' : Underway(net'[j])
    BY <1>4 DEF Underway
  <2> QED BY <1>4, <2>2, <2>3, MovesAlign
<1>8. /\ next_seq <= next_msg /\ next_msg <= Len(File) + 1 /\ Len(File) \in Nat
      /\ next_msg = next_seq => InPlace(d)
  BY <1>2, ReadIs DEF Aligned
<1>9. /\ joined = 0 => /\ dir = Start.dir /\ applied = Start.applied /\ out_of_order = 0
                       /\ expected_seq = 0 /\ messages_lost = 0
      /\ joined # 0 => expected_seq > 0
      /\ Clean /\ next_msg = next_seq =>
           dir = Read[expected_seq - 1].dir /\ applied = Read[expected_seq - 1].applied
  BY DEF Consumed, IInv, Heard
<1> HIDE DEF d, seq, len, s, r, msgs
<1>10. out_of_order' \in Nat /\ joined' # 0
  BY <1>1, <1>3, <1>6
<1>11. ASSUME Clean', next_msg = next_seq
       PROVE  dir' = Read[expected_seq' - 1].dir /\ applied' = Read[expected_seq' - 1].applied
  <2>1. joined' = 1 /\ messages_lost' = 0 /\ out_of_order' = 0
    BY <1>11 DEF Clean
  <2> DEFINE a == seq - 1
  <2>2. a \in Nat /\ a + len <= Len(File) /\ a \in 0 .. Len(File)
    BY <1>1, <1>6, <1>8
  <2>3. dir = Read[a].dir /\ applied = Read[a].applied
    <3>1. CASE joined = 0
      <4>1. a = 0
        BY <1>3, <2>1, <3>1
      <4>2. Read[a] = Start
        BY <4>1, ReadIs DEF Runs
      <4> QED BY <1>9, <3>1, <4>2
    <3>2. CASE joined # 0
      <4>1. joined = 1 /\ expected_seq > 0
        BY <1>3, <1>9, <2>1, <3>2
      <4>2. ~ (seq < expected_seq) /\ out_of_order = 0
        BY <1>1, <1>3, <2>1
      <4>3. ~ (seq > expected_seq) /\ messages_lost = 0
        BY <1>1, <1>3, <1>6, <2>1, <4>1
      <4>4. seq = expected_seq
        BY <1>1, <1>6, <4>2, <4>3
      <4> QED BY <1>9, <1>11, <4>1, <4>2, <4>3, <4>4 DEF Clean
    <3> QED BY <3>1, <3>2
  <2>4. s = Read[a]
    <3>1. Read[a] \in States
      BY <2>2, ReadIs DEF Runs
    <3> QED BY <2>3, <3>1 DEF s, States
  <2>5. /\ msgs \in Seq(Msgs) /\ Len(msgs) = len
        /\ \A j \in 1 .. len : msgs[j] = File[a + j]
    <3>1. \A j \in 1 .. len : d.msgs[j] = a + j /\ a + j \in 1 .. Len(File)
      <4>1. \A j \in 1 .. len : d.msgs[j] = seq + j - 1
        BY <1>6, <1>8, <1>11 DEF InPlace, seq
      <4>2. \A j \in 1 .. len : seq + j - 1 = a + j /\ a + j \in 1 .. Len(File)
        BY <1>6, <1>8, <2>2
      <4> HIDE DEF a
      <4> QED BY <4>1, <4>2
    <3>2. \A j \in 1 .. Len(File) : File[j] \in Msgs
      BY ReadIs
    <3>3. msgs = [j \in 1 .. len |-> File[a + j]]
      BY <1>6, <3>1 DEF msgs
    <3> HIDE DEF a
    <3>4. \A j \in 1 .. len : File[a + j] \in Msgs
      BY <3>1, <3>2
    <3>5. msgs \in Seq(Msgs) /\ Len(msgs) = len
      BY <1>6, <3>3, <3>4
    <3> QED BY <3>3, <3>5
  <2>6. r = Read[a + len]
    <3> HIDE DEF a
    <3>1. Receiver!ConsumeAll(Read[a], msgs) = Read[a + Len(msgs)]
      BY <2>2, <2>5, ReadOn
    <3> QED BY <2>4, <2>5, <3>1 DEF r
  <2>7. expected_seq' - 1 = a + len
    BY <1>3, <1>6
  <2> QED BY <1>3, <2>6, <2>7
<1>12. next_msg' = next_msg /\ next_seq' = next_seq
  BY <1>4
<1> QED BY <1>7, <1>10, <1>11, <1>12 DEF Consumed, Clean

\* The other steps leave the book thread's state alone.
LEMMA OthersConsume ==
  ASSUME Consumed, next_msg' = next_seq' => next_msg = next_seq,
         UNCHANGED <<expected_seq, messages_lost, out_of_order, dir, applied, joined>>
  PROVE  Consumed'
BY DEF Consumed, Clean

\* The inductive invariant of a clean run.
RunInv == IInv /\ Aligned /\ Consumed

\* Before the first datagram nothing was read.
LEMMA InitRun == Init => RunInv
<1> SUFFICES ASSUME Init PROVE RunInv
  OBVIOUS
<1>1. IInv
  BY InitIInv
<1>2. /\ next_msg = 1 /\ next_seq = 1 /\ packet = << >> /\ net = << >> /\ ring = << >>
      /\ joined = 0 /\ out_of_order = 0 /\ applied = << >>
      /\ dir = Receiver!subscribe(Receiver!NewDirectory, Ticker)
  BY DEF Init, Server!Init, Receiver!Init
<1>3. Aligned
  <2>1. Len(File) \in Nat /\ DOMAIN << >> = {}
    BY ReadIs
  <2> QED BY <1>2, <2>1 DEF Aligned
<1>4. Consumed
  BY <1>2 DEF Consumed, Clean, Start
<1> QED BY <1>1, <1>3, <1>4 DEF RunInv

\* Every step keeps the clean run one with the file.
LEMMA NextRun == RunInv /\ [Next]_vars => RunInv'
<1> SUFFICES ASSUME RunInv, [Next]_vars PROVE Aligned' /\ Consumed'
  BY NextIInv DEF RunInv
<1> DEFINE book == <<expected_seq, messages_lost, out_of_order, dir, applied, joined>>
           server == <<next_msg, packet, next_seq>>
<1>1. IInv /\ Aligned /\ Consumed /\ net \in Seq(Datagrams) /\ ring \in Seq(Datagrams)
  BY DEF RunInv, IInv, Typed
<1>2. ASSUME UNCHANGED server, UNCHANGED book,
             \A k \in DOMAIN net' : Underway(net'[k]), \A k \in DOMAIN ring' : Underway(ring'[k])
      PROVE  Aligned' /\ Consumed'
  <2>1. Aligned'
    BY <1>1, <1>2, MovesAlign
  <2>2. Consumed'
    BY <1>1, <1>2, OthersConsume
  <2> QED BY <2>1, <2>2
<1>3. /\ \A k \in DOMAIN net : Underway(net[k])
      /\ \A k \in DOMAIN ring : Underway(ring[k])
  BY DEF Underway
<1>4. CASE ServerStep
  <2>1. UNCHANGED book
    BY <1>4 DEF ServerStep, receiverVars
  <2>2. Aligned' /\ (next_msg' = next_seq' => next_msg = next_seq)
    BY <1>1, <1>4, ServerAligns
  <2> QED BY <1>1, <2>1, <2>2, OthersConsume
<1>5. ASSUME NEW i \in DOMAIN net, Receiver!Recv(i), UNCHANGED serverVars
      PROVE  Aligned' /\ Consumed'
  <2>1. /\ UNCHANGED server /\ UNCHANGED book /\ net' = Without(net, i)
        /\ ring' = ring \/ ring' = Append(ring, net[i])
    BY <1>5, SameRemove DEF Receiver!Recv, Receiver!bookVars, serverVars
  <2>2. /\ \A k \in DOMAIN Without(net, i) : Underway(Without(net, i)[k])
        /\ Underway(net[i])
    BY <1>1, WithoutMoves
  <2>3. \A k \in DOMAIN ring' : Underway(ring'[k])
    <3>1. net[i] \in Datagrams
      BY <1>1
    <3>2. \A k \in DOMAIN Append(ring, net[i]) : Underway(Append(ring, net[i])[k])
      BY <1>1, <1>3, <2>2, <3>1, AppendMoves
    <3> QED BY <1>3, <2>1, <3>2
  <2>4. \A k \in DOMAIN net' : Underway(net'[k])
    BY <2>1, <2>2
  <2> QED BY <1>2, <2>1, <2>3, <2>4
<1>6. CASE Recv
  <2>1. 1 \in DOMAIN net /\ Receiver!Recv(1) /\ UNCHANGED serverVars
    BY <1>1, <1>6 DEF Recv, ReceiverStep
  <2> QED BY <1>5, <2>1
<1>7. ASSUME NEW i \in DOMAIN net, Overtake(i) PROVE Aligned' /\ Consumed'
  BY <1>5, <1>7 DEF Overtake
<1>8. ASSUME NEW i \in DOMAIN net, Lose(i) PROVE Aligned' /\ Consumed'
  <2>1. UNCHANGED server /\ UNCHANGED book /\ net' = Without(net, i) /\ ring' = ring
    BY <1>8 DEF Lose, serverVars, receiverVars
  <2>2. \A k \in DOMAIN net' : Underway(net'[k])
    BY <1>1, <2>1, WithoutMoves
  <2> QED BY <1>2, <1>3, <2>1, <2>2
<1>9. ASSUME NEW i \in DOMAIN net, Duplicate(i) PROVE Aligned' /\ Consumed'
  <2>1. UNCHANGED server /\ UNCHANGED book /\ net' = Append(net, net[i]) /\ ring' = ring
    BY <1>9 DEF Duplicate, serverVars, receiverVars
  <2>2. net[i] \in Datagrams /\ Underway(net[i])
    BY <1>1, <1>3
  <2>3. \A k \in DOMAIN net' : Underway(net'[k])
    BY <1>1, <1>3, <2>1, <2>2, AppendMoves
  <2> QED BY <1>2, <1>3, <2>1, <2>3
<1>10. CASE Undeliverable
  <2>1. UNCHANGED server /\ UNCHANGED book /\ net' = << >> /\ ring' = ring
    BY <1>10 DEF Undeliverable, serverVars, receiverVars
  <2>2. \A k \in DOMAIN net' : Underway(net'[k])
    BY <2>1
  <2> QED BY <1>2, <1>3, <2>1, <2>2
<1>11. ASSUME NEW k \in seen .. Len(ring), Receiver!Pop(k), UNCHANGED <<serverVars, faults>>
       PROVE  Aligned' /\ Consumed'
  BY <1>1, <1>11, PopConsumes
<1>12. ASSUME UNCHANGED server, UNCHANGED book, net' = net, ring' = ring
       PROVE  Aligned' /\ Consumed'
  BY <1>2, <1>3, <1>12
<1>13. CASE Bind \/ IdleTimeout
  <2>1. UNCHANGED server /\ UNCHANGED book /\ net' = net /\ ring' = ring
    BY <1>13 DEF Bind, IdleTimeout, ReceiverStep, Receiver!Bind, Receiver!IdleTimeout,
                 Receiver!bookVars, serverVars
  <2> QED BY <1>12, <2>1
<1>14. CASE BookThread
  <2>1. Receiver!BookThread /\ UNCHANGED <<serverVars, faults>>
    BY <1>14 DEF BookThread, ReceiverStep
  <2>2. CASE Receiver!PopEmpty \/ Receiver!StillRunning \/ Receiver!Stopped
    <3>1. UNCHANGED server /\ UNCHANGED book /\ net' = net /\ ring' = ring
      BY <2>1, <2>2 DEF Receiver!PopEmpty, Receiver!StillRunning, Receiver!Stopped, serverVars
    <3> QED BY <1>12, <3>1
  <2> QED BY <1>11, <2>1, <2>2 DEF Receiver!BookThread
<1>15. CASE UNCHANGED vars
  <2>1. UNCHANGED server /\ UNCHANGED book /\ net' = net /\ ring' = ring
    BY <1>15 DEF vars, serverVars, receiverVars
  <2> QED BY <1>12, <2>1
<1>16. CASE Finished
  BY <1>15, <1>16 DEF Finished
<1> QED BY <1>4, <1>6, <1>7, <1>8, <1>9, <1>10, <1>13, <1>14, <1>15, <1>16 DEF Next

\* A receiver whose own counters say that nothing was missed has applied what
\* the file replay applies.
THEOREM CleanRunsMatch == Spec => []MatchesFileReplay
<1>1. Spec => []RunInv
  BY InitRun, NextRun, PTL DEF Spec
<1>2. RunInv => MatchesFileReplay
  <2> SUFFICES ASSUME RunInv, CleanRun PROVE applied = FileReplayed
    BY DEF MatchesFileReplay
  <2>1. /\ Clean /\ expected_seq = Len(File) + 1 /\ joined # 0
    BY DEF CleanRun, Clean
  <2>2. /\ next_seq \in Nat /\ next_msg \in Nat /\ packet \in Seq(Nat) /\ Len(File) \in Nat
        /\ expected_seq - 1 < Unsent
        /\ next_seq <= next_msg /\ next_msg <= Len(File) + 1
    BY <2>1, ReadIs DEF RunInv, IInv, Typed, Heard, Aligned
  <2>3. next_msg = next_seq
    <3>1. Unsent = next_seq - Len(packet) /\ Len(packet) \in Nat
      BY <2>2 DEF Unsent
    <3> QED BY <2>1, <2>2, <3>1
  <2>4. applied = Read[expected_seq - 1].applied
    BY <2>1, <2>3 DEF RunInv, Consumed
  <2>5. expected_seq - 1 = Len(File)
    BY <2>1, <2>2
  <2> QED BY <2>4, <2>5, ReadReplays
<1> QED BY <1>1, <1>2, PTL
=============================================================================
