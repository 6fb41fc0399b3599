------------------------ MODULE WriteAheadLogProofs ------------------------
(***************************************************************************)
(* Proofs about the log of WriteAheadLog, for every size of an entry and   *)
(* every number of appends and restarts.                                   *)
(*                                                                         *)
(* Whatever fails, the file is a sequence of units in the order they were  *)
(* written (Written) and no longer than the entries appended, so that no   *)
(* number is ahead of its entry, nor behind it unless the log was opened   *)
(* after a failure (Numbered); as long as nothing has failed it is the     *)
(* sequence of the entries appended, each whole, the n-th numbered n       *)
(* (Intact).                                                               *)
(***************************************************************************)
EXTENDS WriteAheadLog, TLAPS, SequenceTheorems

(* Whole entries and the units they take *)

LEMMA EntriesFit ==
  ASSUME NEW n \in Nat
  PROVE  n * EntrySize \in Nat /\ (n * EntrySize) \div EntrySize = n
BY EntrySizeAssumption

\* A later entry begins after an earlier one has ended.
LEMMA UnitsInOrder ==
  ASSUME NEW i \in Nat, NEW j \in Nat, i < j
  PROVE  i * EntrySize + EntrySize <= j * EntrySize
<1>1. i * EntrySize + EntrySize = (i + 1) * EntrySize
  BY EntrySizeAssumption
<1>2. (i + 1) * EntrySize <= j * EntrySize
  BY EntrySizeAssumption
<1> QED BY <1>1, <1>2

\* A file of no more units than a entries have holds no more than a entries.
LEMMA EntriesBound ==
  ASSUME NEW n \in Nat, NEW a \in Nat, n <= a * EntrySize
  PROVE  n \div EntrySize <= a
<1> DEFINE q == n \div EntrySize
<1>1. q \in Nat /\ q * EntrySize <= n
  BY EntrySizeAssumption
<1> HIDE DEF q
<1>2. CASE q > a
  <2>1. a * EntrySize + EntrySize <= q * EntrySize
    BY <1>1, <1>2, UnitsInOrder
  <2>2. a * EntrySize \in Nat /\ q * EntrySize \in Nat
    BY <1>1, EntrySizeAssumption
  <2> QED BY <1>1, <2>1, <2>2, EntrySizeAssumption
<1> QED BY <1>1, <1>2 DEF q

\* replay reads within the file.
LEMMA ReplayFits ==
  ASSUME NEW n \in Nat, NEW i \in 1 .. n \div EntrySize
  PROVE  /\ i - 1 \in Nat /\ (i - 1) * EntrySize \in Nat
         /\ (i - 1) * EntrySize + EntrySize = i * EntrySize
         /\ i * EntrySize <= n
<1> DEFINE q == n \div EntrySize
<1>1. q \in Nat /\ q * EntrySize <= n
  BY EntrySizeAssumption
<1> HIDE DEF q
<1>2. i * EntrySize <= q * EntrySize
  BY <1>1, EntrySizeAssumption DEF q
<1>3. (i - 1) * EntrySize + EntrySize = i * EntrySize
  BY EntrySizeAssumption
<1>4. i \in Nat /\ i - 1 \in Nat /\ (i - 1) * EntrySize \in Nat
  BY <1>1, EntrySizeAssumption DEF q
<1> QED BY <1>1, <1>2, <1>3, <1>4, EntrySizeAssumption

----------------------------------------------------------------------------
(* The invariant *)

\* What append writes.
Entry == [id : Nat, seq : Nat, found : SUBSET {"write", "power"}]

FileUnit == [entry : Entry, part : 1 .. EntrySize]

\* The types of file, buffers and counters.
Typed ==
  /\ sequence \in Nat /\ appends \in Nat
  /\ file \in Seq(FileUnit)
  /\ durable \in 0 .. Len(file)
  /\ failed \in SUBSET {"write", "power"} /\ found \in SUBSET {"write", "power"}

\* A unit further on in the file is of a later call of append, or a later unit
\* of the same call; no call is ahead of the counter.
Written ==
  /\ \A u \in 1 .. Len(file) : file[u].entry.id <= appends
  /\ \A u, v \in 1 .. Len(file) :
       u < v => \/ file[u].entry.id < file[v].entry.id
                \/ file[u].entry.id = file[v].entry.id /\ file[u].part < file[v].part

\* The number an entry carries is the one of its call, or less if the log was
\* opened after a failure.
Numbered ==
  /\ Len(file) <= appends * EntrySize
  /\ entries \in SUBSET Entry
  /\ \A e \in entries : e.id <= appends /\ e.seq <= e.id /\ (e.found = {} => e.seq = e.id)
  /\ sequence <= appends
  /\ is_open /\ found = {} => sequence = appends

\* The entry of the i-th call, when none has failed.
Nth(i) == [id |-> i, seq |-> i, found |-> {}]

\* The file is the entries appended, and the counter of an open log stands at
\* the last of them.
Intact ==
  failed = {} =>
    /\ Len(file) = appends * EntrySize
    /\ \A i \in 1 .. appends : \A p \in 1 .. EntrySize :
         file[(i - 1) * EntrySize + p] = [entry |-> Nth(i), part |-> p]
    /\ found = {}
    /\ \A e \in acked : \E i \in 1 .. appends : e = Nth(i)

\* The inductive invariant.
IInv == Typed /\ Written /\ Numbered /\ Intact

\* The invariant holds of the empty file.
LEMMA InitIInv == Init => IInv
<1> SUFFICES ASSUME Init PROVE IInv
  OBVIOUS
<1>1. Typed
  BY DEF Init, Typed
<1>2. Written
  BY DEF Init, Written
<1>3. Numbered /\ Intact
  BY EntrySizeAssumption DEF Init, Numbered, Intact
<1> QED BY <1>1, <1>2, <1>3 DEF IInv

\* The units of an entry are units of a file.
LEMMA UnitsTyped ==
  ASSUME NEW e \in Entry, NEW k \in 0 .. EntrySize
  PROVE  /\ Units(e, k) \in Seq(FileUnit) /\ Len(Units(e, k)) = k
         /\ \A p \in 1 .. k : Units(e, k)[p] = [entry |-> e, part |-> p]
BY EntrySizeAssumption DEF Units, FileUnit

\* append, however many units reach the file.
LEMMA AppendKeeps ==
  ASSUME IInv, NEW k \in 0 .. EntrySize, NEW ok \in BOOLEAN, append(k, ok)
  PROVE  IInv'
<1> DEFINE e == NewEntry
           n == Len(file)
<1>1. /\ Typed /\ Written /\ Numbered /\ Intact
      /\ is_open /\ is_open' = is_open /\ found' = found /\ sequence' = sequence + 1
      /\ file' = file \o Units(e, k) /\ appends' = appends + 1
      /\ entries' = entries \cup {e} /\ acked' = IF ok THEN acked \cup {e} ELSE acked
      /\ failed' = IF k < EntrySize THEN failed \cup {"write"} ELSE failed
      /\ durable' = durable
  BY DEF IInv, append
<1>2. e \in Entry /\ e.id = appends + 1 /\ e.seq = sequence + 1 /\ e.found = found
  BY <1>1 DEF Typed, NewEntry, Entry
<1>3. e = [id |-> appends + 1, seq |-> sequence + 1, found |-> found]
  BY DEF NewEntry
<1> HIDE DEF e
<1>4. /\ Units(e, k) \in Seq(FileUnit) /\ Len(Units(e, k)) = k
      /\ \A p \in 1 .. k : Units(e, k)[p] = [entry |-> e, part |-> p]
  BY <1>2, UnitsTyped
<1>5. file \in Seq(FileUnit) /\ n \in Nat /\ k \in Nat /\ appends \in Nat
  BY <1>1, EntrySizeAssumption DEF Typed
<1> HIDE DEF n
<1>6. /\ file' \in Seq(FileUnit) /\ Len(file') = n + k
      /\ \A u \in 1 .. n : file'[u] = file[u]
      /\ \A p \in 1 .. k : file'[n + p] = [entry |-> e, part |-> p]
  <2>1. /\ file' \in Seq(FileUnit) /\ Len(file') = n + k
        /\ \A u \in 1 .. n + k : file'[u] = IF u <= n THEN file[u] ELSE Units(e, k)[u - n]
    <3> DEFINE f == Units(e, k)
    <3>1. file \in Seq(FileUnit) /\ f \in Seq(FileUnit) /\ Len(file) = n /\ Len(f) = k
      BY <1>4, <1>5 DEF n
    <3> HIDE DEF f
    <3>2. /\ file \o f \in Seq(FileUnit) /\ Len(file \o f) = n + k
          /\ \A u \in 1 .. n + k : (file \o f)[u] = IF u <= n THEN file[u] ELSE f[u - n]
      BY <3>1, ConcatProperties
    <3> QED BY <1>1, <3>2 DEF f
  <2>2. \A p \in 1 .. k : n + p \in 1 .. n + k /\ ~ (n + p <= n) /\ (n + p) - n = p
    BY <1>5
  <2>3. \A u \in 1 .. n : u \in 1 .. n + k /\ u <= n
    BY <1>5
  <2> QED BY <1>4, <2>1, <2>2, <2>3
<1>7. Typed'
  BY <1>1, <1>5, <1>6, EntrySizeAssumption DEF Typed, n
<1>8. \A u \in n + 1 .. n + k : file'[u] = [entry |-> e, part |-> u - n]
  <2> SUFFICES ASSUME NEW u \in n + 1 .. n + k
               PROVE  file'[u] = [entry |-> e, part |-> u - n]
    OBVIOUS
  <2>1. u - n \in 1 .. k /\ n + (u - n) = u
    BY <1>5
  <2> QED BY <1>6, <2>1
<1>9. Written'
  <2>1. ASSUME NEW u \in 1 .. Len(file')
        PROVE  /\ file'[u].entry.id <= appends + 1
               /\ u > n <=> file'[u].entry.id = appends + 1
    <3>1. CASE u <= n
      <4>1. u \in 1 .. n /\ file'[u] = file[u] /\ file[u] \in FileUnit
        BY <1>5, <1>6, <3>1 DEF n
      <4>2. file[u].entry.id <= appends /\ file[u].entry.id \in Nat
        BY <1>1, <4>1 DEF Written, n, FileUnit, Entry
      <4> QED BY <1>5, <3>1, <4>1, <4>2
    <3>2. CASE u > n
      <4>1. u \in n + 1 .. n + k
        BY <1>5, <1>6, <3>2
      <4>2. file'[u] = [entry |-> e, part |-> u - n]
        BY <1>8, <4>1
      <4> QED BY <1>2, <1>5, <3>2, <4>1, <4>2
    <3> QED BY <1>5, <1>6, <3>1, <3>2
  <2>2. ASSUME NEW u \in 1 .. Len(file'), NEW v \in 1 .. Len(file'), u < v
        PROVE  \/ file'[u].entry.id < file'[v].entry.id
               \/ file'[u].entry.id = file'[v].entry.id /\ file'[u].part < file'[v].part
    <3>1. CASE v <= n
      <4>1. u \in 1 .. n /\ v \in 1 .. n
        BY <1>5, <1>6, <2>2, <3>1
      <4> QED BY <1>1, <1>6, <2>2, <4>1 DEF Written, n
    <3>2. CASE u <= n /\ n < v
      <4>1. file'[u] \in FileUnit
        BY <1>6
      <4> QED BY <1>5, <2>1, <3>2, <4>1 DEF FileUnit, Entry
    <3>3. CASE n < u
      <4>1. u \in n + 1 .. n + k /\ v \in n + 1 .. n + k
        BY <1>5, <1>6, <2>2, <3>3
      <4>2. /\ file'[u] = [entry |-> e, part |-> u - n]
            /\ file'[v] = [entry |-> e, part |-> v - n]
        BY <1>8, <4>1
      <4> QED BY <1>5, <2>2, <4>1, <4>2
    <3> QED BY <1>5, <1>6, <2>2, <3>1, <3>2, <3>3
  <2> QED BY <1>1, <2>1, <2>2 DEF Written
<1>10. ASSUME failed' = {}
       PROVE  /\ Len(file') = appends' * EntrySize
              /\ \A i \in 1 .. appends' : \A p \in 1 .. EntrySize :
                   file'[(i - 1) * EntrySize + p] = [entry |-> Nth(i), part |-> p]
              /\ found' = {}
              /\ \A a \in acked' : \E i \in 1 .. appends' : a = Nth(i)
  <2>1. k = EntrySize /\ failed = {}
    <3>1. CASE k < EntrySize
      <4>1. "write" \in failed'
        BY <1>1, <3>1
      <4> QED BY <1>10, <4>1
    <3>2. CASE ~ (k < EntrySize)
      BY <1>1, <1>10, <3>2, EntrySizeAssumption
    <3> QED BY <3>1, <3>2
  <2>2. /\ n = appends * EntrySize /\ found = {} /\ sequence = appends
        /\ \A i \in 1 .. appends : \A p \in 1 .. EntrySize :
             file[(i - 1) * EntrySize + p] = [entry |-> Nth(i), part |-> p]
        /\ \A a \in acked : \E i \in 1 .. appends : a = Nth(i)
    BY <1>1, <2>1 DEF Intact, Numbered, n
  <2>3. e = Nth(appends + 1)
    BY <1>3, <2>2 DEF Nth
  <2>4. n + k = (appends + 1) * EntrySize
    BY <1>5, <2>1, <2>2, EntrySizeAssumption
  <2>5. ASSUME NEW i \in 1 .. appends + 1, NEW p \in 1 .. EntrySize
        PROVE  file'[(i - 1) * EntrySize + p] = [entry |-> Nth(i), part |-> p]
    <3>1. CASE i = appends + 1
      <4>1. i - 1 = appends
        BY <1>5, <3>1
      <4> QED BY <1>6, <2>1, <2>2, <2>3, <3>1, <4>1
    <3>2. CASE i \in 1 .. appends
      <4>1. (i - 1) * EntrySize + EntrySize <= appends * EntrySize
        BY <1>5, <3>2, UnitsInOrder
      <4>2. (i - 1) * EntrySize \in Nat
        BY <1>5, <3>2, EntrySizeAssumption
      <4>3. (i - 1) * EntrySize + p \in 1 .. n
        BY <1>5, <2>2, <4>1, <4>2, EntrySizeAssumption
      <4> QED BY <1>6, <2>2, <3>2, <4>3
    <3> QED BY <1>5, <3>1, <3>2
  <2>6. \A a \in acked' : \E i \in 1 .. appends + 1 : a = Nth(i)
    <3>1. appends + 1 \in 1 .. appends + 1 /\ 1 .. appends \subseteq 1 .. appends + 1
      BY <1>5
    <3> QED BY <1>1, <2>2, <2>3, <3>1
  <2> QED BY <1>1, <1>6, <2>2, <2>4, <2>5, <2>6
<1>11. Intact'
  BY <1>10 DEF Intact, Nth
<1>12. Numbered'
  <2>1. Len(file') <= appends' * EntrySize
    <3>1. n <= appends * EntrySize
      BY <1>1 DEF Numbered, n
    <3>2. (appends + 1) * EntrySize = appends * EntrySize + EntrySize
          /\ appends * EntrySize \in Nat
      BY <1>5, EntrySizeAssumption
    <3>3. n + k <= appends * EntrySize + EntrySize
      BY <1>5, <3>1, <3>2, EntrySizeAssumption
    <3> QED BY <1>1, <1>6, <3>2, <3>3
  <2>2. sequence \in Nat /\ sequence <= appends /\ (found = {} => sequence = appends)
    BY <1>1 DEF Typed, Numbered
  <2>3. e.id <= appends + 1 /\ e.seq <= e.id /\ (e.found = {} => e.seq = e.id)
    BY <1>2, <1>5, <2>2
  <2>4. ASSUME NEW x \in entries
        PROVE  /\ x \in Entry /\ x.id <= appends + 1 /\ x.seq <= x.id
               /\ x.found = {} => x.seq = x.id
    <3>1. x \in Entry /\ x.id <= appends /\ x.seq <= x.id /\ (x.found = {} => x.seq = x.id)
      BY <1>1 DEF Numbered
    <3>2. x.id \in Nat
      BY <3>1 DEF Entry
    <3> QED BY <1>5, <3>1, <3>2
  <2>5. /\ entries' \in SUBSET Entry
        /\ \A x \in entries' :
             x.id <= appends' /\ x.seq <= x.id /\ (x.found = {} => x.seq = x.id)
    BY <1>1, <1>2, <2>3, <2>4
  <2>6. sequence' <= appends' /\ (found' = {} => sequence' = appends')
    BY <1>1, <1>5, <2>2
  <2> QED BY <2>1, <2>5, <2>6 DEF Numbered, Entry
<1> QED BY <1>7, <1>9, <1>11, <1>12 DEF IInv

\* The machine goes down: the file keeps a prefix.
LEMMA PowerFailureKeeps ==
  ASSUME IInv, PowerFailure
  PROVE  IInv'
<1>1. Typed /\ Written /\ Numbered
  BY DEF IInv
<1>2. PICK n \in durable .. Len(file) : file' = SubSeq(file, 1, n) /\ durable' = n
  BY DEF PowerFailure
<1>3. n \in Nat /\ n <= Len(file) /\ file \in Seq(FileUnit) /\ Len(file) \in Nat
  BY <1>1, <1>2 DEF Typed
<1>4. /\ file' \in Seq(FileUnit) /\ Len(file') = n
      /\ \A u \in 1 .. n : file'[u] = file[u]
  BY <1>2, <1>3
<1>5. /\ is_open' = FALSE /\ sequence' = 0 /\ appends' = appends
      /\ failed' = failed \cup {"power"} /\ found' = found /\ entries' = entries
  BY DEF PowerFailure, log
<1>6. Typed'
  BY <1>1, <1>2, <1>3, <1>4, <1>5 DEF Typed
<1>7. Written'
  BY <1>1, <1>3, <1>4, <1>5 DEF Written
<1>8. Intact'
  BY <1>5 DEF Intact
<1>9. Numbered'
  <2>1. appends \in Nat /\ appends * EntrySize \in Nat
    BY <1>1, EntrySizeAssumption DEF Typed
  <2>2. Len(file) <= appends * EntrySize
    BY <1>1 DEF Numbered
  <2>3. n <= appends * EntrySize
    BY <1>3, <2>1, <2>2
  <2> QED BY <1>1, <1>4, <1>5, <2>1, <2>3 DEF Numbered, Entry
<1> QED BY <1>6, <1>7, <1>8, <1>9 DEF IInv

\* Every step, crashes included, keeps the invariant.
LEMMA NextIInv == IInv /\ [Next]_vars => IInv'
<1> SUFFICES ASSUME IInv, [Next]_vars PROVE IInv'
  OBVIOUS
<1> USE DEF IInv
<1>1. CASE open
  <2>1. Len(file) \in Nat /\ Len(file) \div EntrySize \in Nat
    BY EntrySizeAssumption DEF Typed
  <2>2. failed = {} => Len(file) \div EntrySize = appends
    BY EntriesFit DEF Intact, Typed
  <2>3. Typed'
    BY <1>1, <2>1 DEF open, Typed, log
  <2>4. Written'
    BY <1>1 DEF open, Written, log
  <2>5. Intact'
    BY <1>1, <2>2 DEF open, Intact, log, Nth
  <2>6. Numbered'
    <3>1. appends \in Nat /\ Len(file) <= appends * EntrySize
      BY DEF Typed, Numbered
    <3>2. Len(file) \div EntrySize <= appends
      BY <2>1, <3>1, EntriesBound
    <3>3. /\ sequence' = Len(file) \div EntrySize /\ found' = failed
          /\ file' = file /\ appends' = appends /\ entries' = entries
      BY <1>1 DEF open, log
    <3> QED BY <2>2, <3>1, <3>2, <3>3 DEF Numbered, Entry
  <2> QED BY <2>3, <2>4, <2>5, <2>6
<1>2. CASE append(EntrySize, TRUE)
  <2>1. EntrySize \in 0 .. EntrySize /\ TRUE \in BOOLEAN
    BY EntrySizeAssumption
  <2> QED BY ONLY IInv, <1>2, <2>1, AppendKeeps
<1>3. CASE \E k \in 0 .. EntrySize - 1, ok \in BOOLEAN : "write" \in Faults /\ append(k, ok)
  BY <1>3, AppendKeeps, EntrySizeAssumption
<1>4. CASE close
  BY <1>4 DEF close, Typed, Written, Numbered, Entry, Intact, log, Nth
<1>5. CASE WriteBack
  BY <1>5 DEF WriteBack, Typed, Written, Numbered, Entry, Intact, log, Nth
<1>6. CASE ProcessCrash
  BY <1>6 DEF ProcessCrash, Typed, Written, Numbered, Entry, Intact, log, Nth
<1>7. CASE PowerFailure
  BY <1>7, PowerFailureKeeps
<1>8. CASE UNCHANGED vars
  BY <1>8 DEF vars, log, Typed, Written, Numbered, Entry, Intact, Nth
<1> QED BY <1>1, <1>2, <1>3, <1>4, <1>5, <1>6, <1>7, <1>8 DEF Next

\* The log's state keeps its type, and the file's two invariants hold.
THEOREM LogInvariant == Spec => []IInv
BY InitIInv, NextIInv, PTL DEF Spec

----------------------------------------------------------------------------
(* What replay passes on *)

LEMMA ChunkIs ==
  ASSUME Typed, NEW i \in DOMAIN replay
  PROVE  /\ i \in 1 .. Len(file) \div EntrySize
         /\ replay[i] \in Seq(FileUnit) /\ Len(replay[i]) = EntrySize
         /\ \A p \in 1 .. EntrySize :
              /\ (i - 1) * EntrySize + p \in 1 .. Len(file)
              /\ replay[i][p] = file[(i - 1) * EntrySize + p]
<1> DEFINE a == (i - 1) * EntrySize
           b == i * EntrySize
<1>1. i \in 1 .. Len(file) \div EntrySize /\ replay[i] = SubSeq(file, a + 1, b)
  BY DEF replay, Chunk
<1>2. file \in Seq(FileUnit) /\ Len(file) \in Nat
  BY DEF Typed
<1>3. a \in Nat /\ a + EntrySize = b /\ b <= Len(file)
  BY <1>1, <1>2, ReplayFits
<1> HIDE DEF a, b
<1>4. \A p \in 1 .. EntrySize : a + p \in 1 .. Len(file)
  BY <1>2, <1>3, EntrySizeAssumption
<1>5. /\ replay[i] \in Seq(FileUnit) /\ Len(replay[i]) = EntrySize
      /\ \A p \in 1 .. EntrySize : replay[i][p] = file[a + p]
  <2>1. a + 1 \in Int /\ b \in Int /\ b - (a + 1) + 1 = EntrySize /\ a + 1 <= b
    BY <1>3, EntrySizeAssumption
  <2>2. \A u \in a + 1 .. b : file[u] \in FileUnit
    <3>1. \A u \in a + 1 .. b : u \in 1 .. Len(file)
      BY <1>2, <1>3, EntrySizeAssumption
    <3> QED BY <1>2, <3>1
  <2>3. /\ replay[i] \in Seq(FileUnit) /\ Len(replay[i]) = EntrySize
        /\ \A p \in 1 .. EntrySize : replay[i][p] = file[a + 1 + p - 1]
    BY <1>1, <2>1, <2>2, SubSeqProperties
  <2>4. \A p \in 1 .. EntrySize : a + 1 + p - 1 = a + p
    BY <1>3, EntrySizeAssumption
  <2> QED BY <2>3, <2>4
<1> QED BY <1>1, <1>4, <1>5 DEF a

\* Until something fails the n-th entry replayed carries sequence number n,
\* through every restart; and whatever fails, a number comes again or goes back
\* only in a log that was opened after the failure.
THEOREM SequenceNumbers == Spec => []ReusedOnlyAfterFailure
<1>1. IInv => ReusedOnlyAfterFailure
  <2> SUFFICES ASSUME IInv PROVE ReusedOnlyAfterFailure
    OBVIOUS
  <2>1. ASSUME failed = {}, NEW i \in DOMAIN replay
        PROVE  replay[i][1].entry.seq = i
    <3>1. 1 \in 1 .. EntrySize
      BY EntrySizeAssumption
    <3>2. i \in 1 .. appends
      BY <2>1, ChunkIs, EntriesFit DEF IInv, Intact, Typed
    <3>3. replay[i][1] = [entry |-> Nth(i), part |-> 1]
      BY <2>1, <3>1, <3>2, ChunkIs DEF IInv, Intact
    <3> QED BY <3>3 DEF Nth
  <2>2. ASSUME NEW e \in entries, NEW f \in entries, e.id < f.id, f.seq <= e.seq
        PROVE  f.found # {}
    <3>1. e \in Entry /\ f \in Entry /\ e.seq <= e.id /\ (f.found = {} => f.seq = f.id)
      BY DEF IInv, Numbered
    <3>2. e.id \in Nat /\ e.seq \in Nat /\ f.id \in Nat /\ f.seq \in Nat
      BY <3>1 DEF Entry
    <3> QED BY <2>2, <3>1, <3>2
  <2> QED BY <2>1, <2>2 DEF ReusedOnlyAfterFailure
<1> QED BY <1>1, LogInvariant, PTL

\* An order append returned true for is replayed, byte for byte.
THEOREM AckedSurvives == Spec => []AckedIsReplayed
<1>1. IInv => AckedIsReplayed
  <2> SUFFICES ASSUME IInv, failed = {}, NEW e \in acked
               PROVE  \E i \in DOMAIN replay : replay[i] = Units(e, EntrySize)
    BY DEF AckedIsReplayed
  <2>1. Typed /\ Intact /\ appends \in Nat
    BY DEF IInv, Typed
  <2>2. PICK i \in 1 .. appends : e = Nth(i)
    BY <2>1 DEF Intact
  <2>3. i \in DOMAIN replay
    BY <2>1, EntriesFit DEF Intact, replay
  <2>4. e \in Entry /\ EntrySize \in 0 .. EntrySize
    BY <2>1, <2>2, EntrySizeAssumption DEF Nth, Entry
  <2>5. /\ Units(e, EntrySize) \in Seq(FileUnit) /\ Len(Units(e, EntrySize)) = EntrySize
        /\ \A p \in 1 .. EntrySize : Units(e, EntrySize)[p] = [entry |-> e, part |-> p]
    BY <2>4, UnitsTyped
  <2>6. \A p \in 1 .. EntrySize : replay[i][p] = Units(e, EntrySize)[p]
    <3> SUFFICES ASSUME NEW p \in 1 .. EntrySize
                 PROVE  replay[i][p] = Units(e, EntrySize)[p]
      OBVIOUS
    <3>1. replay[i][p] = file[(i - 1) * EntrySize + p]
      BY <2>1, <2>3, ChunkIs
    <3>2. file[(i - 1) * EntrySize + p] = [entry |-> Nth(i), part |-> p]
      BY <2>1 DEF Intact
    <3> QED BY <2>2, <2>5, <3>1, <3>2
  <2>7. replay[i] \in Seq(FileUnit) /\ Len(replay[i]) = EntrySize
    BY <2>1, <2>3, ChunkIs
  <2>8. replay[i] = Units(e, EntrySize)
    BY <2>5, <2>6, <2>7
  <2> QED BY <2>3, <2>8
<1> QED BY <1>1, LogInvariant, PTL

\* Whatever fails, whole entries are replayed in the order of their appends,
\* none twice.
THEOREM ReplayInOrder == Spec => []ReplayKeepsOrder
<1>1. IInv => ReplayKeepsOrder
  <2> SUFFICES ASSUME IInv, NEW i \in DOMAIN replay, NEW j \in DOMAIN replay,
                      i < j, Whole(replay[i]), Whole(replay[j])
               PROVE  replay[i][1].entry.id < replay[j][1].entry.id
    BY DEF ReplayKeepsOrder
  <2>1. Typed /\ Written /\ 1 \in 1 .. EntrySize
    BY EntrySizeAssumption DEF IInv
  <2>2. replay[i][1].part = 1 /\ replay[j][1].part = 1
    BY <2>1 DEF Whole, Units
  <2> DEFINE u == (i - 1) * EntrySize + 1
             v == (j - 1) * EntrySize + 1
  <2>3. /\ u \in 1 .. Len(file) /\ v \in 1 .. Len(file)
        /\ replay[i][1] = file[u] /\ replay[j][1] = file[v]
    BY <2>1, ChunkIs
  <2>4. i \in Nat /\ j \in Nat /\ i - 1 \in Nat /\ j - 1 \in Nat
    <3>1. i \in 1 .. Len(file) \div EntrySize /\ j \in 1 .. Len(file) \div EntrySize
      BY <2>1, ChunkIs
    <3>2. Len(file) \div EntrySize \in Nat
      BY <2>1, EntrySizeAssumption DEF Typed
    <3> QED BY <3>1, <3>2
  <2>5. u < v
    <3>1. (i - 1) * EntrySize + EntrySize <= (j - 1) * EntrySize
      BY <2>4, UnitsInOrder
    <3>2. (i - 1) * EntrySize \in Nat /\ (j - 1) * EntrySize \in Nat
      BY <2>4, EntrySizeAssumption
    <3> QED BY <3>1, <3>2, EntrySizeAssumption
  <2> HIDE DEF u, v
  <2>6. \/ file[u].entry.id < file[v].entry.id
        \/ file[u].entry.id = file[v].entry.id /\ file[u].part < file[v].part
    BY <2>1, <2>3, <2>5 DEF Written
  <2> QED BY <2>2, <2>3, <2>6
<1> QED BY <1>1, LogInvariant, PTL
=============================================================================
