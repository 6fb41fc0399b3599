------------------------------ MODULE SpscRing ------------------------------
(***************************************************************************)
(* The single-producer single-consumer byte ring (spsc_ring.hpp).  One     *)
(* action per step a thread takes between two accesses to shared memory.   *)
(*                                                                         *)
(* An acquire load of the other thread's cursor may return an older store: *)
(* `tails` and `heads` hold the stores the next load may still return.     *)
(* Reading one rules out the ones before it.                               *)
(*                                                                         *)
(* `log` and `taken` are history: the accepted records with the cursor     *)
(* value at which each begins, and how many of them the consumer is past.  *)
(***************************************************************************)
EXTENDS Integers, Sequences

CONSTANTS Capacity,     \* bytes in the ring
          Payloads,     \* the records the producer may push
          Garbage,      \* what new uint8_t[capacity_] may contain
          OutCap,       \* out_cap of every pop
          MaxPush,      \* bound on calls of push
          NoRecord

Byte == 0 .. 255

\* No record is this long: datagrams are not.
LengthLimit == 16777216

ASSUME CapacityAssumption == Capacity \in Nat \ {0}
ASSUME PayloadsAssumption ==
         Payloads \subseteq Seq(Byte) /\ \A p \in Payloads : Len(p) < LengthLimit
ASSUME GarbageAssumption == Garbage \subseteq Byte
ASSUME OutCapAssumption == OutCap \in Nat
ASSUME MaxPushAssumption == MaxPush \in Nat
ASSUME NoRecordAssumption == NoRecord \notin Seq(Byte)

VARIABLES buf, head, tail, dropped, high_water,
          tails, heads,         \* stores of tail_ / head_ still readable
          pushes,               \* calls of push so far
          ppc, pdata,           \* producer: where it is, the record in hand
          cpc, chead, clen, cdata,  \* consumer: where it is, its locals
          out,                  \* what the last successful pop returned
          log, taken

prodVars == <<head, dropped, high_water, heads, pushes, ppc, pdata, log>>
consVars == <<tail, tails, cpc, chead, clen, cdata, out, taken>>
vars == <<buf, prodVars, consVars>>

Cells == 0 .. Capacity - 1

----------------------------------------------------------------------------
(* The bytes of a record: a 4-byte little-endian length, then the payload. *)

Prefix(n) == <<n % 256, (n \div 256) % 256, (n \div 65536) % 256,
               (n \div 16777216) % 256>>

Length(s) == s[1] + 256 * s[2] + 65536 * s[3] + 16777216 * s[4]

Need(p) == 4 + Len(p)

\* How much of an n-byte access at cursor `at` fits before the end of buf_.
First(at, n) ==
  IF (at % Capacity) + n <= Capacity THEN n ELSE Capacity - (at % Capacity)

\* Two memcpys: up to the end of buf_, and the rest at its beginning.
write(b, at, src) ==
  LET off   == at % Capacity
      first == First(at, Len(src))
  IN  [c \in Cells |->
         IF c < Len(src) - first             THEN src[first + c + 1]
         ELSE IF off <= c /\ c < off + first THEN src[c - off + 1]
         ELSE b[c]]

read(b, at, n) ==
  LET off   == at % Capacity
      first == First(at, n)
  IN  [i \in 1 .. n |-> IF i <= first THEN b[off + i - 1] ELSE b[i - first - 1]]

\* The cells an n-byte access at cursor `at` touches.
Touched(at, n) == {(at + i) % Capacity : i \in 0 .. n - 1}

----------------------------------------------------------------------------
Init == /\ buf \in {[c \in Cells |-> g] : g \in Garbage}
        /\ head = 0 /\ tail = 0
        /\ heads = {0} /\ tails = {0}
        /\ dropped = 0 /\ high_water = 0
        /\ pushes = 0 /\ ppc = "idle" /\ pdata = << >>
        /\ cpc = "idle" /\ chead = 0 /\ clen = 0 /\ cdata = << >>
        /\ out = NoRecord
        /\ log = << >> /\ taken = 0

----------------------------------------------------------------------------
(* push *)

\* Mutant: the length prefix is not counted.
Fits_Unprefixed(t, p) == (head - t) + Len(p) <= Capacity

\* Mutant: what is in the ring already is not counted.
Fits_Alone(t, p) == Need(p) <= Capacity

Fits(t, p) == (head - t) + Need(p) <= Capacity

PushDrop(p, t) ==
  /\ ppc = "idle" /\ pushes < MaxPush
  /\ ~ Fits(t, p)
  /\ dropped' = dropped + 1
  /\ pushes' = pushes + 1
  /\ tails' = {u \in tails : u >= t}
  /\ UNCHANGED <<buf, head, high_water, heads, ppc, pdata, log,
                 tail, cpc, chead, clen, cdata, out, taken>>

PushBegin(p, t) ==
  /\ ppc = "idle" /\ pushes < MaxPush
  /\ Fits(t, p)
  /\ high_water' = IF head - t > high_water THEN head - t ELSE high_water
  /\ pushes' = pushes + 1
  /\ tails' = {u \in tails : u >= t}
  /\ ppc' = "prefix"
  /\ pdata' = p
  /\ UNCHANGED <<buf, head, dropped, heads, log,
                 tail, cpc, chead, clen, cdata, out, taken>>

\* Mutant: the length written includes the prefix.
PushPrefix_Whole ==
  /\ ppc = "prefix"
  /\ buf' = write(buf, head, Prefix(Need(pdata)))
  /\ ppc' = "payload"
  /\ UNCHANGED <<head, dropped, high_water, heads, pushes, pdata, log, consVars>>

PushPrefix ==
  /\ ppc = "prefix"
  /\ buf' = write(buf, head, Prefix(Len(pdata)))
  /\ ppc' = "payload"
  /\ UNCHANGED <<head, dropped, high_water, heads, pushes, pdata, log, consVars>>

PushPayload ==
  /\ ppc = "payload"
  /\ buf' = write(buf, head + 4, pdata)
  /\ ppc' = "publish"
  /\ UNCHANGED <<head, dropped, high_water, heads, pushes, pdata, log, consVars>>

PushPublish ==
  /\ ppc = "publish"
  /\ head' = head + Need(pdata)
  /\ heads' = heads \cup {head'}
  /\ log' = Append(log, [at |-> head, data |-> pdata])
  /\ ppc' = "idle"
  /\ pdata' = << >>
  /\ UNCHANGED <<buf, dropped, high_water, pushes, consVars>>

----------------------------------------------------------------------------
(* pop *)

\* The load of head_ and the test for an empty ring.
PopEmpty(h) ==
  /\ cpc = "idle"
  /\ h = tail
  /\ heads' = {u \in heads : u >= h}
  /\ UNCHANGED <<buf, head, dropped, high_water, pushes, ppc, pdata, log, consVars>>

PopBegin(h) ==
  /\ cpc = "idle"
  /\ h # tail
  /\ heads' = {u \in heads : u >= h}
  /\ chead' = h
  /\ cpc' = "prefix"
  /\ UNCHANGED <<buf, head, dropped, high_water, pushes, ppc, pdata, log,
                 tail, tails, clen, cdata, out, taken>>

\* Mutant: a one-byte record is taken for one that is still being written.
PopPrefix_Retry ==
  /\ cpc = "prefix"
  /\ clen' = IF Length(read(buf, tail, 4)) = 1 THEN 0 ELSE Length(read(buf, tail, 4))
  /\ cpc' = IF Length(read(buf, tail, 4)) = 1 THEN "idle" ELSE "check"
  /\ UNCHANGED <<buf, prodVars, tail, tails, chead, cdata, out, taken>>

PopPrefix ==
  /\ cpc = "prefix"
  /\ clen' = Length(read(buf, tail, 4))
  /\ cpc' = "check"
  /\ UNCHANGED <<buf, prodVars, tail, tails, chead, cdata, out, taken>>

Unusable(n) == n = 0 \/ n > OutCap

\* How many records lie before cursor h (history only).
RecordsBefore(h) ==
  CHOOSE n \in taken .. Len(log) :
    h = IF n = Len(log) THEN head ELSE log[n + 1].at

\* Mutant: only the bad record's prefix is skipped.
PopBail_Prefix ==
  /\ cpc = "check"
  /\ Unusable(clen)
  /\ tail' = tail + 4
  /\ tails' = tails \cup {tail'}
  /\ taken' = taken + 1
  /\ cpc' = "idle" /\ chead' = 0 /\ clen' = 0
  /\ UNCHANGED <<buf, prodVars, cdata, out>>

\* "cannot happen; bail safely": everything up to the loaded head_ is skipped.
PopBail ==
  /\ cpc = "check"
  /\ Unusable(clen)
  /\ tail' = chead
  /\ tails' = tails \cup {tail'}
  /\ taken' = RecordsBefore(chead)
  /\ cpc' = "idle" /\ chead' = 0 /\ clen' = 0
  /\ UNCHANGED <<buf, prodVars, cdata, out>>

\* Mutant: the payload is read from where the prefix is.
PopPayload_AtPrefix ==
  /\ cpc = "check"
  /\ ~ Unusable(clen)
  /\ cdata' = read(buf, tail, clen)
  /\ cpc' = "release"
  /\ UNCHANGED <<buf, prodVars, tail, tails, chead, clen, out, taken>>

PopPayload ==
  /\ cpc = "check"
  /\ ~ Unusable(clen)
  /\ cdata' = read(buf, tail + 4, clen)
  /\ cpc' = "release"
  /\ UNCHANGED <<buf, prodVars, tail, tails, chead, clen, out, taken>>

PopRelease ==
  /\ cpc = "release"
  /\ tail' = tail + 4 + clen
  /\ tails' = tails \cup {tail'}
  /\ out' = cdata
  /\ taken' = taken + 1
  /\ cpc' = "idle" /\ chead' = 0 /\ clen' = 0 /\ cdata' = << >>
  /\ UNCHANGED <<buf, prodVars>>

----------------------------------------------------------------------------
Push == \/ \E p \in Payloads, t \in tails : PushDrop(p, t) \/ PushBegin(p, t)
        \/ PushPrefix
        \/ PushPayload
        \/ PushPublish

Pop == \/ \E h \in heads : PopEmpty(h) \/ PopBegin(h)
       \/ PopPrefix
       \/ PopBail
       \/ PopPayload
       \/ PopRelease

Next == Push \/ Pop

Spec == Init /\ [][Next]_vars

\* Both threads keep running, and a store becomes visible after finite time:
\* a polling consumer does not read the same old head_ for ever.
FairSpec == /\ Spec
            /\ WF_vars(PushPrefix \/ PushPayload \/ PushPublish)
            /\ WF_vars(PopBegin(head))
            /\ WF_vars(PopPrefix \/ PopBail \/ PopPayload \/ PopRelease)

----------------------------------------------------------------------------
Record == [at : Nat, data : Payloads]

TypeOK ==
  /\ buf \in [Cells -> Byte]
  /\ head \in Nat /\ tail \in Nat
  /\ heads \subseteq Nat /\ tails \subseteq Nat
  /\ dropped \in Nat /\ high_water \in 0 .. Capacity /\ pushes \in 0 .. MaxPush
  /\ ppc \in {"idle", "prefix", "payload", "publish"}
  /\ pdata \in Payloads \cup {<< >>}
  /\ cpc \in {"idle", "prefix", "check", "release"}
  /\ chead \in Nat /\ clen \in Nat /\ cdata \in Seq(Byte)
  /\ out \in Seq(Byte) \cup {NoRecord}
  /\ log \in Seq(Record) /\ taken \in 0 .. Len(log)

\* The cells the producer's next write, and the consumer's next read, touch.
Writing ==
  CASE ppc = "prefix"  -> Touched(head, 4)
    [] ppc = "payload" -> Touched(head + 4, Len(pdata))
    [] OTHER           -> {}

Reading ==
  CASE cpc = "prefix"                     -> Touched(tail, 4)
    [] cpc = "check" /\ ~ Unusable(clen)  -> Touched(tail + 4, clen)
    [] OTHER                              -> {}

\* push and pop never access the same byte of buf_ at the same time, however
\* stale the cursors they loaded: the two memcpys of push stay inside the
\* space the consumer has released, across the wrap as well.
NoDataRace == Writing \cap Reading = {}

\* The branch pop marks "cannot happen" is taken only for a record that is
\* itself empty or too long for the consumer's buffer: no interleaving and no
\* split of the prefix at the wrap makes the length read back from buf_ wrong.
BailsOnlyOnBadRecord ==
  cpc = "check" /\ Unusable(clen) => Unusable(Len(log[taken + 1].data))

\* Every cursor value the consumer holds or may load begins a record or is
\* the end of the last one: even after the bail-out branch has skipped
\* records, the next pop reads a length prefix and not payload bytes.
Boundary(h) == h = head \/ \E i \in taken + 1 .. Len(log) : log[i].at = h

StaysFramed == Boundary(tail) /\ \A h \in heads : Boundary(h)

----------------------------------------------------------------------------
(* The inductive invariant behind the safety properties. *)

\* Where record i begins; the one after the last begins at head.
Start(i) == IF i = Len(log) + 1 THEN head ELSE log[i].at

\* The bytes of s are in b from cursor `at` on, around the wrap.
Stored(b, at, s) == \A j \in 1 .. Len(s) : b[(at + j - 1) % Capacity] = s[j]

\* Stale cursors are old ones, and the record in hand fits behind head.
Cursors ==
  /\ tail <= head
  /\ \A t \in tails : t <= tail
  /\ IF ppc = "idle" THEN head <= tail + Capacity
     ELSE pdata \in Payloads /\ head + Need(pdata) <= tail + Capacity

\* Records lie one behind the other, and every cursor is at a record's start.
Layout ==
  /\ \A i \in 1 .. Len(log) :
       /\ Start(i + 1) = log[i].at + Need(log[i].data)
       /\ Start(i + 1) <= head
       /\ \A j \in 1 .. Len(log) : i < j => Start(i + 1) <= log[j].at
  /\ tail = Start(taken + 1)
  /\ \A h \in heads : \E n \in taken .. Len(log) : h = Start(n + 1)

\* Every record not yet taken is in buf_, and so is what has been written of
\* the one in hand.
Contents ==
  /\ \A i \in taken + 1 .. Len(log) :
       /\ Stored(buf, log[i].at, Prefix(Len(log[i].data)))
       /\ Stored(buf, log[i].at + 4, log[i].data)
  /\ ppc \in {"payload", "publish"} => Stored(buf, head, Prefix(Len(pdata)))
  /\ ppc = "publish" => Stored(buf, head + 4, pdata)

\* What the consumer has in hand is the oldest record.
InHand ==
  /\ cpc # "idle" => /\ \E n \in taken + 1 .. Len(log) : chead = Start(n + 1)
                     /\ \A h \in heads : chead <= h
  /\ cpc \in {"check", "release"} => clen = Len(log[taken + 1].data)
  /\ cpc = "release" => cdata = log[taken + 1].data

Inv == TypeOK /\ Cursors /\ Layout /\ Contents /\ InHand

Fifo == INSTANCE LossyFifo
          WITH Records <- Payloads,
               sent    <- [i \in 1 .. Len(log) |-> log[i].data],
               refused <- dropped

\* The byte ring is a FIFO of whole records: what pop returns is the oldest
\* record push accepted and pop has not yet returned, byte for byte.
ImplementsFifo == Fifo!Spec

\* Every accepted record eventually leaves the ring: it is handed to the book
\* thread, or pop's bail-out over a bad record throws it away with that record.
EverythingDrains ==
  \A n \in 1 .. MaxPush : (Len(log) >= n) ~> (taken >= n)
=============================================================================
