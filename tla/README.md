# A TLA+ verification of tickpipe

tickpipe replays a NASDAQ ITCH 5.0 file: from the file directly, over
MoldUDP64 datagrams between two processes, or through a small exchange with
risk checks and a write-ahead log.  On the way it keeps the order book and
computes fixed-point analytics of it.  This directory models its state-keeping
parts in TLA+, checks them with TLC on small instances, and proves with TLAPS,
for every value of the constants, that they are correct in the sense of section
5: every safety property that a passing run checks is also a theorem.

File paths below are relative to the repository; `PROJECT.json` maps every
definition to the lines it stands for.

## 1. Inventory

| Component | State | Operations | Hard about it | What makes it correct |
|---|---|---|---|---|
| Ring (`include/spsc_ring.hpp`) | byte buffer, `head_`, `tail_`, `dropped_`, `high_water_` | `push` (socket thread), `pop`, `used` (book thread) | two threads, acquire loads that are old, records split at the wrap, a bail-out that skips records | no race on a byte; a FIFO of whole records; framing survives the bail-out |
| Book table (`src/book_state.cpp`) | open-addressed table of orders by reference, tombstones, counters | `insert`, `find`, `erase`, `apply` of each message type, `reset` | what an insert or an erase does to a chain shows many messages later; the table at its limit; Replace = erase then insert | a map from references to orders |
| STL engine (`src/software_engine.cpp`) | bids and asks as maps from prices to queues, `orphan_ops`, `last_price` | `apply` of a resolved operation, `submit`, `book_digest` | has to stay the mirror image of a table it never sees | holds what the table holds |
| Pipeline (`src/pipeline.cpp`) | four stage registers, two ladders, two occupancy bitmaps, `base_price_` | `clock`, `flush` | four orders overlap; a decision is carried out a cycle after it is taken | the result of one order at a time |
| Analytics (`src/microstructure.cpp`) | last quote, running sums, metrics in fixed point | `on_book`, `on_trade` | one-sided, locked and crossed books; rounding; an integer square root | each price, sum and ratio is its definition over the book's history |
| File replay (`src/main.cpp`) | one table, one engine, the analytics, the closing snapshot | `on_message`; `on_paced` with waits | the composition; the order of trades, top of book and snapshot within one message | table and engine agree; the snapshot is the book at the bell |
| Live exchange (`src/live_exchange_main.cpp`) | table, engine, risk engine, log | `on_order` | rejected after being stored; `append` may fail | nothing rests that was not checked and logged first |
| Risk engine (`src/risk_engine.cpp`) | positions and reference prices of up to 128 instruments | `check`, `on_fill`, `set_reference_price` | checked before, filled later; the full table | positions are their own stock's; a bounded overshoot |
| Write-ahead log (`src/wal.cpp`) | an append-only file, `sequence_` | `open`, `append`, `close`, `replay` | crash of the process, of the machine, failed and torn writes | acknowledged entries come back whole and in order |
| Symbol directory (`src/symbol_directory.cpp`) | names by locate, subscribed flags, waiting names | `feed`, `subscribe`, `subscribe_all`, `is_subscribed` | subscriptions before, between and after the 'R' messages | the filter passes exactly what was asked for |
| Parser (`src/itch_parser.cpp`) | counters | `parse` | five exits, each with its counter | every message under one heading |
| File walk (`src/itch_replay.cpp`) | position in the mapped file, `ReplayStats` | `open`, `replay_all` | cut files, empty frames, the limit | everything read is counted once |
| Server (`src/udp_server.cpp`) | datagram buffer, `next_seq_`, the pacing clock | `replay_file`, `send_message`, `flush` | flushes that fail, waits, unsigned time, datagrams full to the byte | sequence numbers without a hole; nothing early; nothing buffered for long |
| Receiver (`src/udp_receiver.cpp`) | ring, `running`, `expected_seq`, loss counters | `recv_thread`, `receive_loop` | two threads, an end of stream known by silence only, loss, duplicates, reordering | losses counted; a clean run is the file replay; it drains and returns |

How they meet:

```
file --> server ==datagrams==> socket thread --ring--> book thread
                                                          |  gap count, directory filter
file --> file walk, directory filter --> parser <---------+
                                            |
                                       BookState (reference -> side, price, shares)
                                            |  0, 1 or 2 resolved operations
                                            +--> SoftwareEngine --> Microstructure     (file replay)
                                            +--> risk check -> log -> SoftwareEngine   (live exchange)
orders --> Pipeline (clock by clock)                                   (compared with SoftwareEngine)
```

`PROJECT.json` lists under `hazards` what of this is hard to test, each at its
line with the properties that would catch it.

## 2. Modules

| Module | Models | State and actions |
|---|---|---|
| `LossyFifo` | abstract: what the ring promises | accept, refuse, take, discard on a sequence of records |
| `SpscRing` | `spsc_ring.hpp` | one action per step a thread takes between two accesses to shared memory: `PushDrop/Begin/Prefix/Payload/Publish`, `PopEmpty/Begin/Prefix/Bail/Payload/Release`. Bytes are bytes: the little-endian prefix and the two-piece copy are modelled. `tails`/`heads` hold the stores an acquire load may still return |
| `SpscRingProofs`, `BookStateProofs`, `FpgaPipelineProofs`, `WriteAheadLogProofs`, `RiskDeskProofs`, `SourcesProofs`, `FeedNetProofs`, `ConsumersProofs` | | the proofs of section 5; each extends the module it is named after, `ConsumersProofs` both `FileReplay` and `LiveExchange` |
| `OrderOps` | `Order`, `ResolvedOp`, the records the parser decodes | shared vocabulary |
| `OrderMap` | abstract: BookState as a map from references to orders | one action for each message type, the operations it resolves into, and what a table without room may leave out |
| `BookState` | `book_state.cpp` | the slots, linear probing, tombstones, and `insert`/`erase`/`find` as the code walks them; `Add`, `Execute`, `Cancel`, `Delete`, `Replace`, `reset` |
| `SoftwareEngine` | `software_engine.cpp` | operators on the ladders: `apply`, `submit` and all they call, `best`, `book_digest` |
| `MatchingEngine` | abstract: orders given to it are answered one at a time, in turn, with `submit` | what the pipeline is compared with: a queue of orders given and not answered, the last answer and the order it is for, the window of prices |
| `FpgaPipeline` | `pipeline.cpp` | one action per call of `clock`, all stages of it in the code's order (last stage first); `flush` as the cycles it runs.  Histories: the order last given to `clock`, the price of the last match |
| `BookFeed` | what the two consumers share | `OrderMap` + `SoftwareEngine`: `resolve` a message, loop over its operations |
| `Microstructure` | `microstructure.cpp` | operators on the analytics' state: `on_book`, `on_trade`, `log1p`, `isqrt`, in the code's integer arithmetic |
| `FileReplay` | `on_message` of `main.cpp` | extends `BookFeed` and `Microstructure`; one action per message: snapshot, resolve, apply, trades, top of book, in this order.  Histories: the tops of the book, the trades since the first one, each with the mid before it, and the book before the bell |
| `RiskEngine`, `RiskDesk` | `risk_engine.cpp` and its use | operators; submit, fill (whole or in part), set the reference price |
| `LiveExchange` | `on_order` of `live_exchange_main.cpp` | extends `BookFeed` with `RiskEngine` and the log; its specification is `LiveSpec`, so that one module can prove about both consumers.  Histories: references risk rejected, those whose append failed, those given out again while live (`doubled`) |
| `WriteAheadLog` | `wal.cpp` | `open`, `append`, `close`, and, external, write-back, a crash of the process, a power failure; `replay` is an operator on the file |
| `SymbolDirectory` | `symbol_directory.cpp` | operators: `feed`, `subscribe`, `subscribe_all`, `is_subscribed` |
| `ItchParser` | `itch_parser.cpp` | the length table and the exits of `parse` |
| `ItchFile` | the file format | offsets of the frames, and whether the loop finds a frame whole |
| `ItchReplay` | `itch_replay.cpp`, `on_paced` of `main.cpp` | `open`; one action for each way through a turn of `replay_all`: `DirectoryMessage`, `FilteredMessage`, `ParserMessage`, `EndOfFile`; subscriptions between any two; a thread that stalls |
| `ReplayServer` | `udp_server.cpp` in detail | a turn of `replay_file` is a pacing step (`NoWait`, `Wait`, `DivideFault`) and a sending step (`Send`, `SendAfterFlush`); `EndOfReplay`; sends that fail; a process that stalls |
| `MoldServer` | abstract: what the receiver relies on | `SendMessage`, `SendMessageFull`, `PaceFlush`, `Finish`; `ReplayServer` is checked to implement it |
| `FeedHandler` | a message, and a datagram, in the receive loop | `Consume`: directory, filter, parser, callback; `ConsumeAll` |
| `UdpReceiver` | `udp_receiver.cpp` | the socket thread (`Recv`, `IdleTimeout`) and the book thread (`Pop`, `PopEmpty`, `StillRunning`, `Stopped`) |
| `FeedNet` | composition | `MoldServer`, network, `UdpReceiver`; the network is external: it loses, doubles and reorders datagrams |
| `Sources` | composition | `ItchReplay`, then `ReplayServer` and `FeedHandler`, on one file |

`MC*` modules give constants their values for TLC.  Definitions with a suffix
and a comment "Mutant" are plausible bugs in the definition of the same name;
each property of a passing run is violated by one of them, so none of the
properties holds by the shape of the model.

What is abstracted:
- A message is its kind and the fields the book reads, or, below the parser,
  its type, length, locate, name and timestamp.  Byte order and field offsets
  are left out; lengths and what depends on them are not.
- The hash function of the table is an arbitrary function of the reference.
- The operation digest, and the hash in `book_digest` (the walk it hashes is
  kept), wall time other than pacing, and all output are left out.
- `Microstructure` has the code's formulas and roundings; the scales are
  parameters, with small values for TLC.  128-bit overflow is not modelled.
- In `FeedNet` a datagram has a number of messages and not of bytes;
  `ReplayServer` has the bytes.  The ring in `UdpReceiver` counts datagrams:
  that the byte ring is a FIFO of records is what `SpscRing` shows.
  `UdpReceiver` keeps the old loads of `head_` and of `running`.
- The live exchange's log keeps the last entry of each resting order, which is
  what its properties are about; `WriteAheadLog` models the file.
- `on_paced` applies a message to the book as `on_message` does; `ItchReplay`
  models its waits, `FileReplay` the book.

## 3. Runs

| Run | Question | Properties | Answer |
|---|---|---|---|
| `ring` | can the two threads touch one byte at once, does a record ever come out changed, does framing survive the "cannot happen" branch, does every accepted record leave the ring, handed over or thrown away by the bail-out | `TypeOK`, `NoDataRace`, `ImplementsFifo`, `BailsOnlyOnBadRecord`, `StaysFramed`, `EverythingDrains` | no, no, yes, yes |
| `book` | is probing exact through every sequence of inserts and erases; is the table a map | `Chain`, `Unique`, `ImplementsMap` | yes |
| `book_full` | is `table_full` only counted when the table is full | `FullMeansFull` | **no**, see section 4 |
| `analytics` | do table and engine hold the same orders, also around orders of no shares and references given out twice; do the analytics see every top of the book and no other; are mid, microprice, imbalance, volatility, spread and impact their definitions over that history; is the snapshot the book at the bell | `Mirror`, `QuoteIsLastTop`, `OfiIsImbalance`, `VolIsRoot`, `TradesMeasured`, `CloseIsBell` | yes |
| `sources` | is every message counted once; is the filter exact for subscriptions at any time; do replay and server hand the book the same messages; is anything early, or buffered for long; is the server by bytes the one the receiver relies on | `EveryMessageCounted`, `FilterIsExact`, `SameMessages`, `NeverEarly`, `BufferedBriefly`, `ImplementsServer` | yes; yes; yes; no; yes |
| `pipeline` | does overlapping orders change the result any of them gets, or the book; is each bit of the bitmaps right; is latency constant; does `flush` drain | `ImplementsEngine`, `DecisionStillHolds`, `BitsMarkLevels`, `FixedLatency`, `FlushDrains` | no; yes; yes; yes |
| `risk` | is each position its own stock's; how far can positions pass the limit | `PositionsAreOwn`, `OvershootBounded` | yes; by at most the other orders open |
| `live` | does a rejection strand anything, and how far does a reference that comes again do damage; was what rests checked and logged; which operations find nothing; has the log the orders of a level in the engine's order | `MirrorsAccepted`, `RestingPassesRisk`, `OrphansAreRefused`, `LogIsAhead` | no, and to that reference only; yes, unless `append` failed; those on rejected orders; yes, but for references given out again |
| `feed` | are losses behind the first message heard counted exactly when order is kept, and never undercounted otherwise; is a run with clean counters the file replay; is the ring drained before exit; does the receiver return | `CountedPrecisely`, `NeverUndercounts`, `MatchesFileReplay`, `DrainedAtExit`, `Terminates` | yes |
| `feed_uncounted` | is every missing message counted | `EveryMissingCounted` | **no**, see section 4 |
| `wal` | when is a sequence number given out again; are acknowledged entries replayed after crashes; is their order kept through any failure | `ReusedOnlyAfterFailure`, `AckedIsReplayed`, `ReplayKeepsOrder` | only by a log opened after a failure; yes; yes |
| `wal_power` | is an entry safe once `append` has returned | `SafeAfterReturn` | **no**, see section 4 |

**Bounds.**
- `ring`: 16 bytes, payloads of 0, 1, 4 and 7 bytes, five pushes, `OutCap` 4.
  The cursor goes more than once around, the prefix and the payload are each
  split at the wrap in several places, two records (of 1 and 7 bytes, or of 4
  and 4) fill the ring exactly, it overflows, and the empty and the longest
  record force the bail-out.  The buffer starts with all bytes 0 or all 255.
- `book`: four slots and four references, two with one home slot and a chain
  over the end of the table.  Both ways to run out, by orders and by
  tombstones, are reached.  `VIEW` leaves out what a call puts out and no call
  reads.
- `analytics`: days of five messages out of twenty, in any order, before and
  after the bell.  Five are enough for a two-sided book, a trade, a move of the
  top that empties, locks or crosses it, the way back and a second trade.  Four
  prices and quantities up to three, so that sizes and prices move separately.
- `sources`: files of three or four frames around one frame of each kind the
  loops tell apart (reference data, for the book, known and not for the book,
  unknown type, wrong length, too short for a locate, no bytes at all, longer
  than the server's buffer), the last one whole or cut, and the empty file.  A
  datagram has room for an 'R', an 'A' and a 'D' to the byte.  Two sequences of
  stamps: two short waits and a long one, and one that goes back.  Speeds 0, 1,
  3/2 and 1/2; limits 0, 1 and 2; with and without a directory; two
  subscriptions at any time; each process stalls once; any send may fail.
  Time has 256 units in place of 2^64.  `VIEW` leaves out, once the server has
  begun, the replay's counters, which no longer change and which no property
  of the server reads.
- `pipeline`: nine cycles and four orders, a window of two ticks and levels of
  two orders: all four registers full at once, window misses, full levels and
  bubbles between any two orders; `NUM_STAGES` is the code's.  The model stops
  at the bound, hence `CHECK_DEADLOCK FALSE`.
- `risk`: four orders with two open; both stocks fill the table exactly.
- `live`: no bound on the length of the day.  Three references (symmetric) on
  one side, two prices inside the risk band and one outside, quantities 0 to 2.
  A feed that gives out live references again fills the engine without end, so
  three bounds cut the state: at most four orders rest (`MaxResting`, one more
  than there are references, so that one of them rests twice while the other
  two rest too), one reference at a time has been given out again
  (`MaxDoubled`), and one resting order at a time has no entry in the log
  (`MaxUnlogged`).  The theorems of section 5 hold for every value of the three.
  `VIEW` leaves out the engine's counters and the last operations, which no
  step reads; `OrphansAreRefused` compares the counter across one step.
- `feed`: four messages, up to two to a datagram and so up to four datagrams, a
  ring of two, one loss, one duplicate and one overtaking, all of them in one
  behaviour, and any number of failed sends.  The file holds the directory
  messages of two symbols and two book messages of the one subscribed to; what
  is left out for another symbol is `sources`' question.
- `wal`: three units per entry, so that an entry may be torn in two ways; four
  appends; two restarts.  The model stops at the bounds.

**Fairness.**  `ring`: each thread that is inside `push` or `pop` goes on (weak
fairness), and a polling consumer does not read the same old `head_` for ever
(a store becomes visible in finite time, as C++ asks of implementations).
Nothing says that the producer calls `push`.  `feed`: server, socket thread,
its timer and book thread run (weak fairness; they are threads of their own
that block on nothing but the socket); the book thread's loads of `head_` and
`running` are repeated and not old for ever (strong fairness on the two steps
that see the latest value).  `Terminates` is stated from the first datagram
on, since before it the code waits without a timeout.  No liveness is claimed
of the server by timestamps: with a speed below 1 it dies, and with stamps that
go back and a speed of 2 or more it sleeps for years (section 4).

## 4. What the checks found

Three statements in the source disagree with what the code does; each is a run
that ends in a counterexample.

1. `book_full`: `insert` (`src/book_state.cpp:66`) gives up after `capacity_`
   probes although it has passed a tombstone it could use.  Erased slots never
   become EMPTY again, so a table of any size gets there after enough distinct
   references, and then drops orders with slots free.
2. `feed_uncounted`: "every missing message is counted" (`README.md:118`), but
   a gap is seen only when a later datagram arrives: the last datagrams of a
   stream may be missing with `messages_lost` at 0.
3. `wal_power`: "fsync — guarantee durability before returning"
   (`src/wal.cpp:42`), but `append` ends in `fflush`.

Smaller things met while modelling.  The properties of the passing runs are
stated so as to say exactly how far the code's promise holds in their presence.

Book and engine:
- A reference added while it is live is overwritten in the table and rests
  twice in the engine (`src/book_state.cpp:59`).  `Mirror` is checked with a
  feed that does this: the damage stays with the references concerned.
  `MirrorsAccepted` says the same of the live exchange, where a doubled or late
  datagram is enough to bring a reference again, as the receive loop applies it.
- An order of no shares is stored by the table and not rested by the engine
  (`src/software_engine.cpp:139`), hence `Live` in `Mirror`.
- `book_digest` leaves out the side and the number of levels
  (`include/software_engine.hpp:45`).
- Prices between two ticks share a slot of the pipeline and overwrite its price
  (`include/pipeline.hpp:46`).  The run keeps to the tick grid.

Analytics:
- While a side of the book is empty, or it is locked or crossed, the analytics
  keep the quote before; trades in between are measured against it
  (`src/main.cpp:389`).  `TradesMeasured` is stated that way.
- The series of `log1p` is good for small returns only
  (`src/microstructure.cpp:37`); `VolIsRoot` takes the series as it is.
- If the file ends before 16:00 the report says so in place of the book at the
  bell (`src/main.cpp:576`), and still prints the closing analytics, all zero.

Live exchange, risk and log:
- Orders open at the same time may together pass the position limit
  (`include/risk_engine.hpp:34`); `OvershootBounded` says by how much.
- The live exchange never calls `on_fill`, so that its positions stay zero
  (`src/live_exchange_main.cpp:53`).
- It ignores `append`'s result (`src/live_exchange_main.cpp:58`;
  `include/wal.hpp:28`), hence `unlogged` in `LogIsAhead`, and logs Adds only.
- "monotonically increasing, never reused" (`include/wal.hpp:17`) does not hold
  through failures: after a failed append numbers run ahead of the file, and a
  log opened after it, or after a power failure that took entries, gives some
  out again.  `ReusedOnlyAfterFailure` says that this is the only way.  A torn
  entry shifts all entries behind it (`include/wal.hpp:15`), hence `failed = {}`
  in the first half of that property and in `AckedIsReplayed`.

File and feed:
- The message limit is tested only after a message that reached the parser
  (`src/itch_replay.cpp:144`): a replay with a limit may read any number of
  reference and filtered messages beyond it.  `EveryMessageCounted` says that
  at most one more reaches the parser.
- A name subscribed twice before its 'R' message stays listed as unmatched
  (`include/symbol_directory.hpp:44`), hence `repeated` in `FilterIsExact`.
- The server stops for good at a message longer than its buffer, which the file
  replay passes over, hence the last condition of `SameMessages`.
- A reordered datagram is counted as lost and never taken back
  (`README.md:376`), hence the condition of `CountedPrecisely`; a message whose
  flush failed leaves no gap (`include/udp_server.hpp:22`), so
  `CountedPrecisely` counts sequence numbers and not messages of the file.  Both
  it and `NeverUndercounts` begin at the first message heard: `expected_seq_`
  starts there (`src/udp_receiver.cpp:167`), so a lost head is never counted.
- A pause of the server longer than the idle timeout ends the receiver within
  the stream (`src/udp_receiver.cpp:101`), and no counter shows it.  `feed`
  allows it; `MatchesFileReplay` asks that the end of the file was reached.

Pacing (`src/udp_server.cpp:142-170`):
- A speed between 0 and 1 is a zero divisor: the process dies of the division
  (`DivideFault`).  A speed such as 3/2 is cut to 1 when the wait is computed
  from the time still to go: waits are too long, never too short.
- A timestamp before the first one wraps around.  At speed 1 the wait is
  negative as a signed number and returns at once; at speed 2 or more it is
  taken as it is, which is years.
- Waits of up to 2 ms do not flush, and add up over the messages of a datagram;
  `BufferedBriefly` is stated that way.

## 5. What is proved

Every theorem is of the form `Spec => ...` and holds for every value of the
constants that the named assumptions allow; TLC evaluates these assumptions in
the run of the module.  "Run" properties are those of section 3: what TLC checks
on an instance, the theorem states for all of them.

| Module | Theorem | Property | For every |
|---|---|---|---|
| `SpscRingProofs` | `Refinement` | `ImplementsFifo` | capacity, set of payloads, number of pushes |
| | `RaceFree` | `NoDataRace` | |
| | `BailsOnly` | `BailsOnlyOnBadRecord` | |
| | `Framed` | `StaysFramed` | |
| | `TypeCorrect` | `TypeOK` | |
| `BookStateProofs` | `TableIsMap` | `ImplementsMap` | capacity, hash function, set of references |
| | `ChainsHold` | `Chain` | |
| | `AtMostOnce` | `Unique` | |
| `FpgaPipelineProofs` | `PipelineIsEngine` | `ImplementsEngine` | window, size of a level, tick, orders and bubbles, prices on the grid; order by order |
| | `BitmapIsExact` | `BitsMarkLevels` | ... prices off the grid too, from here on |
| | `DecisionHolds` | `DecisionStillHolds` | |
| | `LatencyIsFixed` | `FixedLatency` | |
| | `FlushEmpties` | `FlushDrains` | |
| `WriteAheadLogProofs` | `SequenceNumbers` | `ReusedOnlyAfterFailure` | size of an entry, appends, crashes, restarts, failures |
| | `AckedSurvives` | `AckedIsReplayed` | ... while no append has failed |
| | `ReplayInOrder` | `ReplayKeepsOrder` | ... failed and torn writes and power failures |
| `RiskDeskProofs` | `OwnPositions` | `PositionsAreOwn` | limits, stocks the table has room for, orders |
| | `LimitHolds` | `OvershootBounded` | ... number of open orders |
| `SourcesProofs` | `CountedOnce` | `EveryMessageCounted` | file, configuration, subscriptions |
| | `FilterHolds` | `FilterIsExact` | |
| | `ServerIsMold` | `ImplementsServer` | file, datagram size, speed, failed sends |
| | `NotBufferedForLong` | `BufferedBriefly` | ... sleep thresholds, stalls |
| | `NothingEarly` | `NeverEarly` | |
| | `BothWaysAgree` | `SameMessages` | ... frames of any type, of any length up to `MAX_MSG_SIZE`, cut anywhere |
| `FeedNetProofs` | `LossesCounted` | `CountedPrecisely` | file, datagram and ring size, losses, duplicates, overtaking |
| | `LossesNotHidden` | `NeverUndercounts` | ... from the first message heard on |
| | `NothingLeft` | `DrainedAtExit` | |
| | `CleanRunsMatch` | `MatchesFileReplay` | |
| `ConsumersProofs` | `ReplayMirrors` | `Mirror` | feed, prices, quantities, length of the day |
| | `ReplayClose` | `CloseIsBell` | |
| | `ReplayQuote` | `QuoteIsLastTop` | ... scale of prices |
| | `ReplayOfi` | `OfiIsImbalance` | |
| | `ReplayTrades` | `TradesMeasured` | ... scales |
| | `ReplayVol` | `VolIsRoot` | ... if the sum of squares fits the root's digits |
| | `LiveMirrors` | `MirrorsAccepted` | feed, references given out again included, limits, failed appends |
| | `LiveOrphans` | `OrphansAreRefused` | |
| | `LivePassesRisk` | `RestingPassesRisk` | |
| | `LiveLogIsAhead` | `LogIsAhead` | ... orders whose reference was not given out again |

None of these properties is inductive.  Each module proves a stronger invariant
(`Init => IInv`, `IInv /\ [Next]_vars => IInv'`) that the properties follow
from.  The invariants are theorems of their own: `Invariance`,
`AlwaysWellFormed`, `PipelineInvariant`, `LogInvariant`, `DeskInvariant`,
`ReplayInvariant`, `ServerInvariant`, `FeedInvariant`, `LiveInvariant`.

Recursion.  A recursive function of the models (a sum, a fold over messages, the
bits of a root) is by definition some function that satisfies its equation.
Where a proof needs what it computes, it first shows that there is one
(`RecursionExists`: functions on 0 .. n by their graphs), then that the chosen
one has the values step by step (`RecursionIs`), and from there argues by the
least number at which a claim fails (`LeastNatural`).

### Ring

Assumptions, in `SpscRing`: the capacity is positive, payloads are sequences of
bytes shorter than 2^24 (a datagram has at most 2^16; the C++ length is 32
bits), the buffer's initial content is bytes.  Cursors are natural numbers:
`uint64_t` byte counts do not wrap in the life of a process.

The argument.  None of the properties is inductive: that the length read back
is right depends on what is in the buffer, which depends on where the producer
may write, which depends on how old its `tail_` can be.  `Inv` has five parts:

- `TypeOK`;
- `Cursors`: `tail <= head`; a stale `tail_` is never above the real one, so the
  free space the producer computes is at most the real one, and the record in
  hand fits behind `head`;
- `Layout`: accepted records lie one behind the other, and `tail` and every
  `head_` the consumer may load begin a record;
- `Contents`: the bytes of each record not yet taken, and of the record in hand
  as far as it is written, are in the buffer, around the wrap;
- `InHand`: what the consumer has read is the oldest record.

The core lemmas are about the buffer: `ModDistinct` (fewer than `Capacity`
apart means different cells), `WriteStores` and `ReadStored` (the two-piece
copies store and return the bytes), `WriteFrame` (a write behind `head` leaves
the stored records alone).  One lemma for each action shows that it preserves
`Inv`.  The refinement maps `sent` to the payloads of the accepted records and
`refused` to `dropped`; `PushPublish`, `PushDrop`, `PopRelease` and `PopBail`
are the FIFO's four actions and every other step stutters.

### Book table

Assumptions, in `BookState`: a positive capacity, the hash maps references to
slots, EMPTY and TOMBSTONE are no orders.  The probing is a recursive function
of the number of steps; the proof first shows that a scan ends (`ScanIs`) and
that from any home slot it visits every slot once (numbers apart by less than
the capacity are apart modulo the capacity).

The invariant is `WellFormed`: no reference in two slots, and on the way from an
order's home slot to its slot no slot is EMPTY.  It is kept by `erase` (a
TOMBSTONE is not EMPTY), by `insert` (what it overwrites is the first tombstone
it passed, or the EMPTY slot its search ended at) and by an update in place.
Under it `find` is exact, and each of the three does to the map the table stands
for what `OrderMap` says.  The map's insert may refuse when the table does
(section 4, 1): `OrderMap` lets it, with nothing else changed than that the
order it would have stored is left out.

### Pipeline

Assumptions, in `FpgaPipeline`: positive sizes and tick, five stages
(`NUM_STAGES` is a constant of the code), orders numbered by the cycle they go
in.  `PipelineIsEngine` has the hypothesis `OnGrid`: every price is a multiple
of the tick.  Without it the statement is false, since two prices may share a
slot (section 4).  The other theorems of the module do not need it.

`IInv` says which order a register holds (`Numbered`), that one past stage 1 is
in the slot its price asks for (`OrdersRouted`), that nothing matches before
stage 3, that the registers behind the bubbles `flush` has sent are empty, and
that a decision in the register of stage 3 is true of the ladder: that is where
the overlap is, as stage 4 may change the ladder on the cycle on which stage 3
decides for the next order.  The code runs the stages last to first, and the
proof uses that.  `Gridded` adds that each level in use has the price of its
slot, `Judged` that an order past stage 2 is valid if and only if its price is
in the window.

The refinement maps the ladder and its bitmap to the engine's function from
prices to queues, the orders in the registers of stages 1 to 3 to the orders
given and not answered, oldest first (`InFlight`), and the register of stage 4
to the last answer with the order it is for.  A call of `clock` gives the
engine the order it was called with, or none, and answers the order that has
waited longest, or none: no order is lost, answered twice or out of turn, or
with another order's result.

### Write-ahead log

Assumptions: an entry has at least one unit; faults are failed writes and power
failures.  `Written`: whatever fails, units further on in the file are of later
calls, or later parts of one call (so replay, which cuts the file into entries
by position, cannot reorder).  `Intact`: while no append has failed the file is
exactly the entries appended, whole, the n-th numbered n; this is what makes the
count that `open()` takes the right number to go on from.  `Numbered`: whatever
fails, a sequence number is at most the number of the call, and exactly that for
calls on a log that knew of no failure when it was opened.

### Risk engine

Assumptions: in `RiskEngine`, limits are natural numbers; in `RiskDesk`, there
are no more stocks than the table has entries.  The last is needed: beyond it
`find_or_create` gives out the first entry and positions mix.  A table holds
each stock once, so by a pigeonhole argument the fall-back is not reached.
`Committed`, the strengthening for `OvershootBounded`, adds up what is filled
and what is still open on one side of a stock.  The limit is checked against
filled positions only, hence the overshoot of `MaxOpen - 1` orders.

### File walk, filter, server

Assumptions, in `Sources` and the modules it extends: stamps have 48 bits of the
64 (`ts < Wrap`, `2 * ts < Word`); only the last frame is cut; for a day the
exchange gives a symbol one locate and a locate one symbol
(`LocateAssumption`: with a locate renamed in mid-day `feed` would leave the
earlier flag standing); a message and its length fit in a datagram
(`SizeAssumption`); the shorter of the two sleep thresholds is the smaller.

- `Counting`: the counters, the offset, and which frames reached the parser; the
  offsets are sums that exist for every file (`SumsExist`).
- `Filter`: a locate is flagged if and only if a name it is known by was asked
  for, and a name waits only while no 'R' message of it has been read, unless it
  was asked for twice.
- `Serving`: the server is at the next message of those it can read
  (`MessageCount`), datagrams hold messages before it.  A datagram that is full
  to the byte is not empty (`FitsIs`), so the two ways of sending are those of
  `MoldServer`.
- `Brief`: messages of a datagram wait one short sleep for each one behind
  them.
- `InTime`, `ShownInTime`: what was let on was due.  `WaitSuffices` is the
  arithmetic of one wait: the elapsed time is divided by the speed rounded down,
  by two divisions that round down, and still the wait is short by less than one
  nanosecond.
- `BothWays`, for `SameMessages`, compares the replay with the receive loop run
  over the whole file (`ReadFile`).  `Follows`: after the same number of
  messages both know the same names and have handed out the same messages.  The waiting lists need not be alike (a name asked for twice may wait twice); what
  makes the two filters decide alike is that each is exact (`Filter`) for the
  same names.  `Batches`: a
  datagram holds neighbours of the file and comes after those before it, so if
  every message is in some datagram there is no gap (`NoGaps`) and the receive
  loop goes through the file message by message, however it is split
  (`ReceivedIs`).  `Through`: both stop at the same frame (`SameEnd`).

### Loss accounting

The first three need no assumptions.  `Travelling` and `Heard` say that whatever
is under way, in the ring or heard was sent.  `InOrder` (only as long as nothing
was doubled or overtaken): ring and network hold datagrams in order behind
`expected_seq`, and the count is the number of sequence numbers not heard.
`SkippedCounted` is the half that survives duplicates and reordering.
`DrainedAtExit` is part of `IInv`: the book thread may load an old `head_` and
an old `running`, but not an old `head_` after the latest `running`.

`CleanRunsMatch` assumes a file as the exchange writes it (`FileAssumption`: a
message of a known type has that type's length, a symbol has one locate, and
its 'R' message comes before its orders) and that the one subscription of the
receiver is possible (`TickerAssumption`).  The files that break the first of
these are the subject of `Sources`.  `RunInv` adds to `IInv`: `Aligned` (as long
as the server has dropped no message unnumbered, a sequence number is the place
in the file) and
`Consumed` (as long as nothing was missed or out of order, the receiver's
directory and the messages handed out are those of the file up to
`expected_seq`).  A datagram that is at `expected_seq` moves both on by its
messages (`PopConsumes`, `ReadOn`), one that is not sets a counter that is never
reset.  A message dropped with the flush before it leaves no gap, but then fewer
numbers are given out than the file has messages, and `expected_seq` does not get
past the last (`ServerAligns`).

### Consumers

Assumptions: sides are Buy and Sell, prices positive, quantities natural numbers
(`OrderOps`); messages of the feed are messages and `None` is no order
(`BookFeed`); the bell is within the day (`FileReplay`); scales are positive
(`Microstructure`); limits are natural numbers (`RiskEngine`).  The feed may send
any message at any time: orders of no shares, references unknown or given out
again, executions at a price other than the order's.

The table is `OrderMap` here, which `TableIsMap` shows the probed table to be.

- `Matched`, for `Mirror` and `MirrorsAccepted`: each reference by itself has
  its order in the engine once and nowhere else (`Keeps`), or nothing.  The
  engine finds an order by walking the queue of one level; the lemmas on
  `SetLevel`, `Shrink`, `IndexOf` and `apply` say which queue an operation
  touches (`Applied`) and that all other references keep what they have.
  References given out again (`reused`, in the live exchange `doubled`), and
  those risk rejected (`refused`), are kept apart, so that the damage does not
  spread.
- `Sound`, for the live exchange: `Matched`; a live order of no shares was
  refused; what rests would pass the risk check (`Passing`: the check depends on
  price and quantity only, as the reference price and the positions never
  change, and is monotone in the quantity, so a partial execution cannot break
  it); the log has an entry for each order resting, in the order of the queue
  (`Ahead`, for references not given out again); and the order the table has for
  a reference given out again is covered by one that rests (`Covered`): the
  engine takes shares off the oldest order of that reference and level, and when
  that is another one, the table's own keeps all it had.  One lemma for each kind of operation, and for the two operations
  of a Replace one after the other.
- `BellInv`: before the snapshot no message was at or after the bell.
- `QuoteInv`: the state of the analytics is, field by field, what the histories
  say: the last quote with its mid and microprice, the sums so far, the root of
  the sum of squares.  `PricedIsFair` is the arithmetic of one quote.  A
  message changes the histories by at most one top and two trades; `Sum` over a
  sequence with one more element is the sum and the element.
- `ReplayVol`.  The loop's invariant: root and remainder are those of the number
  that the leading pairs of bits make.  The loop reads `RootBits` pairs, hence the hypothesis
  that the sum of squares has no more; in the code these are 64 pairs of a
  128-bit sum, so that only an overflow of the sum itself could break it.

### Only model-checked

Liveness (`EverythingDrains`, `Terminates`): fairness and `ENABLED` are out of
the prover's reach.

## 6. Not modelled

- The visualizer, and the drawing in `on_paced` and in the live exchange:
  terminal output.  NUMA pinning: no effect on what is computed.  Benchmarks:
  wall time.  `validate_microstructure.cpp` recomputes the metrics in floating
  point; `analytics` compares them with their exact definitions instead.
- OUCH serialisation: stateless, one record at a time, nothing but offsets.
- Bytes below the parser: offsets and byte order of the fields.
- Branches that this server's datagrams do not reach: truncated datagrams in
  the receiver, and in `send_message` a datagram of 65535 messages or a message
  larger than a datagram (`MAX_MSG_SIZE` is smaller).
- The receive loop without a directory (`src/udp_receiver.cpp:186`):
  `src/live_exchange_main.cpp:136` always gives it one.
- A second replay of one `ItchReplay` object, and `close()` of sockets and
  mappings.
- Accuracy against real logarithms, and overflow of the 128-bit sums.

## 7. Status

All of the components above and their compositions are modelled and checked,
and every safety property, action property and refinement of section 3 that
holds is proved.  Worth doing if the code changes: a receiver for datagrams that
other servers send (truncated ones, section 6), the parser's byte offsets, and
positions in the live exchange once it calls `on_fill`.
