---------------------------- MODULE ReplayServer ----------------------------
(***************************************************************************)
(* The replay server in detail (udp_server.cpp, replay_file): reading the  *)
(* file, pacing on the timestamps of the messages, filling datagrams by    *)
(* their bytes.  MoldServer is what the receiver may rely on.              *)
(***************************************************************************)
EXTENDS ItchFile, Integers

CONSTANTS MAX_MSG_SIZE, MAX_PAYLOAD,
          SleepMin,     \* 200000 ns: shorter waits are not worth a system call
          FlushMin,     \* 2000000 ns: before longer waits the datagram leaves
          Word,         \* 2^64
          SendFails,    \* whether sendto may fail
          None,
          MaxLag        \* bound on the clock up to which the server may stall

ASSUME SizeAssumption == /\ MAX_MSG_SIZE \in Nat /\ MAX_PAYLOAD \in Nat
                         /\ MAX_MSG_SIZE + 2 <= MAX_PAYLOAD
ASSUME SleepAssumption == SleepMin \in Nat /\ FlushMin \in Nat /\ SleepMin < FlushMin
ASSUME ClockAssumption == Word \in Nat \ {0} /\ None \notin Nat /\ MaxLag \in Nat

VARIABLES speed,        \* speed_multiplier, a fraction num / den
          turn,         \* in the loop: "pace" or "send"; "done"; "fault"
          next_msg, packet, next_seq, sent_all, net,
          clock,        \* ns since t_start
          first_ts,     \* None before ts_set
          buffered      \* history: when each message entered its datagram

serverVars == <<speed, turn, next_msg, packet, next_seq, sent_all, net, clock, first_ts, buffered>>

ServerInit ==
  /\ turn = "pace" /\ next_msg = 1 /\ packet = << >> /\ next_seq = 1
  /\ sent_all = FALSE /\ net = << >>
  /\ clock = 0 /\ first_ts = None /\ buffered = << >>

Outcomes == {TRUE} \cup {~ SendFails}

\* Mutant: the header carries the number of the message after the last.
Flushed_NextSeq(ok) ==
  IF ok /\ packet # << >> THEN Append(net, [seq |-> next_seq, msgs |-> packet]) ELSE net

Flushed(ok) ==
  IF ok /\ packet # << >>
    THEN Append(net, [seq |-> next_seq - Len(packet), msgs |-> packet]) ELSE net

\* The message of this turn.
Msg == file[next_msg]

Reads == next_msg <= Len(file) /\ Complete(next_msg) /\ Msg.len <= MAX_MSG_SIZE

----------------------------------------------------------------------------
(* Rate control *)

Paced == speed.num > 0 /\ Msg.len >= 11

FirstTs == IF Paced /\ first_ts = None THEN Msg.ts ELSE first_ts

\* Unsigned: a timestamp before the first one wraps around.
file_elapsed == (Msg.ts - FirstTs) % Word

wall_elapsed == (clock * speed.num) \div speed.den

Ahead == Paced /\ file_elapsed > wall_elapsed

\* Mutant: the speed is rounded up.
Divisor_Up == (speed.num + speed.den - 1) \div speed.den

\* speed_multiplier as an integer.
Divisor == speed.num \div speed.den

sleep_ns == (file_elapsed - wall_elapsed) \div Divisor

\* sleep_for takes a signed count and returns at once for a negative one.
Slept(ns) == IF 2 * ns >= Word THEN 0 ELSE ns

NoWait ==
  /\ turn = "pace" /\ Reads
  /\ Ahead => Divisor > 0 /\ sleep_ns <= SleepMin
  /\ first_ts' = FirstTs
  /\ turn' = "send"
  /\ UNCHANGED <<speed, next_msg, packet, next_seq, sent_all, net, clock, buffered>>

\* Mutant: no wait is long enough for a flush.
Flushes_Never(ns) == ns > Word

Flushes(ns) == ns > FlushMin

Wait(ok) ==
  /\ turn = "pace" /\ Reads
  /\ Ahead /\ Divisor > 0 /\ sleep_ns > SleepMin
  /\ IF Flushes(sleep_ns) THEN net' = Flushed(ok) /\ packet' = << >>
     ELSE UNCHANGED <<net, packet>>
  /\ clock' = clock + Slept(sleep_ns)
  /\ first_ts' = FirstTs
  /\ turn' = "send"
  /\ UNCHANGED <<speed, next_msg, next_seq, sent_all, buffered>>

\* A speed below 1 is an integer of 0: the division faults.
DivideFault ==
  /\ turn = "pace" /\ Reads
  /\ Ahead /\ Divisor = 0
  /\ first_ts' = FirstTs
  /\ turn' = "fault"
  /\ UNCHANGED <<speed, next_msg, packet, next_seq, sent_all, net, clock, buffered>>

----------------------------------------------------------------------------
(* send_message *)

Payload ==
  LET used[i \in 0 .. Len(packet)] == IF i = 0 THEN 0 ELSE used[i - 1] + 2 + file[packet[i]].len
  IN  used[Len(packet)]

Fits == Payload + 2 + Msg.len <= MAX_PAYLOAD

Send ==
  /\ turn = "send" /\ Fits
  /\ packet' = Append(packet, next_msg)
  /\ next_seq' = next_seq + 1
  /\ next_msg' = next_msg + 1
  /\ turn' = "pace"
  /\ buffered' = Append(buffered, clock)
  /\ UNCHANGED <<speed, sent_all, net, clock, first_ts>>

\* No room: flush first.  If that fails the message is dropped as well.
SendAfterFlush(ok) ==
  /\ turn = "send" /\ ~ Fits
  /\ net' = Flushed(ok)
  /\ packet' = IF ok THEN <<next_msg>> ELSE << >>
  /\ next_seq' = IF ok THEN next_seq + 1 ELSE next_seq
  /\ next_msg' = next_msg + 1
  /\ turn' = "pace"
  /\ buffered' = Append(buffered, clock)
  /\ UNCHANGED <<speed, sent_all, clock, first_ts>>

EndOfReplay(ok) ==
  /\ turn = "pace" /\ ~ Reads
  /\ net' = Flushed(ok)
  /\ packet' = << >>
  /\ sent_all' = TRUE
  /\ turn' = "done"
  /\ UNCHANGED <<speed, next_msg, next_seq, clock, first_ts, buffered>>

\* The process is descheduled.
ServerStall ==
  /\ turn \in {"pace", "send"} /\ clock < MaxLag
  /\ clock' = clock + 1
  /\ UNCHANGED <<speed, turn, next_msg, packet, next_seq, sent_all, net, first_ts, buffered>>

ServerNext ==
  \/ NoWait \/ DivideFault \/ Send \/ ServerStall
  \/ \E ok \in Outcomes : Wait(ok) \/ SendAfterFlush(ok) \/ EndOfReplay(ok)

----------------------------------------------------------------------------
\* The messages the loop gets to before it stops.
MessageCount ==
  CHOOSE n \in 0 .. Len(file) :
    /\ \A i \in 1 .. n : Complete(i) /\ file[i].len <= MAX_MSG_SIZE
    /\ n < Len(file) => ~ (Complete(n + 1) /\ file[n + 1].len <= MAX_MSG_SIZE)

Mold == INSTANCE MoldServer WITH file_len <- MessageCount, PerPacket <- MAX_PAYLOAD

\* The server by bytes and timestamps is a MoldServer: sequence numbers are
\* those of the messages buffered, datagrams do not skip or repeat one, and
\* what a failed send takes with it is what MoldServer says.
ImplementsServer == Mold!Spec

\* A message waits in its datagram for at most one short sleep per message
\* after it, the one being paced included: a longer wait is preceded by a flush.
\* (The stalls of the process come on top.)
BufferedBriefly ==
  \A i \in DOMAIN packet :
    clock - buffered[packet[i]] <= FlushMin * (Len(packet) - i + 1) + MaxLag
=============================================================================
