------------------------------- MODULE FeedNet -------------------------------
(***************************************************************************)
(* Server, network and feed handler together.  The network is external:    *)
(* datagrams arrive in order unless a fault happens to them, and those     *)
(* that meet no bound socket are gone.                                     *)
(***************************************************************************)
EXTENDS Integers, Sequences, FiniteSets

CONSTANTS File, PerPacket, SendFails, Ticker, RingSize,
          Locates, Unknown, MAX_PENDING,
          MaxLoss,      \* bound on datagrams the network loses
          MaxDup,       \* bound on datagrams it delivers twice
          MaxReorder,   \* bound on datagrams that overtake another
          MaxFaults,    \* bound on all three together
          ServerFirst,  \* whether the server may start before the receiver
          LongPauses    \* whether pacing may pause beyond the idle timeout

VARIABLES next_msg, packet, next_seq, sent_all, net,
          bound, armed, running, ring, ring_dropped, seen, book_pc,
          expected_seq, gaps, messages_lost, out_of_order, dir, applied, joined, got,
          lost, doubled, overtaken      \* faults so far

Server   == INSTANCE MoldServer WITH file_len <- Len(File)
Receiver == INSTANCE UdpReceiver

\* A file as the exchange writes it: a known type has its length, a symbol one
\* locate, and what a symbol's orders do comes after its directory message.
ASSUME FileAssumption ==
  /\ File \in Seq([type : STRING, len : Nat, locate : Locates, name : STRING, ts : Nat])
  /\ \A i \in DOMAIN File :
       /\ File[i].type \in DOMAIN Receiver!Lengths
            => File[i].len = Receiver!Lengths[File[i].type]
       /\ Receiver!is_book_message(File[i].type)
            => \E j \in 1 .. i - 1 : File[j].type = "R" /\ File[j].name = File[i].name
       /\ \A j \in DOMAIN File : File[j].type = "R" =>
            (File[i].name = File[j].name <=> File[i].locate = File[j].locate)

\* The subscription main makes finds room to wait.
ASSUME TickerAssumption == Ticker \in STRING \ {Unknown} /\ MAX_PENDING \in Nat \ {0}

serverVars == <<next_msg, packet, next_seq, sent_all>>
receiverVars == <<bound, armed, running, ring, ring_dropped, seen, book_pc,
                  expected_seq, gaps, messages_lost, out_of_order, dir, applied,
                  joined, got>>
faults == <<lost, doubled, overtaken>>
vars == <<serverVars, receiverVars, net, faults>>

Init == /\ Server!Init
        /\ Receiver!Init
        /\ net = << >> /\ lost = 0 /\ doubled = 0 /\ overtaken = 0

----------------------------------------------------------------------------
ServerStep == /\ bound \/ ServerFirst
              /\ Server!Next
              /\ UNCHANGED <<receiverVars, faults>>

ReceiverStep(A) == A /\ UNCHANGED <<serverVars, faults>>

Bind == ReceiverStep(Receiver!Bind)

Recv == net # << >> /\ ReceiverStep(Receiver!Recv(1))

Faulty == lost + doubled + overtaken < MaxFaults

\* The network delivers a datagram before an older one.
Overtake(i) == /\ i > 1 /\ overtaken < MaxReorder /\ Faulty
               /\ overtaken' = overtaken + 1
               /\ Receiver!Recv(i)
               /\ UNCHANGED <<serverVars, lost, doubled>>

IdleTimeout == (sent_all \/ LongPauses) /\ ReceiverStep(Receiver!IdleTimeout)

BookThread == ReceiverStep(Receiver!BookThread)

Without(s, i) == SubSeq(s, 1, i - 1) \o SubSeq(s, i + 1, Len(s))

Lose(i) == /\ lost < MaxLoss /\ Faulty
           /\ net' = Without(net, i)
           /\ lost' = lost + 1
           /\ UNCHANGED <<serverVars, receiverVars, doubled, overtaken>>

Duplicate(i) == /\ doubled < MaxDup /\ Faulty
                /\ net' = Append(net, net[i])
                /\ doubled' = doubled + 1
                /\ UNCHANGED <<serverVars, receiverVars, lost, overtaken>>

\* No socket is bound to the port.
Undeliverable == /\ ~ bound /\ net # << >>
                 /\ net' = << >>
                 /\ UNCHANGED <<serverVars, receiverVars, faults>>

\* The receiver has returned and the server is through.
Finished == book_pc = "done" /\ sent_all /\ UNCHANGED vars

Next == \/ ServerStep
        \/ Bind \/ Recv \/ IdleTimeout \/ BookThread
        \/ \E i \in DOMAIN net : Lose(i) \/ Duplicate(i) \/ Overtake(i)
        \/ Undeliverable
        \/ Finished

Spec == Init /\ [][Next]_vars

\* The server runs, the socket thread runs and its timer fires, the book
\* thread runs.  SF: its loads of head_ and of running cannot be old for ever.
Fairness ==
  /\ WF_vars(ServerStep) /\ WF_vars(Bind) /\ WF_vars(Recv) /\ WF_vars(IdleTimeout)
  /\ WF_vars(BookThread)
  /\ SF_vars(ReceiverStep(Receiver!Pop(Len(ring))))
  /\ SF_vars(ReceiverStep(Receiver!Stopped))

FairSpec == Spec /\ Fairness

----------------------------------------------------------------------------
\* Sequence numbers the book thread has passed over and never seen.
Missing == IF joined = 0 THEN {} ELSE {n \in joined .. expected_seq - 1 : n \notin got}

\* "Losses are detected and counted precisely": as long as the network keeps
\* the order, messages_lost is the number of sequence numbers missing between
\* the first one seen and the last, however the network, the full ring or a
\* failed send lost them.
CountedPrecisely == doubled = 0 /\ overtaken = 0 => messages_lost = Cardinality(Missing)

\* Whatever the network does, reordering and duplicates included, the count
\* reported is at least the number of numbered messages missing between the
\* first one heard and the highest.  A lost head of the stream is below the
\* first one heard and is not counted, nor is a message the server sent without
\* a number.
NeverUndercounts ==
  messages_lost >=
    Cardinality({n \in joined .. next_seq : n \notin got /\ \E h \in got : n < h})

\* The receiver returns only when everything the socket thread accepted has
\* been handed to the book, although pop may have seen an empty ring before.
DrainedAtExit == book_pc = "done" => ring = << >> /\ ~ running

\* Once a datagram has arrived the receiver returns: no interleaving of the
\* timeout, the last push and the exit test makes the book thread poll for
\* ever.
Terminates == armed ~> (book_pc = "done")

\* What the file replay applies: the book messages of the symbol, in order.
ForBook(m) == m.name = Ticker /\ m.type \in {"A", "F", "E", "C", "X", "D", "U", "P"}

FileReplayed ==
  LET upto[i \in 0 .. Len(File)] ==
        IF i = 0 THEN << >>
        ELSE IF ForBook(File[i]) THEN Append(upto[i - 1], File[i]) ELSE upto[i - 1]
  IN  upto[Len(File)]

\* "Every book counter matches the file replay exactly": a receiver that saw
\* the first and the last message of the file and whose own counters report
\* no loss and nothing out of order has applied what the file replay applies,
\* in the same order and nothing twice, whatever happened on the way.
CleanRun == /\ joined = 1 /\ expected_seq = Len(File) + 1
            /\ messages_lost = 0 /\ out_of_order = 0

MatchesFileReplay == CleanRun => applied = FileReplayed

\* "With it, every missing message is counted."
EveryMissingCounted ==
  book_pc = "done" => Cardinality(DOMAIN File) <= Cardinality(got) + messages_lost
=============================================================================
