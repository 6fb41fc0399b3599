----------------------------- MODULE UdpReceiver -----------------------------
(***************************************************************************)
(* The feed handler (udp_receiver.cpp): a socket thread that moves         *)
(* datagrams into the ring and a book thread that drains it, accounts for  *)
(* gaps, filters by symbol and calls back for every message that is left.  *)
(*                                                                         *)
(* The ring is the FIFO that SpscRing implements.  `seen` is how much of   *)
(* it the book thread knows of: an acquire load of head_ returns anything  *)
(* from that to the whole of it.                                           *)
(***************************************************************************)
EXTENDS Integers, FeedHandler

CONSTANTS File,         \* the messages of the file
          Ticker,       \* the symbol main subscribes to
          RingSize      \* datagrams the ring has room for

VARIABLES net,          \* datagrams on their way or in the kernel's buffer
          bound,        \* init has bound the socket
          armed, running, ring, ring_dropped,
          seen,
          book_pc,      \* the book thread: "pop", "check" or "done"
          expected_seq, gaps, messages_lost, out_of_order,
          dir,
          applied,      \* messages the callback was called for, in order
          joined, got   \* history: first sequence number seen, all seen

socketVars == <<bound, armed, running>>
bookVars == <<book_pc, expected_seq, gaps, messages_lost, out_of_order, dir,
              applied, joined, got>>

Init == /\ bound = FALSE /\ armed = FALSE /\ running = TRUE
        /\ ring = << >> /\ ring_dropped = 0 /\ seen = 0
        /\ book_pc = "pop"
        /\ expected_seq = 0 /\ gaps = 0 /\ messages_lost = 0 /\ out_of_order = 0
        /\ dir = subscribe(NewDirectory, Ticker)
        /\ applied = << >> /\ joined = 0 /\ got = {}

Bind == /\ ~ bound
        /\ bound' = TRUE
        /\ UNCHANGED <<net, armed, running, ring, ring_dropped, seen, bookVars>>

----------------------------------------------------------------------------
(* recv_thread *)

\* recv returns the i-th datagram waiting, and it is pushed into the ring.
Recv(i) ==
  /\ bound /\ running
  /\ armed' = TRUE
  /\ net' = RemoveAt(net, i)
  /\ IF Len(ring) < RingSize
       THEN ring' = Append(ring, net[i]) /\ UNCHANGED ring_dropped
       ELSE ring_dropped' = ring_dropped + 1 /\ UNCHANGED ring
  /\ UNCHANGED <<bound, running, seen, bookVars>>

\* Mutant: the socket thread leaves without telling the book thread.
IdleTimeout_Silent ==
  /\ bound /\ running /\ armed
  /\ net = << >>
  /\ UNCHANGED <<net, socketVars, ring, ring_dropped, seen, bookVars>>

\* recv times out.  Before the first datagram the timeout is 0, for ever.
IdleTimeout ==
  /\ bound /\ running /\ armed
  /\ net = << >>
  /\ running' = FALSE
  /\ UNCHANGED <<net, bound, armed, ring, ring_dropped, seen, bookVars>>

----------------------------------------------------------------------------
(* receive_loop *)

\* Mutant: the first missing message is not counted.
Account_OffByOne(d) ==
  /\ gaps' = IF expected_seq # 0 /\ d.seq > expected_seq THEN gaps + 1 ELSE gaps
  /\ messages_lost' = IF expected_seq # 0 /\ d.seq > expected_seq
                        THEN messages_lost + (d.seq - expected_seq - 1) ELSE messages_lost
  /\ out_of_order' = IF d.seq < expected_seq THEN out_of_order + 1 ELSE out_of_order
  /\ expected_seq' = d.seq + Len(d.msgs)

\* Mutant: a late datagram is taken off the count, a duplicate too.
Account_TakesBack(d) ==
  /\ gaps' = IF expected_seq # 0 /\ d.seq > expected_seq THEN gaps + 1 ELSE gaps
  /\ messages_lost' = CASE expected_seq # 0 /\ d.seq > expected_seq
                              -> messages_lost + (d.seq - expected_seq)
                        [] d.seq < expected_seq /\ messages_lost > 0 -> messages_lost - 1
                        [] OTHER -> messages_lost
  /\ out_of_order' = IF d.seq < expected_seq THEN out_of_order + 1 ELSE out_of_order
  /\ expected_seq' = d.seq + Len(d.msgs)

\* The sequence number test.
Account(d) ==
  /\ gaps' = IF expected_seq # 0 /\ d.seq > expected_seq THEN gaps + 1 ELSE gaps
  /\ messages_lost' = IF expected_seq # 0 /\ d.seq > expected_seq
                        THEN messages_lost + (d.seq - expected_seq) ELSE messages_lost
  /\ out_of_order' = IF d.seq < expected_seq THEN out_of_order + 1 ELSE out_of_order
  /\ expected_seq' = d.seq + Len(d.msgs)

\* pop loaded a head_ that covers k records, and took the oldest.
Pop(k) ==
  /\ book_pc = "pop"
  /\ k > 0
  /\ LET d == Head(ring)
         s == ConsumeAll([dir |-> dir, applied |-> applied],
                         [i \in DOMAIN d.msgs |-> File[d.msgs[i]]])
     IN  /\ Account(d)
         /\ dir' = s.dir
         /\ applied' = s.applied
         /\ joined' = IF joined = 0 THEN d.seq ELSE joined
         /\ got' = got \cup (d.seq .. d.seq + Len(d.msgs) - 1)
  /\ ring' = Tail(ring)
  /\ seen' = k - 1
  /\ UNCHANGED <<net, socketVars, ring_dropped, book_pc>>

\* pop saw nothing: go on to the exit test.
PopEmpty ==
  /\ book_pc = "pop"
  /\ seen = 0
  /\ book_pc' = "check"
  /\ UNCHANGED <<net, socketVars, ring, ring_dropped, seen, expected_seq, gaps,
                 messages_lost, out_of_order, dir, applied, joined, got>>

\* `running` is still true, or a load of it is still old: poll again.
StillRunning ==
  /\ book_pc = "check"
  /\ book_pc' = "pop"
  /\ UNCHANGED <<net, socketVars, ring, ring_dropped, seen, expected_seq, gaps,
                 messages_lost, out_of_order, dir, applied, joined, got>>

\* Mutant: an empty pop before `running` was read false is trusted.
Stopped_NoRecheck ==
  /\ book_pc = "check"
  /\ ~ running
  /\ book_pc' = "done"
  /\ UNCHANGED <<net, socketVars, ring, ring_dropped, seen, expected_seq, gaps,
                 messages_lost, out_of_order, dir, applied, joined, got>>

\* `running` is read as false: with it, every push before the store is visible
\* and used() is what is really left.
Stopped ==
  /\ book_pc = "check"
  /\ ~ running
  /\ seen' = Len(ring)
  /\ book_pc' = IF seen' = 0 THEN "done" ELSE "pop"
  /\ UNCHANGED <<net, socketVars, ring, ring_dropped, expected_seq, gaps,
                 messages_lost, out_of_order, dir, applied, joined, got>>

BookThread == \/ \E k \in seen .. Len(ring) : Pop(k)
              \/ PopEmpty
              \/ StillRunning
              \/ Stopped
=============================================================================
