---------------------------- MODULE FeedHandler ----------------------------
(***************************************************************************)
(* What the receive loop does with one message of a datagram               *)
(* (udp_receiver.cpp), on the directory and the messages handed to the     *)
(* book so far.                                                            *)
(***************************************************************************)
EXTENDS SymbolDirectory, ItchParser

\* The message is too short to have a locate, or its locate is subscribed.
Wanted(d, m) == m.len < 3 \/ is_subscribed(d, m.locate)

\* Mutant: reference data has to pass the symbol filter as well.
Consume_FilterFirst(s, m) ==
  IF ~ Wanted(s.dir, m) THEN s
  ELSE IF IsDirectory(m) THEN [s EXCEPT !.dir = feed(@, m.locate, m.name)]
  ELSE IF parse(m) = "parsed" THEN [s EXCEPT !.applied = Append(@, m)]
  ELSE s

\* Reference data feeds the directory, what is not subscribed is dropped, what
\* the parser accepts goes to the callback.
Consume(s, m) ==
  IF IsDirectory(m) THEN [s EXCEPT !.dir = feed(@, m.locate, m.name)]
  ELSE IF Wanted(s.dir, m) /\ parse(m) = "parsed"
    THEN [s EXCEPT !.applied = Append(@, m)]
  ELSE s

\* The messages of a datagram, one after the other.
ConsumeAll(s, msgs) ==
  LET after[i \in 0 .. Len(msgs)] == IF i = 0 THEN s ELSE Consume(after[i - 1], msgs[i])
  IN  after[Len(msgs)]
=============================================================================
