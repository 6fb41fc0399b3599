----------------------------- MODULE ItchParser -----------------------------
(***************************************************************************)
(* What ItchParser::parse makes of a message (itch_parser.cpp): a record   *)
(* for the book, or one of three reasons to skip it.  The record itself is *)
(* in OrderOps.  A message is its type, its length, its stock_locate, its  *)
(* timestamp and the symbol it is about.                                   *)
(***************************************************************************)
EXTENDS Naturals

Lengths ==
  [S |-> 12, R |-> 39, H |-> 25, Y |-> 20, L |-> 26, V |-> 35, W |-> 12, K |-> 28,
   J |-> 35, h |-> 21, A |-> 36, F |-> 40, E |-> 31, C |-> 36, X |-> 23, D |-> 19,
   U |-> 35, P |-> 44, Q |-> 40, B |-> 19, I |-> 50, N |-> 20]

expected_length(type) == IF type \in DOMAIN Lengths THEN Lengths[type] ELSE 0

is_book_message(type) == type \in {"A", "F", "E", "C", "X", "D", "U", "P"}

\* Type, locate and timestamp are within the first Header bytes.
Header == 11

\* Which of the parser's counters the message is counted under.
parse(m) ==
  LET expect == expected_length(m.type)
  IN  IF m.len < Header THEN "malformed"
      ELSE IF expect = 0 THEN "unknown"
      ELSE IF m.len # expect THEN "malformed"
      ELSE IF is_book_message(m.type) THEN "parsed" ELSE "ignored"

NoCounts == [parsed |-> 0, ignored |-> 0, malformed |-> 0, unknown |-> 0]
=============================================================================
