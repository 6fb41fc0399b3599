----------------------------- MODULE MCSources -----------------------------
(***************************************************************************)
(* Files of three and four frames: every kind of frame the loops tell      *)
(* apart before, between and after messages for the book, the last frame   *)
(* whole or cut.  A datagram has room for an 'R', an 'A' and a 'D' to the  *)
(* byte.  At speed 1 the stamps ask for two short sleeps and a long one, or *)
(* go back.                                                                *)
(***************************************************************************)
EXTENDS Sources

F(type, len, locate, name) ==
  [type |-> type, len |-> len, locate |-> locate, name |-> name]

R1 == F("R", 39, 1, "AAPL")
R2 == F("R", 39, 2, "MSFT")
A1 == F("A", 36, 1, "AAPL")
D2 == F("D", 19, 2, "MSFT")

Frames ==
  {R1, R2, A1, D2,
   F("H", 25, 1, "AAPL"),               \* known, not for the book
   F("?", 36, 1, "AAPL"),               \* unknown type
   F("A", 12, 1, "AAPL"),               \* wrong length
   F("A", 2, 1, "AAPL"),                \* too short for a locate
   F("A", 0, 1, "AAPL"),                \* a length of zero
   F("I", 60, 1, "AAPL")}               \* longer than the server's buffer

Shapes == UNION {{<<R1, x, A1>>, <<R1, R2, x, D2>>, <<A1, R1, A1, x>>} : x \in Frames}

Stamped(f, ts) == [i \in DOMAIN f |-> [type |-> f[i].type, len |-> f[i].len,
                                       locate |-> f[i].locate, name |-> f[i].name, ts |-> ts[i]]]

Stamps == {<<1, 4, 7, 45>>, <<6, 3, 9, 12>>}

MCFiles ==
  {[frames |-> Stamped(f, ts), cut |-> c] : f \in Shapes, ts \in Stamps, c \in {0, 1}}
  \cup {[frames |-> << >>, cut |-> 0]}

MCSetups ==
  {[directory |-> TRUE,  limit |-> 0, speed |-> [num |-> 1, den |-> 1]],
   [directory |-> TRUE,  limit |-> 2, speed |-> [num |-> 3, den |-> 2]],
   [directory |-> FALSE, limit |-> 1, speed |-> [num |-> 1, den |-> 2]],
   [directory |-> TRUE,  limit |-> 0, speed |-> [num |-> 0, den |-> 1]]}

\* Once the server has begun, the counters of the replay stay as they were when
\* their invariants were last checked.
View == IF turn = "pace" /\ next_msg = 1 /\ clock = 0 THEN vars
        ELSE <<file, cut, cfg, early, calls, AllEarly, serverVars>>
=============================================================================
