------------------------------ MODULE ItchFile ------------------------------
(***************************************************************************)
(* An ITCH BinaryFILE: frames of a two-byte length and as many bytes, of   *)
(* which the last may be cut short.                                        *)
(***************************************************************************)
EXTENDS Naturals, Sequences

VARIABLES file,         \* its frames, each with the length it announces
          cut           \* bytes missing from the last

Offset(n) ==
  LET start[i \in 1 .. Len(file) + 1] ==
        IF i = 1 THEN 0 ELSE start[i - 1] + 2 + file[i - 1].len
  IN  start[n]

Size == Offset(Len(file) + 1) - cut

\* The loop at frame n finds a length that is not zero and all of the body.
Complete(n) ==
  /\ n <= Len(file)
  /\ Offset(n) + 2 <= Size
  /\ file[n].len # 0
  /\ Offset(n) + 2 + file[n].len <= Size
=============================================================================
