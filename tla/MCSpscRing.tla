---------------------------- MODULE MCSpscRing ----------------------------
(* A ring of 16 bytes.  The records' lengths split prefixes and payloads   *)
(* at the wrap in different places and can fill the ring exactly; the      *)
(* consumer cannot take the empty one and the longest.                     *)
EXTENDS SpscRing

MCPayloads == {<< >>, <<1>>, <<2, 3, 4, 5>>, <<6, 7, 8, 9, 10, 11, 12>>}

MCGarbage == {0, 255}
=============================================================================
