----------------------------- MODULE MCFeedNet -----------------------------
(***************************************************************************)
(* A file with the directory messages of two symbols and two book          *)
(* messages of one of them.  Timestamps tell them apart.                   *)
(***************************************************************************)
EXTENDS FeedNet

F(type, len, locate, name, ts) ==
  [type |-> type, len |-> len, locate |-> locate, name |-> name, ts |-> ts]

MCFile == <<F("R", 39, 1, "AAPL", 1), F("R", 39, 2, "MSFT", 2), F("A", 36, 1, "AAPL", 3),
            F("D", 19, 1, "AAPL", 4)>>
=============================================================================
