---------------------------- MODULE MCBookState ----------------------------
(* Four slots and four references.  Two references share a home slot and   *)
(* chains run over the wrap; with as many references as slots the table    *)
(* fills up, with orders or with tombstones.                               *)
EXTENDS BookState, TLC

CONSTANTS r1, r2, r3, r4

MCRefs == {r1, r2, r3, r4}
MCHash == r1 :> 2 @@ r2 :> 2 @@ r3 :> 3 @@ r4 :> 0

\* counted and ops are what a call puts out; no call reads them.
StateView == <<slots, live, peak_live, max_probe>>
=============================================================================
