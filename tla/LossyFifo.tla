----------------------------- MODULE LossyFifo -----------------------------
(***************************************************************************)
(* What the ring between the receive thread and the book thread promises:  *)
(* a record the producer hands over is either refused and counted, or      *)
(* accepted; accepted records come out whole, once each, in the order they *)
(* were accepted.  The one way an accepted record may vanish is Discard,   *)
(* which skips a run of the oldest ones.                                   *)
(***************************************************************************)
EXTENDS Naturals, Sequences

CONSTANTS Records,      \* what may be handed over
          NoRecord      \* `out` before the first record is taken

VARIABLES sent,         \* every accepted record, in acceptance order
          taken,        \* how many of them the consumer is past
          out,          \* the record the consumer was given last
          refused       \* how many records were refused

vars == <<sent, taken, out, refused>>

Init == /\ sent = << >>
        /\ taken = 0
        /\ out = NoRecord
        /\ refused = 0

Accept(r) == /\ sent' = Append(sent, r)
             /\ UNCHANGED <<taken, out, refused>>

Refuse == /\ refused' = refused + 1
          /\ UNCHANGED <<sent, taken, out>>

Take == /\ taken < Len(sent)
        /\ taken' = taken + 1
        /\ out' = sent[taken + 1]
        /\ UNCHANGED <<sent, refused>>

Discard == /\ taken < Len(sent)
           /\ taken' \in (taken + 1) .. Len(sent)
           /\ UNCHANGED <<sent, out, refused>>

Next == (\E r \in Records : Accept(r)) \/ Refuse \/ Take \/ Discard

Spec == Init /\ [][Next]_vars
=============================================================================
