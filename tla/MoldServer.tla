----------------------------- MODULE MoldServer -----------------------------
(***************************************************************************)
(* The MoldUDP64 replay server (udp_server.cpp): messages of the file are  *)
(* batched into datagrams that carry the sequence number of their first    *)
(* message.  A message is its position in the file.  ReplayServer is the   *)
(* server in detail; here it may find at any time that the next message    *)
(* does not fit, or that it has to wait.                                   *)
(***************************************************************************)
EXTENDS Naturals, Sequences

CONSTANTS PerPacket,    \* bound on the messages of a datagram
          SendFails     \* whether sendto may fail

VARIABLES file_len,     \* messages the read loop finds in the file; never changes
          next_msg,     \* position of the read loop in the file
          packet,       \* messages buffered in packet_
          next_seq,
          sent_all,     \* replay_file has returned
          net           \* datagrams handed to the network

Init == next_msg = 1 /\ packet = << >> /\ next_seq = 1 /\ sent_all = FALSE

Datagram == [seq |-> next_seq - Len(packet), msgs |-> packet]

\* flush: the buffered messages leave as one datagram, or are gone if sendto
\* fails; the buffer is empty either way.
Outcomes == {TRUE} \cup {~ SendFails}

flush(ok) == net' = IF ok /\ packet # << >> THEN Append(net, Datagram) ELSE net

\* send_message into a datagram with room.
SendMessage ==
  /\ next_msg <= file_len
  /\ Len(packet) < PerPacket
  /\ packet' = Append(packet, next_msg)
  /\ next_seq' = next_seq + 1
  /\ next_msg' = next_msg + 1
  /\ UNCHANGED <<sent_all, net>>

\* send_message when the message does not fit: flush first.  If that fails the
\* message is not buffered; the read loop goes on to the next one.
SendMessageFull(ok) ==
  /\ next_msg <= file_len
  /\ packet # << >>
  /\ flush(ok)
  /\ packet' = IF ok THEN <<next_msg>> ELSE << >>
  /\ next_seq' = IF ok THEN next_seq + 1 ELSE next_seq
  /\ next_msg' = next_msg + 1
  /\ UNCHANGED sent_all

\* The flush before a pacing sleep of more than 2 ms.
PaceFlush(ok) ==
  /\ next_msg <= file_len
  /\ packet # << >>
  /\ flush(ok)
  /\ packet' = << >>
  /\ UNCHANGED <<next_msg, next_seq, sent_all>>

\* End of file: the last flush.
Finish(ok) ==
  /\ next_msg > file_len
  /\ ~ sent_all
  /\ flush(ok)
  /\ packet' = << >>
  /\ sent_all' = TRUE
  /\ UNCHANGED <<next_msg, next_seq>>

Next == \/ SendMessage
        \/ \E ok \in Outcomes : SendMessageFull(ok) \/ PaceFlush(ok) \/ Finish(ok)

vars == <<file_len, next_msg, packet, next_seq, sent_all, net>>

Spec == Init /\ net = << >> /\ [][Next /\ UNCHANGED file_len]_vars
=============================================================================
