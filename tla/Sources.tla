------------------------------ MODULE Sources ------------------------------
(***************************************************************************)
(* The two ways a file reaches a book, one after the other on one file:    *)
(* replay_all, then the replay server and what the receive loop makes of   *)
(* its datagrams when all of them arrive.                                  *)
(***************************************************************************)
EXTENDS ItchReplay, ReplayServer, FeedHandler

CONSTANTS Files,        \* files with the bytes cut off at their end
          Setups        \* max_messages, directory and speed_multiplier

\* Timestamps have 48 bits of the 64; only the last frame is cut.
ASSUME FilesAssumption ==
  \A f \in Files :
    /\ f.frames \in Seq([type : STRING, len : Nat, locate : Locates, name : STRING, ts : Nat])
    /\ \A i \in DOMAIN f.frames : f.frames[i].ts < Wrap /\ 2 * f.frames[i].ts < Word
    /\ f.cut \in Nat
    /\ f.cut <= IF f.frames = << >> THEN 0 ELSE 2 + f.frames[Len(f.frames)].len

\* For a day the exchange gives a symbol one locate and a locate one symbol.
ASSUME LocateAssumption ==
  \A f \in Files : \A i, j \in DOMAIN f.frames :
    IsDirectory(f.frames[i]) /\ IsDirectory(f.frames[j]) =>
      /\ f.frames[i].name # Unknown
      /\ f.frames[i].name = f.frames[j].name <=> f.frames[i].locate = f.frames[j].locate

ASSUME SetupsAssumption ==
  \A s \in Setups : /\ s.limit \in Nat /\ s.directory \in BOOLEAN
                    /\ s.speed \in [num : Nat, den : Nat \ {0}]

vars == <<file, cut, replayVars, serverVars>>

Init ==
  /\ \E f \in Files : file = f.frames /\ cut = f.cut
  /\ \E s \in Setups : /\ cfg = [directory |-> s.directory, limit |-> s.limit]
                       /\ speed = s.speed
  /\ ReplayInit
  /\ ServerInit

Replay == ReplayNext /\ UNCHANGED <<file, cut, serverVars>>

Serve == state = "done" /\ ServerNext /\ UNCHANGED <<file, cut, replayVars>>

\* Both are through, or the server has died of a division.
Stopped == turn \in {"done", "fault"} /\ UNCHANGED vars

Next == Replay \/ Serve \/ Stopped

Spec == Init /\ [][Next]_vars

----------------------------------------------------------------------------
\* No message was lost with a datagram that could not be sent.
AllSent ==
  \A n \in 1 .. MessageCount :
    \E i \in DOMAIN net : \E j \in DOMAIN net[i].msgs : net[i].msgs[j] = n

\* What the receive loop makes of the datagrams, from the same subscriptions.
Received ==
  LET after[i \in 0 .. Len(net)] ==
        IF i = 0 THEN [dir |-> early, applied |-> << >>]
        ELSE ConsumeAll(after[i - 1], [j \in DOMAIN net[i].msgs |-> file[net[i].msgs[j]]])
  IN  after[Len(net)]

\* Every subscription was made before the replay began.
AllEarly ==
  /\ dir.all = early.all
  /\ \A n \in wanted : Contains(early.pending, n)

\* The two ways agree: when every send works, what the receive loop hands to
\* the book is what replay_all handed to it, through cut files, messages of no
\* or unknown type and messages of the wrong length.  They differ only where
\* they are meant to: the limit, a subscription made after the start, and a
\* message longer than the server's buffer, at which it stops.
SameMessages ==
  (/\ turn = "done" /\ AllSent
   /\ cfg.directory /\ cfg.limit = 0 /\ AllEarly
   /\ \A i \in DOMAIN file : file[i].len <= MAX_MSG_SIZE)
  => Received.applied = calls

\* No message is shown, and none enters a datagram, before its time at the
\* replay's speed, by more than the wait that is not worth a system call and
\* what rounding takes.  (A message stamped before the first one has no time.)
NeverEarly ==
  /\ \A x \in shown : x.sim >= 0 => x.sim \div PacedSpeed <= x.wall + PaceSlack
  /\ \A i \in DOMAIN buffered :
       speed.num > 0 /\ file[i].len >= 11 /\ file[i].ts >= first_ts =>
         (file[i].ts - first_ts) * speed.den
           <= (buffered[i] + SleepMin + 1) * speed.num + speed.den
=============================================================================
