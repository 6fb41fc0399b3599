----------------------------- MODULE ItchReplay -----------------------------
(***************************************************************************)
(* The replay of a mapped file (itch_replay.cpp), with the callback of the *)
(* live view, on_paced (main.cpp), which waits until a message is due.     *)
(* What on_paced does to the book is on_message's part that FileReplay     *)
(* models; its drawing is left out.                                        *)
(*                                                                         *)
(* Subscriptions may come at any time, from the callback too.              *)
(***************************************************************************)
EXTENDS ItchFile, Integers, ItchParser, SymbolDirectory

CONSTANTS Names,        \* names a caller may subscribe to
          MARKET_OPEN,
          PacedSpeed,   \* speed of demo_visualizer
          PaceSlack,    \* on_paced waits only for more than this
          Wrap,         \* 2^64
          MaxSubscribes,\* bound on calls of subscribe and subscribe_all
          MaxStall      \* bound on the clock up to which a thread may stall

ASSUME PaceAssumption == PacedSpeed \in Nat \ {0, 1} /\ PaceSlack \in Nat /\ Wrap \in Nat \ {0}
ASSUME NamesAssumption == Locates \subseteq Nat /\ Unknown \notin Names

VARIABLES cfg,          \* ReplayConfig: whether there is a directory, max_messages
          state,        \* "closed", "open" or "done"
          at,           \* the frame p points to
          stats, counts,
          dir,
          pace,         \* PacedCtx: started, itch_t0, wall_t0
          now,          \* the steady clock
          calls,        \* messages the callback was called for, in order
          shown,        \* history: how far on_paced got by when, since wall_t0
          reached,      \* history: the frames that reached the parser
          wanted,       \* history: the names subscribe() returned true for
          repeated,     \* history: the names it was called for again
          asked,        \* history: calls of subscribe and subscribe_all
          early         \* history: the directory as the replay found it

replayVars == <<cfg, state, at, stats, counts, dir, pace, now, calls, shown, reached,
                wanted, repeated, asked, early>>
loopVars == <<at, stats, counts, pace, now, calls, shown, reached>>

NoStats == [total |-> 0, parsed |-> 0, skipped |-> 0, filtered |-> 0, directory |-> 0,
            bytes |-> 0]

ReplayInit ==
  /\ state = "closed" /\ at = 1
  /\ stats = NoStats /\ counts = NoCounts
  /\ dir = NewDirectory
  /\ pace = [started |-> FALSE, itch_t0 |-> 0, wall_t0 |-> 0] /\ now = 0
  /\ calls = << >> /\ shown = {} /\ reached = {}
  /\ wanted = {} /\ repeated = {} /\ asked = 0 /\ early = dir

Subscribe(name) ==
  /\ state # "done" /\ asked < MaxSubscribes
  /\ dir' = subscribe(dir, name)
  /\ wanted' = IF CanSubscribe(dir, name) THEN wanted \cup {name} ELSE wanted
  /\ repeated' = IF name \in wanted THEN repeated \cup {name} ELSE repeated
  /\ asked' = asked + 1
  /\ UNCHANGED <<cfg, state, loopVars, early>>

SubscribeAll ==
  /\ state # "done" /\ asked < MaxSubscribes
  /\ dir' = subscribe_all(dir)
  /\ asked' = asked + 1
  /\ UNCHANGED <<cfg, state, loopVars, wanted, repeated, early>>

\* Mapping an empty file fails, and the replay of a file not mapped does
\* nothing.
open ==
  /\ state = "closed"
  /\ state' = IF Size = 0 THEN "done" ELSE "open"
  /\ early' = dir
  /\ UNCHANGED <<cfg, loopVars, dir, wanted, repeated, asked>>

----------------------------------------------------------------------------
\* Where the message belongs on the wall clock, and the wait for it.  Before
\* the opening the book is built at full speed.
on_paced(m) ==
  LET p == IF pace.started THEN pace
           ELSE [started |-> TRUE, itch_t0 |-> m.ts, wall_t0 |-> now]
      target == p.wall_t0 + ((m.ts - p.itch_t0) % Wrap) \div PacedSpeed
  IN  IF m.ts < MARKET_OPEN THEN UNCHANGED <<pace, now, shown>>
      ELSE /\ pace' = p
           /\ now' = IF target - now > PaceSlack THEN target ELSE now
           /\ shown' = shown \cup {[sim |-> m.ts - p.itch_t0, wall |-> now' - p.wall_t0]}

\* The thread is descheduled.
ReplayStall ==
  /\ state = "open" /\ now < MaxStall
  /\ now' = now + 1
  /\ UNCHANGED <<cfg, state, at, stats, counts, dir, pace, calls, shown, reached, wanted, repeated,
                 asked, early>>

----------------------------------------------------------------------------
(* replay_all, one turn of the loop *)

Count(path) == [stats EXCEPT !.total = @ + 1, !.bytes = @ + 2 + file[at].len, ![path] = @ + 1]

Turn == state = "open" /\ Complete(at) /\ at' = at + 1

Filters(m) == m.len >= 3 /\ ~ is_subscribed(dir, m.locate)

DirectoryMessage ==
  /\ Turn
  /\ cfg.directory /\ IsDirectory(file[at])
  /\ dir' = feed(dir, file[at].locate, file[at].name)
  /\ stats' = Count("directory")
  /\ UNCHANGED <<cfg, state, counts, pace, now, calls, shown, reached, wanted, repeated,
                 asked, early>>

FilteredMessage ==
  /\ Turn
  /\ cfg.directory /\ ~ IsDirectory(file[at]) /\ Filters(file[at])
  /\ stats' = Count("filtered")
  /\ UNCHANGED <<cfg, state, counts, dir, pace, now, calls, shown, reached, wanted, repeated,
                 asked, early>>

\* Mutant: the message limit counts from the next one on.
Limited_Above(n) == cfg.limit # 0 /\ n > cfg.limit

\* The message limit, tested only after a message that reached the parser.
Limited(n) == cfg.limit # 0 /\ n >= cfg.limit

ParserMessage ==
  /\ Turn
  /\ cfg.directory => ~ IsDirectory(file[at]) /\ ~ Filters(file[at])
  /\ LET verdict == parse(file[at])
     IN  /\ counts' = [counts EXCEPT ![verdict] = @ + 1]
         /\ IF verdict = "parsed"
              THEN /\ stats' = Count("parsed")
                   /\ calls' = Append(calls, file[at])
                   /\ on_paced(file[at])
              ELSE stats' = Count("skipped") /\ UNCHANGED <<calls, pace, now, shown>>
  /\ reached' = reached \cup {at}
  /\ state' = IF Limited(stats'.total) THEN "done" ELSE state
  /\ UNCHANGED <<cfg, dir, wanted, repeated, asked, early>>

EndOfFile ==
  /\ state = "open" /\ ~ Complete(at)
  /\ state' = "done"
  /\ UNCHANGED <<cfg, loopVars, dir, wanted, repeated, asked, early>>

ReplayNext ==
  \/ \E n \in Names : Subscribe(n)
  \/ SubscribeAll \/ open
  \/ DirectoryMessage \/ FilteredMessage \/ ParserMessage \/ EndOfFile
  \/ ReplayStall

----------------------------------------------------------------------------
\* Every message read is counted once and under one heading, whichever way out
\* of the loop it takes, the parser's counters explain every skipped one, and
\* the bytes read are those of the messages counted.  Once max_messages have
\* been read at most one more reaches the parser, however many reference and
\* filtered messages go on being read.
EveryMessageCounted ==
  /\ stats.total = stats.directory + stats.filtered + stats.parsed + stats.skipped
  /\ stats.skipped = counts.ignored + counts.malformed + counts.unknown
  /\ stats.parsed = counts.parsed /\ counts.parsed = Len(calls)
  /\ stats.bytes = Offset(stats.total + 1) /\ stats.bytes <= Size
  /\ cfg.limit # 0 => Cardinality({n \in reached : n >= cfg.limit}) <= 1

\* "safe to call before the directory is read": whichever comes first, the
\* subscription or the 'R' message, the filter lets through exactly the
\* locates whose name was asked for, or everything after subscribe_all().  No
\* name is reported as unmatched once its 'R' message has been read, unless it
\* was asked for more than once: feed resolves one waiting entry and leaves
\* the others.
FilterIsExact ==
  /\ \A l \in Locates :
       is_subscribed(dir, l)
         <=> dir.all \/ (dir.symbols[l] # Unknown /\ dir.symbols[l] \in wanted)
  /\ \A i \in DOMAIN dir.pending :
       KnownAs(dir, dir.pending[i]) # {} => dir.pending[i] \in repeated
=============================================================================
