---------------------------- MODULE WriteAheadLog ----------------------------
(***************************************************************************)
(* The write-ahead log (wal.cpp) and the file under it.  An entry takes    *)
(* EntrySize units of the file, each unit recording the entry it is part   *)
(* of.  append ends in fflush, which moves the entry from the stdio buffer *)
(* into the operating system's copy of the file; only that copy outlives   *)
(* the process, and only the units the system has written back by itself   *)
(* outlive the system.  The file system is external.                       *)
(***************************************************************************)
EXTENDS Naturals, Sequences, FiniteSets

CONSTANTS EntrySize,    \* units per entry
          MaxAppends,   \* bound on calls of append
          MaxRestarts,  \* bound on restarts of the process
          Faults        \* what may fail: "write", "power"

ASSUME EntrySizeAssumption == EntrySize \in Nat \ {0}
ASSUME FaultsAssumption == Faults \subseteq {"write", "power"}

VARIABLES is_open,
          sequence,     \* sequence_
          file,         \* the units of the file
          durable,      \* how many of them are on the disk
          appends, restarts,
          entries,      \* history: every entry append was called for
          acked,        \* history: the entries for which it returned true
          failed,       \* history: what has failed so far
          found         \* history: what had failed when the log was last opened

log == <<appends, entries, acked>>
vars == <<is_open, sequence, file, durable, restarts, failed, found, log>>

\* The n-th call of append writes entry [id |-> n, seq |-> ...].
Units(e, k) == [i \in 1 .. k |-> [entry |-> e, part |-> i]]

Init == /\ is_open = FALSE /\ sequence = 0
        /\ file = << >> /\ durable = 0
        /\ appends = 0 /\ restarts = 0
        /\ entries = {} /\ acked = {} /\ failed = {} /\ found = {}

\* Mutant: numbering starts again at every start.
open_FromZero == /\ ~ is_open
                 /\ is_open' = TRUE
                 /\ sequence' = 0
                 /\ found' = failed
                 /\ UNCHANGED <<file, durable, restarts, failed, log>>

\* Mutant: the file is opened for writing and not for appending.
open_Truncates == /\ ~ is_open
                  /\ is_open' = TRUE
                  /\ sequence' = 0
                  /\ file' = << >> /\ durable' = 0
                  /\ found' = failed
                  /\ UNCHANGED <<restarts, failed, log>>

open == /\ ~ is_open
        /\ is_open' = TRUE
        /\ sequence' = Len(file) \div EntrySize
        /\ found' = failed
        /\ UNCHANGED <<file, durable, restarts, failed, log>>

NewEntry == [id |-> appends + 1, seq |-> sequence + 1, found |-> found]

\* Mutant: the entry is written in front of the others.
append_AtStart(k, ok) ==
  /\ is_open /\ appends < MaxAppends
  /\ sequence' = sequence + 1
  /\ file' = Units(NewEntry, k) \o file
  /\ appends' = appends + 1
  /\ entries' = entries \cup {NewEntry}
  /\ acked' = IF ok THEN acked \cup {NewEntry} ELSE acked
  /\ failed' = IF k < EntrySize THEN failed \cup {"write"} ELSE failed
  /\ UNCHANGED <<is_open, durable, restarts, found>>

\* append: k units of the entry reach the file.  It returns whether fwrite
\* succeeded; that fflush failed goes unnoticed.  On a log that is not open it
\* returns false and does nothing else.
append(k, ok) ==
  /\ is_open /\ appends < MaxAppends
  /\ sequence' = sequence + 1
  /\ file' = file \o Units(NewEntry, k)
  /\ appends' = appends + 1
  /\ entries' = entries \cup {NewEntry}
  /\ acked' = IF ok THEN acked \cup {NewEntry} ELSE acked
  /\ failed' = IF k < EntrySize THEN failed \cup {"write"} ELSE failed
  /\ UNCHANGED <<is_open, durable, restarts, found>>

close == /\ is_open
         /\ is_open' = FALSE
         /\ UNCHANGED <<sequence, file, durable, restarts, failed, found, log>>

\* The operating system writes part of the file back, at a time of its own.
WriteBack == /\ durable < Len(file)
             /\ durable' \in durable + 1 .. Len(file)
             /\ UNCHANGED <<is_open, sequence, file, restarts, failed, found, log>>

\* The process dies and is started again: the log object is a new one.
ProcessCrash == /\ restarts < MaxRestarts
                /\ restarts' = restarts + 1
                /\ is_open' = FALSE /\ sequence' = 0
                /\ UNCHANGED <<file, durable, failed, found, log>>

\* The machine goes down: what was not written back may be gone.
PowerFailure == /\ "power" \in Faults /\ restarts < MaxRestarts
                /\ restarts' = restarts + 1
                /\ is_open' = FALSE /\ sequence' = 0
                /\ \E n \in durable .. Len(file) :
                     file' = SubSeq(file, 1, n) /\ durable' = n
                /\ failed' = failed \cup {"power"}
                /\ UNCHANGED <<found, log>>

Next == \/ open
        \/ append(EntrySize, TRUE)
        \/ \E k \in 0 .. EntrySize - 1, ok \in BOOLEAN : "write" \in Faults /\ append(k, ok)
        \/ close
        \/ WriteBack
        \/ ProcessCrash
        \/ PowerFailure

Spec == Init /\ [][Next]_vars

----------------------------------------------------------------------------
(* replay *)

\* The units fread takes for the i-th entry.
Chunk(i) == SubSeq(file, (i - 1) * EntrySize + 1, i * EntrySize)

\* What replay passes to the callback: one entry per EntrySize units, whatever
\* is in them; a shorter rest is not read.
replay == [i \in 1 .. Len(file) \div EntrySize |-> Chunk(i)]

Whole(chunk) == \E e \in entries : chunk = Units(e, EntrySize)

----------------------------------------------------------------------------
\* "monotonically increasing, never reused" does not hold of the code: open
\* takes the number to go on from from the size of the file, so after an append
\* that did not reach the file, or a machine that lost its end, the numbers of
\* the entries that are gone are given out again.  That is the only case.  Until
\* something fails the n-th entry of the log carries number n, through every
\* restart of the process; and whatever fails, a number comes again, or goes
\* back, only in a log that was opened after the failure.
ReusedOnlyAfterFailure ==
  /\ failed = {} => \A i \in DOMAIN replay : replay[i][1].entry.seq = i
  /\ \A e, f \in entries : e.id < f.id /\ f.seq <= e.seq => f.found # {}

\* Whatever fails, replay passes on whole entries in the order append was
\* called for them, and none twice: the log never overwrites its past.
ReplayKeepsOrder ==
  \A i, j \in DOMAIN replay :
    i < j /\ Whole(replay[i]) /\ Whole(replay[j])
      => replay[i][1].entry.id < replay[j][1].entry.id

\* Every entry for which append returned true is replayed, through any crash
\* of the process, as long as no write and no machine has failed.
AckedIsReplayed ==
  failed = {} => \A e \in acked : \E i \in DOMAIN replay : replay[i] = Units(e, EntrySize)

\* "caller knows order is safe after this returns": the same, whatever fails
\* afterwards.
SafeAfterReturn ==
  \A e \in acked : \E i \in DOMAIN replay : replay[i] = Units(e, EntrySize)
=============================================================================
