-------------------------- MODULE SymbolDirectory --------------------------
(***************************************************************************)
(* The stock directory and the subscription filter (symbol_directory.cpp)  *)
(* as operators on its state.                                              *)
(***************************************************************************)
EXTENDS Naturals, Sequences, SequencesExt, FiniteSets

CONSTANTS Locates,      \* stock_locate values
          Unknown,      \* symbol of a locate no 'R' message has named
          MAX_PENDING

NewDirectory == [symbols    |-> [l \in Locates |-> Unknown],
                 subscribed |-> {},
                 pending    |-> << >>,
                 all        |-> FALSE]

\* feed() takes a message of this shape and no other.
IsDirectory(m) == m.len = 39 /\ m.type = "R"

PendingAt(d, name) == SelectInSeq(d.pending, LAMBDA n : n = name)

\* Overwrite the i-th pending name with the last one and shorten the list.
DropPending(p, i) ==
  LET moved == [p EXCEPT ![i] = p[Len(p)]] IN SubSeq(moved, 1, Len(p) - 1)

\* Mutant: a waiting subscription is not resolved.
feed_NamesOnly(d, l, name) == [d EXCEPT !.symbols[l] = name]

\* An 'R' message: locate l is `name`; one subscription waiting on the name
\* is resolved.
feed(d, l, name) ==
  LET i     == PendingAt(d, name)
      named == [d EXCEPT !.symbols[l] = name]
  IN  IF i = 0 THEN named
      ELSE [named EXCEPT !.subscribed = @ \cup {l}, !.pending = DropPending(@, i)]

KnownAs(d, name) == {l \in Locates : d.symbols[l] = name}

\* The array is searched upwards: the smallest locate of that name.
FirstKnown(d, name) == CHOOSE l \in KnownAs(d, name) : \A k \in KnownAs(d, name) : l <= k

CanSubscribe(d, name) == KnownAs(d, name) # {} \/ Len(d.pending) < MAX_PENDING

subscribe(d, name) ==
  IF KnownAs(d, name) # {}
    THEN [d EXCEPT !.subscribed = @ \cup {FirstKnown(d, name)}]
  ELSE IF Len(d.pending) < MAX_PENDING
    THEN [d EXCEPT !.pending = Append(@, name)]
  ELSE d

subscribe_all(d) == [d EXCEPT !.all = TRUE]

is_subscribed(d, l) == d.all \/ l \in d.subscribed
=============================================================================
