--------------------------- MODULE SourcesProofs ---------------------------
(***************************************************************************)
(* Proofs about the two ways a file is read, for every file: replay_all    *)
(* counts every message once, its filter is exact, neither it nor the      *)
(* server is early, and the server by bytes and timestamps is the          *)
(* MoldServer that the receiver relies on.                                 *)
(***************************************************************************)
EXTENDS Sources, TLAPS, NaturalsInduction, WellFoundedInduction, FiniteSetTheorems

\* A set of natural numbers that is not empty has a least element.
LEMMA LeastNatural ==
  ASSUME NEW S \in SUBSET Nat, S # {}
  PROVE  \E n \in S : \A m \in S : n <= m
<1> DEFINE R == {ss \in Nat \X Nat : ss[1] < ss[2]}
<1>1. IsWellFoundedOn(R, Nat)
  BY NatLessThanWellFounded DEF OpToRel
<1> HIDE DEF R
<1>2. PICK n \in S : \A m \in S : ~ (<<m, n>> \in R)
  BY <1>1, WFMin
<1>3. \A m \in S : ~ (m < n)
  BY <1>2 DEF R
<1> QED BY <1>3

\* f[i] is the sum of the first i of the n numbers in c.
Sums(f, c, n) ==
  /\ f \in [0 .. n -> Nat]
  /\ f[0] = 0
  /\ \A i \in 1 .. n : f[i] = f[i - 1] + c[i]

\* Every sequence of numbers has its sums.
LEMMA SumsExist ==
  ASSUME NEW n \in Nat, NEW c \in [1 .. n -> Nat]
  PROVE  \E f : Sums(f, c, n)
<1> DEFINE T == {k \in 0 .. n : ~ \E f : Sums(f, c, k)}
<1>1. CASE T = {}
  <2>1. n \in 0 .. n
    OBVIOUS
  <2>2. n \notin T
    BY <1>1
  <2> QED BY <2>1, <2>2
<1>2. CASE T # {}
  <2>1. T \in SUBSET Nat
    OBVIOUS
  <2>2. PICK k \in T : \A m \in T : k <= m
    <3> HIDE DEF T
    <3> QED BY <1>2, <2>1, LeastNatural
  <2>3. k # 0
    <3>1. Sums([i \in 0 .. 0 |-> 0], c, 0)
      BY DEF Sums
    <3> QED BY <2>2, <3>1
  <2>4. k - 1 \in 0 .. n /\ k - 1 \notin T /\ k \in 1 .. n
    BY <2>2, <2>3
  <2>5. PICK f : Sums(f, c, k - 1)
    BY <2>4
  <2> DEFINE g == [i \in 0 .. k |-> IF i = k THEN f[k - 1] + c[k] ELSE f[i]]
  <2>6. f \in [0 .. k - 1 -> Nat] /\ f[k - 1] + c[k] \in Nat /\ f[0] = 0
    BY <2>4, <2>5 DEF Sums
  <2>7. g \in [0 .. k -> Nat] /\ g[0] = 0
    <3>1. ASSUME NEW i \in 0 .. k, i # k PROVE f[i] \in Nat
      BY <2>4, <2>6, <3>1
    <3>2. k # 0 /\ 0 \in 0 .. k
      BY <2>3, <2>4
    <3> QED BY <2>6, <3>1, <3>2
  <2>8. ASSUME NEW i \in 1 .. k PROVE g[i] = g[i - 1] + c[i]
    <3>1. CASE i = k
      BY <2>4, <2>6, <3>1
    <3>2. CASE i # k
      <4>1. i \in 1 .. k - 1 /\ i - 1 # k /\ i \in 0 .. k /\ i - 1 \in 0 .. k
        BY <2>4, <3>2
      <4>2. g[i] = f[i] /\ g[i - 1] = f[i - 1]
        BY <3>2, <4>1
      <4> QED BY <2>5, <4>1, <4>2 DEF Sums
    <3> QED BY <3>1, <3>2
  <2>9. Sums(g, c, k)
    <3> HIDE DEF g
    <3> QED BY <2>7, <2>8 DEF Sums
  <2> QED BY <2>2, <2>9
<1> QED BY <1>1, <1>2

----------------------------------------------------------------------------
(* Offsets in the file *)

\* The frames as FilesAssumption has them.
Frames == [type : STRING, len : Nat, locate : Locates, name : STRING, ts : Nat]

\* What the assumptions say of the file in hand and of the configuration.
Chosen ==
  /\ file \in Seq(Frames)
  /\ \A i \in DOMAIN file : file[i].ts < Wrap /\ 2 * file[i].ts < Word
  /\ cut \in Nat /\ cut <= IF file = << >> THEN 0 ELSE 2 + file[Len(file)].len
  /\ \A i, j \in DOMAIN file :
       IsDirectory(file[i]) /\ IsDirectory(file[j]) =>
         /\ file[i].name # Unknown
         /\ file[i].name = file[j].name <=> file[i].locate = file[j].locate
  /\ cfg.limit \in Nat /\ speed \in [num : Nat, den : Nat \ {0}]

\* The files and configurations are the assumed ones, and stay.
LEMMA InitChosen == Init => Chosen
<1> SUFFICES ASSUME Init PROVE Chosen
  OBVIOUS
<1>1. PICK f \in Files : file = f.frames /\ cut = f.cut
  BY DEF Init
<1>2. PICK s \in Setups : cfg.limit = s.limit /\ speed = s.speed
  BY DEF Init
<1>3. /\ file \in Seq(Frames)
      /\ \A i \in DOMAIN file : file[i].ts < Wrap /\ 2 * file[i].ts < Word
      /\ cut \in Nat /\ cut <= IF file = << >> THEN 0 ELSE 2 + file[Len(file)].len
  BY <1>1, FilesAssumption DEF Frames
<1>4. \A i, j \in DOMAIN file :
        IsDirectory(file[i]) /\ IsDirectory(file[j]) =>
          /\ file[i].name # Unknown
          /\ file[i].name = file[j].name <=> file[i].locate = file[j].locate
  BY <1>1, LocateAssumption
<1>5. cfg.limit \in Nat /\ speed \in [num : Nat, den : Nat \ {0}]
  BY <1>2, SetupsAssumption
<1> QED BY <1>3, <1>4, <1>5 DEF Chosen

\* A frame of the file is a frame.
LEMMA FrameIs ==
  ASSUME Chosen, NEW i \in 1 .. Len(file)
  PROVE  /\ file[i] \in Frames /\ i \in DOMAIN file
         /\ file[i].len \in Nat /\ file[i].ts \in Nat /\ file[i].locate \in Locates
<1>1. file[i] \in Frames /\ i \in DOMAIN file
  BY DEF Chosen
<1> QED BY <1>1 DEF Frames

\* No step changes the file or the configuration.
LEMMA NextChosen == Chosen /\ [Next]_vars => Chosen'
<1> SUFFICES ASSUME Chosen, [Next]_vars PROVE Chosen'
  OBVIOUS
<1>1. UNCHANGED <<file, cut, cfg, speed>>
  BY DEF Next, vars, Replay, Serve, Stopped, replayVars, serverVars, ReplayNext, Subscribe,
         SubscribeAll, open, DirectoryMessage, FilteredMessage, ParserMessage, EndOfFile,
         ReplayStall, ServerNext, NoWait, Wait, DivideFault, Send, SendAfterFlush,
         EndOfReplay, ServerStall
<1> QED BY <1>1 DEF Chosen

\* The definition of Offset: it begins at 0 and grows by a frame.
LEMMA OffsetIs ==
  ASSUME Chosen
  PROVE  /\ Offset(1) = 0
         /\ \A n \in 1 .. Len(file) + 1 : Offset(n) \in Nat
         /\ \A n \in 1 .. Len(file) : Offset(n + 1) = Offset(n) + 2 + file[n].len
<1> DEFINE N == Len(file)
           c == [i \in 1 .. N |-> 2 + file[i].len]
           Body(s) == [i \in 1 .. N + 1 |-> IF i = 1 THEN 0 ELSE s[i - 1] + 2 + file[i - 1].len]
           start == CHOOSE s : s = Body(s)
<1>1. N \in Nat /\ \A i \in 1 .. N : file[i].len \in Nat
  BY FrameIs DEF Chosen
<1>2. c \in [1 .. N -> Nat]
  BY <1>1
<1>3. PICK f : Sums(f, c, N)
  <2> HIDE DEF c, N
  <2> QED BY <1>1, <1>2, SumsExist
<1> DEFINE g == [i \in 1 .. N + 1 |-> f[i - 1]]
<1>4. g = Body(g)
  <2>1. ASSUME NEW i \in 1 .. N + 1 PROVE g[i] = Body(g)[i]
    <3>1. CASE i = 1
      BY <1>1, <1>3, <3>1 DEF Sums
    <3>2. CASE i # 1
      <4>1. i - 1 \in 1 .. N /\ i - 1 \in 1 .. N + 1
        BY <1>1, <3>2
      <4>2. g[i] = f[i - 1] /\ g[i - 1] = f[i - 1 - 1]
        BY <4>1
      <4>3. f[i - 1] = f[i - 1 - 1] + c[i - 1]
        BY <1>3, <4>1 DEF Sums
      <4>4. c[i - 1] = 2 + file[i - 1].len /\ f[i - 1 - 1] \in Nat
        <5>1. i - 1 - 1 \in 0 .. N
          BY <1>1, <4>1
        <5> QED BY <1>3, <4>1, <5>1 DEF Sums
      <4>5. Body(g)[i] = g[i - 1] + 2 + file[i - 1].len
        BY <3>2
      <4> HIDE DEF g, Body, c
      <4>6. file[i - 1].len \in Nat
        BY <1>1, <4>1
      <4> HIDE DEF start, N
      <4> QED BY <4>2, <4>3, <4>4, <4>5, <4>6
    <3> QED BY <3>1, <3>2
  <2> QED BY <2>1
<1>5. start = Body(start)
  <2> HIDE DEF g, Body
  <2> QED BY <1>4
<1>6. ASSUME NEW n PROVE Offset(n) = start[n]
  BY DEF Offset
<1> HIDE DEF start
<1>7. /\ start[1] = 0
      /\ \A n \in 1 .. N : start[n + 1] = start[n] + 2 + file[n].len
  <2>1. \A i \in 1 .. N + 1 : start[i] = IF i = 1 THEN 0 ELSE start[i - 1] + 2 + file[i - 1].len
    BY <1>5
  <2>2. start[1] = 0
    BY <1>1, <2>1
  <2>3. ASSUME NEW n \in 1 .. N PROVE start[n + 1] = start[n] + 2 + file[n].len
    <3>1. n + 1 \in 1 .. N + 1 /\ n + 1 # 1 /\ n + 1 - 1 = n
      BY <1>1
    <3> QED BY <2>1, <3>1
  <2> QED BY <2>2, <2>3
<1>8. \A n \in 1 .. N + 1 : start[n] \in Nat
  <2> DEFINE T == {n \in 1 .. N + 1 : start[n] \notin Nat}
  <2>1. T \in SUBSET Nat
    BY <1>1
  <2>2. SUFFICES ASSUME T # {} PROVE FALSE
    OBVIOUS
  <2>3. PICK n \in T : \A m \in T : n <= m
    <3> HIDE DEF T
    <3> QED BY <2>1, <2>2, LeastNatural
  <2>4. n # 1
    BY <1>7, <2>3
  <2>5. n - 1 \in 1 .. N /\ n - 1 \notin T
    BY <1>1, <2>3, <2>4
  <2>6. start[n - 1] \in Nat /\ start[n] = start[n - 1] + 2 + file[n - 1].len
    BY <1>1, <1>7, <2>3, <2>5
  <2>7. file[n - 1].len \in Nat
    BY <1>1, <2>5
  <2>8. start[n] \in Nat
    <3> HIDE DEF start, T
    <3> QED BY <2>6, <2>7
  <2> QED BY <2>3, <2>8
<1> QED BY <1>6, <1>7, <1>8

\* The file has no less than no bytes.
LEMMA SizeIs ==
  ASSUME Chosen
  PROVE  Size \in Nat
<1> DEFINE N == Len(file)
<1>1. N \in Nat /\ file \in Seq(Frames) /\ cut \in Nat
  BY DEF Chosen
<1>2. CASE N = 0
  BY <1>1, <1>2, OffsetIs DEF Size, Chosen
<1>3. CASE N # 0
  <2>1. N \in 1 .. N /\ file[N].len \in Nat /\ file # << >>
    BY <1>1, <1>3, FrameIs
  <2>2. Offset(N) \in Nat /\ Offset(N + 1) = Offset(N) + 2 + file[N].len
    BY <1>1, <2>1, OffsetIs
  <2>3. cut <= 2 + file[N].len
    BY <2>1 DEF Chosen
  <2> QED BY <1>1, <2>1, <2>2, <2>3 DEF Size
<1> QED BY <1>2, <1>3

----------------------------------------------------------------------------
(* The subscription filter *)

\* The file names locate l as n.
Named(l, n) == \E i \in DOMAIN file : IsDirectory(file[i]) /\ file[i].locate = l /\ file[i].name = n

\* The values of a SymbolDirectory.
Directories ==
  [symbols : [Locates -> STRING \cup {Unknown}], subscribed : SUBSET Locates,
   pending : Seq(Names), all : BOOLEAN]

\* What the directory knows of locates it has from the file.
FromFile(d) == \A l \in Locates : d.symbols[l] = Unknown \/ Named(l, d.symbols[l])

\* The flags are those of the names asked for.
Flagged(d, w) ==
  \A l \in Locates : l \in d.subscribed <=> d.symbols[l] # Unknown /\ d.symbols[l] \in w

\* A name asked for is known or waits, and only such a name waits.
Waiting(d, w) ==
  /\ \A i \in DOMAIN d.pending : d.pending[i] \in w
  /\ \A n \in w : KnownAs(d, n) # {} \/ \E i \in DOMAIN d.pending : d.pending[i] = n

\* A name waits once and only until it is known, unless it was asked for again.
Once(d, r) ==
  /\ \A i \in DOMAIN d.pending : KnownAs(d, d.pending[i]) # {} => d.pending[i] \in r
  /\ \A i, j \in DOMAIN d.pending : d.pending[i] = d.pending[j] /\ i # j => d.pending[i] \in r

\* The inductive invariant of the filter.
Filter(d, w, r) ==
  /\ d \in Directories /\ w \subseteq Names
  /\ FromFile(d) /\ Flagged(d, w) /\ Waiting(d, w) /\ Once(d, r)

\* No locate has two names, and no name two locates.
LEMMA NamedOnce ==
  ASSUME Chosen, NEW l, NEW k, NEW n, NEW m, Named(l, n), Named(k, m)
  PROVE  n # Unknown /\ (n = m <=> l = k)
BY DEF Chosen, Named

\* The search of the waiting names finds one if there is one.
LEMMA PendingIs ==
  ASSUME NEW d \in Directories, NEW name
  PROVE  IF \E i \in DOMAIN d.pending : d.pending[i] = name
           THEN PendingAt(d, name) \in DOMAIN d.pending /\ d.pending[PendingAt(d, name)] = name
           ELSE PendingAt(d, name) = 0
<1> DEFINE p == d.pending
           I == {i \in 1 .. Len(p) : p[i] = name}
<1>1. p \in Seq(Names) /\ DOMAIN p = 1 .. Len(p) /\ Len(p) \in Nat
  BY DEF Directories
<1>2. PendingAt(d, name) = IF I # {} THEN Min(I) ELSE 0
  BY DEF PendingAt, SelectInSeq
<1>3. CASE I # {}
  <2>1. \E i \in I : \A j \in I : i <= j
    <3>1. I \in SUBSET Nat
      BY <1>1
    <3> HIDE DEF I
    <3> QED BY <1>3, <3>1, LeastNatural
  <2>2. Min(I) \in I
    BY <2>1 DEF Min
  <2> QED BY <1>1, <1>2, <1>3, <2>2
<1>4. CASE I = {}
  BY <1>1, <1>2, <1>4
<1> QED BY <1>3, <1>4

\* Taking a name off the list leaves the others, each as often as before.
LEMMA DropIs ==
  ASSUME NEW p \in Seq(Names), NEW i \in DOMAIN p
  PROVE  /\ DropPending(p, i) \in Seq(Names)
         /\ \A j \in DOMAIN DropPending(p, i) :
              \/ j \in DOMAIN p /\ j # i /\ DropPending(p, i)[j] = p[j] /\ j # Len(p)
              \/ j = i /\ i # Len(p) /\ Len(p) \in DOMAIN p /\ DropPending(p, i)[j] = p[Len(p)]
         /\ \A j \in DOMAIN p : j # i =>
              \E k \in DOMAIN DropPending(p, i) : DropPending(p, i)[k] = p[j]
<1> DEFINE n == Len(p)
           q == [p EXCEPT ![i] = p[n]]
           r == SubSeq(q, 1, n - 1)
<1>1. n \in Nat \ {0} /\ i \in 1 .. n /\ DOMAIN p = 1 .. n
  OBVIOUS
<1>2. q \in Seq(Names) /\ Len(q) = n /\ \A j \in 1 .. n : q[j] = IF j = i THEN p[n] ELSE p[j]
  BY <1>1
<1> HIDE DEF q
<1>3. r \in Seq(Names) /\ DOMAIN r = 1 .. n - 1 /\ \A j \in 1 .. n - 1 : r[j] = q[j]
  BY <1>1, <1>2
<1>4. DropPending(p, i) = r
  BY DEF DropPending, q
<1> HIDE DEF r
<1>5. \A j \in DOMAIN r :
        \/ j \in DOMAIN p /\ j # i /\ r[j] = p[j] /\ j # n
        \/ j = i /\ i # n /\ n \in DOMAIN p /\ r[j] = p[n]
  BY <1>1, <1>2, <1>3
<1>6. ASSUME NEW j \in DOMAIN p, j # i PROVE \E k \in DOMAIN r : r[k] = p[j]
  <2>1. CASE j = n
    <3>1. i \in 1 .. n - 1
      BY <1>1, <1>6, <2>1
    <3>2. r[i] = p[j]
      BY <1>1, <1>2, <1>3, <2>1, <3>1
    <3> QED BY <1>3, <3>1, <3>2
  <2>2. CASE j # n
    <3>1. j \in 1 .. n - 1
      BY <1>1, <1>6, <2>2
    <3>2. r[j] = p[j]
      BY <1>1, <1>2, <1>3, <1>6, <3>1
    <3> QED BY <1>3, <3>1, <3>2
  <2> QED BY <2>1, <2>2
<1> QED BY <1>3, <1>4, <1>5, <1>6

\* What an 'R' message does to the names: only its locate is named anew.
LEMMA FeedNames ==
  ASSUME Chosen, NEW d \in Directories, FromFile(d),
         NEW l \in Locates, NEW name \in STRING, Named(l, name),
         NEW e \in Directories, e.symbols = [d.symbols EXCEPT ![l] = name]
  PROVE  /\ FromFile(e)
         /\ name # Unknown /\ (d.symbols[l] = Unknown \/ d.symbols[l] = name)
         /\ l \in KnownAs(e, name) /\ KnownAs(d, name) \subseteq {l}
         /\ \A n : n # name /\ n # Unknown => KnownAs(e, n) = KnownAs(d, n)
<1>1. d.symbols \in [Locates -> STRING \cup {Unknown}]
  BY DEF Directories
<1>2. /\ e.symbols[l] = name
      /\ \A k \in Locates : k # l => e.symbols[k] = d.symbols[k]
  BY <1>1
<1>3. name # Unknown
  BY NamedOnce
<1>4. d.symbols[l] = Unknown \/ d.symbols[l] = name
  BY NamedOnce DEF FromFile
<1>5. KnownAs(d, name) \subseteq {l}
  BY <1>3, NamedOnce DEF FromFile, KnownAs
<1>6. ASSUME NEW n, n # name, n # Unknown PROVE KnownAs(e, n) = KnownAs(d, n)
  BY <1>2, <1>4, <1>6 DEF KnownAs
<1>7. FromFile(e)
  BY <1>2 DEF FromFile
<1>8. l \in KnownAs(e, name)
  BY <1>2 DEF KnownAs
<1> QED BY <1>3, <1>4, <1>5, <1>6, <1>7, <1>8

\* An 'R' message keeps the filter exact.
LEMMA FeedKeeps ==
  ASSUME Chosen, NEW d, NEW w, NEW r, Filter(d, w, r), NEW l \in Locates,
         NEW name \in STRING, Named(l, name)
  PROVE  Filter(feed(d, l, name), w, r)
<1> DEFINE i == PendingAt(d, name)
           named == [d EXCEPT !.symbols[l] = name]
           e == feed(d, l, name)
           p == d.pending
<1>1. /\ d \in Directories /\ w \subseteq Names /\ p \in Seq(Names)
      /\ FromFile(d) /\ Flagged(d, w) /\ Waiting(d, w) /\ Once(d, r)
  BY DEF Filter, Directories
<1>2. /\ named \in Directories /\ named.symbols = [d.symbols EXCEPT ![l] = name]
      /\ named.subscribed = d.subscribed /\ named.pending = d.pending
  BY <1>1 DEF Directories
<1>3. Unknown \notin w
  BY <1>1, NamesAssumption
<1>4. CASE ~ \E j \in DOMAIN p : p[j] = name
  <2>1. e = named
    BY <1>1, <1>4, PendingIs DEF feed
  <2> HIDE DEF e, named, p
  <2>2. /\ FromFile(e)
        /\ name # Unknown /\ (d.symbols[l] = Unknown \/ d.symbols[l] = name)
        /\ l \in KnownAs(e, name) /\ KnownAs(d, name) \subseteq {l}
        /\ \A n : n # name /\ n # Unknown => KnownAs(e, n) = KnownAs(d, n)
    BY <1>1, <1>2, <2>1, FeedNames
  <2>3. Flagged(e, w)
    <3>1. ASSUME NEW k \in Locates
          PROVE  k \in e.subscribed <=> e.symbols[k] # Unknown /\ e.symbols[k] \in w
      <4>1. CASE k # l
        <5>1. e.symbols[k] = d.symbols[k]
          BY <1>1, <1>2, <2>1, <4>1 DEF Directories
        <5> QED BY <1>1, <1>2, <2>1, <5>1 DEF Flagged
      <4>2. CASE k = l
        <5>1. e.symbols[k] = name
          BY <1>1, <1>2, <2>1, <4>2 DEF Directories
        <5>2. CASE d.symbols[l] = name
          BY <1>1, <1>2, <2>1, <4>2, <5>1, <5>2 DEF Flagged
        <5>3. CASE d.symbols[l] = Unknown
          <6>1. l \notin d.subscribed
            BY <1>1, <5>3 DEF Flagged
          <6>2. KnownAs(d, name) = {}
            BY <2>2, <5>3 DEF KnownAs
          <6>3. name \notin w
            BY <1>1, <1>4, <6>2 DEF Waiting, p
          <6> QED BY <1>2, <2>1, <4>2, <5>1, <6>1, <6>3
        <5> QED BY <2>2, <5>2, <5>3
      <4> QED BY <4>1, <4>2
    <3> QED BY <3>1 DEF Flagged
  <2>4. Waiting(e, w)
    <3>1. \A j \in DOMAIN e.pending : e.pending[j] \in w
      BY <1>1, <1>2, <2>1 DEF Waiting
    <3>2. ASSUME NEW n \in w
          PROVE  KnownAs(e, n) # {} \/ \E j \in DOMAIN e.pending : e.pending[j] = n
      <4>1. CASE n = name
        BY <2>2, <4>1
      <4>2. CASE n # name
        BY <1>1, <1>2, <1>3, <2>1, <2>2, <4>2 DEF Waiting
      <4> QED BY <4>1, <4>2
    <3> QED BY <3>1, <3>2 DEF Waiting
  <2>5. Once(e, r)
    <3>1. ASSUME NEW j \in DOMAIN e.pending, KnownAs(e, e.pending[j]) # {}
          PROVE  e.pending[j] \in r
      <4>1. e.pending[j] # name /\ e.pending[j] # Unknown
        BY <1>1, <1>2, <1>3, <1>4, <2>1 DEF Waiting, p
      <4> QED BY <1>1, <1>2, <2>1, <2>2, <3>1, <4>1 DEF Once
    <3>2. \A j, k \in DOMAIN e.pending :
            e.pending[j] = e.pending[k] /\ j # k => e.pending[j] \in r
      BY <1>1, <1>2, <2>1 DEF Once
    <3> QED BY <3>1, <3>2 DEF Once
  <2>6. e \in Directories
    BY <1>2, <2>1
  <2> QED BY <1>1, <2>2, <2>3, <2>4, <2>5, <2>6 DEF Filter, e
<1>5. CASE \E j \in DOMAIN p : p[j] = name
  <2> DEFINE q == DropPending(p, i)
  <2>1. i \in DOMAIN p /\ p[i] = name /\ i # 0
    <3>1. i \in DOMAIN p /\ p[i] = name
      BY <1>1, <1>5, PendingIs
    <3> QED BY <1>1, <3>1
  <2>2. /\ q \in Seq(Names)
        /\ \A j \in DOMAIN q :
             \/ j \in DOMAIN p /\ j # i /\ q[j] = p[j] /\ j # Len(p)
             \/ j = i /\ i # Len(p) /\ Len(p) \in DOMAIN p /\ q[j] = p[Len(p)]
        /\ \A j \in DOMAIN p : j # i => \E k \in DOMAIN q : q[k] = p[j]
    <3> HIDE DEF i, p
    <3> QED BY <1>1, <2>1, DropIs
  <2>3. e = [named EXCEPT !.subscribed = @ \cup {l}, !.pending = q]
    BY <1>2, <2>1 DEF feed
  <2> HIDE DEF q, i, named
  <2>4. /\ e \in Directories /\ e.symbols = [d.symbols EXCEPT ![l] = name]
        /\ e.subscribed = d.subscribed \cup {l} /\ e.pending = q
    <3>1. named.subscribed \cup {l} \in SUBSET Locates
      BY <1>2 DEF Directories
    <3>2. e \in Directories /\ e.symbols = named.symbols
          /\ e.subscribed = named.subscribed \cup {l} /\ e.pending = q
      <4> HIDE DEF e
      <4> QED BY <1>2, <2>2, <2>3, <3>1 DEF Directories
    <3> QED BY <1>2, <3>2
  <2> HIDE DEF e
  <2>5. /\ FromFile(e)
        /\ name # Unknown /\ (d.symbols[l] = Unknown \/ d.symbols[l] = name)
        /\ l \in KnownAs(e, name) /\ KnownAs(d, name) \subseteq {l}
        /\ \A n : n # name /\ n # Unknown => KnownAs(e, n) = KnownAs(d, n)
    BY <1>1, <2>4, FeedNames
  <2>6. name \in w
    BY <1>1, <2>1 DEF Waiting
  <2>7. Flagged(e, w)
    <3>1. ASSUME NEW k \in Locates
          PROVE  k \in e.subscribed <=> e.symbols[k] # Unknown /\ e.symbols[k] \in w
      <4>1. CASE k # l
        <5>1. e.symbols[k] = d.symbols[k]
          BY <1>1, <2>4, <4>1 DEF Directories
        <5> QED BY <1>1, <2>4, <4>1, <5>1 DEF Flagged
      <4>2. CASE k = l
        <5>1. e.symbols[k] = name
          BY <1>1, <2>4, <4>2 DEF Directories
        <5> QED BY <2>4, <2>5, <2>6, <4>2, <5>1
      <4> QED BY <4>1, <4>2
    <3> QED BY <3>1 DEF Flagged
  <2>8. Waiting(e, w)
    <3>1. \A j \in DOMAIN e.pending : e.pending[j] \in w
      BY <1>1, <2>2, <2>4 DEF Waiting
    <3>2. ASSUME NEW n \in w
          PROVE  KnownAs(e, n) # {} \/ \E j \in DOMAIN e.pending : e.pending[j] = n
      <4>1. CASE n = name
        BY <2>5, <4>1
      <4>2. CASE n # name
        <5>1. CASE KnownAs(d, n) # {}
          BY <1>3, <2>5, <4>2, <5>1
        <5>2. CASE \E j \in DOMAIN p : p[j] = n
          BY <2>1, <2>2, <2>4, <4>2, <5>2
        <5>3. KnownAs(d, n) # {} \/ \E j \in DOMAIN p : p[j] = n
          BY <1>1, <3>2 DEF Waiting
        <5> QED BY <5>1, <5>2, <5>3
      <4> QED BY <4>1, <4>2
    <3> QED BY <3>1, <3>2 DEF Waiting
  <2>9. Once(e, r)
    <3>1. ASSUME NEW j \in DOMAIN q, NEW k \in DOMAIN q, j # k, q[j] = q[k] PROVE q[j] \in r
      <4>1. PICK a \in DOMAIN p : q[j] = p[a] /\ ((a = j /\ j # Len(p)) \/ (a = Len(p) /\ j = i))
        BY <2>2
      <4>2. PICK b \in DOMAIN p : q[k] = p[b] /\ ((b = k /\ k # Len(p)) \/ (b = Len(p) /\ k = i))
        BY <2>2
      <4>3. a # b
        BY <3>1, <4>1, <4>2
      <4> QED BY <1>1, <3>1, <4>1, <4>2, <4>3 DEF Once
    <3>2. ASSUME NEW j \in DOMAIN q, KnownAs(e, q[j]) # {} PROVE q[j] \in r
      <4>1. PICK a \in DOMAIN p : q[j] = p[a] /\ a # i
        BY <2>2
      <4>2. CASE q[j] = name
        BY <1>1, <2>1, <4>1, <4>2 DEF Once
      <4>3. CASE q[j] # name
        <5>1. q[j] # Unknown
          BY <1>1, <1>3, <4>1 DEF Waiting
        <5> QED BY <1>1, <2>5, <3>2, <4>1, <4>3, <5>1 DEF Once
      <4> QED BY <4>2, <4>3
    <3> QED BY <2>4, <3>1, <3>2 DEF Once
  <2> QED BY <1>1, <2>4, <2>5, <2>7, <2>8, <2>9 DEF Filter, e
<1> QED BY <1>4, <1>5

\* A subscription keeps the filter exact, whether its name is known, has to
\* wait or finds no room to wait.
LEMMA SubscribeKeeps ==
  ASSUME Chosen, NEW d, NEW w, NEW r, Filter(d, w, r), NEW name \in Names
  PROVE  Filter(subscribe(d, name),
                IF CanSubscribe(d, name) THEN w \cup {name} ELSE w,
                IF name \in w THEN r \cup {name} ELSE r)
<1> DEFINE e == subscribe(d, name)
           v == w \cup {name}
           t == IF name \in w THEN r \cup {name} ELSE r
           p == d.pending
<1>1. /\ d \in Directories /\ w \subseteq Names /\ p \in Seq(Names)
      /\ FromFile(d) /\ Flagged(d, w) /\ Waiting(d, w) /\ Once(d, r)
  BY DEF Filter, Directories
<1>2. name # Unknown /\ v \subseteq Names /\ r \subseteq t
  BY <1>1, NamesAssumption
<1>3. CASE KnownAs(d, name) # {}
  <2> DEFINE l == FirstKnown(d, name)
  <2>1. PICK k \in KnownAs(d, name) : TRUE
    BY <1>3
  <2>2. KnownAs(d, name) = {k} /\ k \in Locates /\ k \in Nat
    <3>1. k \in Locates /\ Named(k, name)
      BY <1>1, <1>2, <2>1 DEF KnownAs, FromFile
    <3>2. ASSUME NEW j \in KnownAs(d, name) PROVE j = k
      <4>1. Named(j, name)
        BY <1>1, <1>2 DEF KnownAs, FromFile
      <4> QED BY <3>1, <4>1, NamedOnce
    <3> QED BY <2>1, <3>1, <3>2, NamesAssumption
  <2>3. l = k
    BY <2>2 DEF FirstKnown
  <2>4. e = [d EXCEPT !.subscribed = @ \cup {k}] /\ CanSubscribe(d, name)
    BY <1>3, <2>3 DEF subscribe, CanSubscribe
  <2>5. d.subscribed \cup {k} \in SUBSET Locates
    BY <1>1, <2>2 DEF Directories
  <2> HIDE DEF e, l
  <2>6. /\ e \in Directories /\ e.symbols = d.symbols /\ e.pending = d.pending
        /\ e.subscribed = d.subscribed \cup {k}
    BY <1>1, <2>4, <2>5 DEF Directories
  <2>7. FromFile(e) /\ \A n : KnownAs(e, n) = KnownAs(d, n)
    BY <1>1, <2>6 DEF FromFile, KnownAs
  <2>8. Flagged(e, v)
    BY <1>1, <1>2, <2>2, <2>6 DEF Flagged, KnownAs
  <2>9. Waiting(e, v)
    BY <1>1, <1>3, <2>6, <2>7 DEF Waiting
  <2>10. Once(e, t)
    <3> HIDE DEF t
    <3>1. \A j \in DOMAIN e.pending : KnownAs(e, e.pending[j]) # {} => e.pending[j] \in t
      BY <1>1, <1>2, <2>6, <2>7 DEF Once
    <3>2. \A j, m \in DOMAIN e.pending :
            e.pending[j] = e.pending[m] /\ j # m => e.pending[j] \in t
      BY <1>1, <1>2, <2>6 DEF Once
    <3> QED BY <3>1, <3>2 DEF Once
  <2>11. Filter(e, v, t)
    <3> HIDE DEF v, t
    <3> QED BY <1>2, <2>6, <2>7, <2>8, <2>9, <2>10 DEF Filter
  <2> QED BY <2>4, <2>11 DEF e
<1>4. CASE KnownAs(d, name) = {} /\ Len(d.pending) < MAX_PENDING
  <2> DEFINE q == Append(p, name)
  <2>1. e = [d EXCEPT !.pending = q] /\ CanSubscribe(d, name)
    BY <1>4 DEF subscribe, CanSubscribe
  <2>2. /\ q \in Seq(Names) /\ Len(p) \in Nat /\ DOMAIN p = 1 .. Len(p)
        /\ DOMAIN q = 1 .. Len(p) + 1 /\ q[Len(p) + 1] = name
        /\ \A j \in DOMAIN p : q[j] = p[j]
    BY <1>1
  <2> HIDE DEF e, q
  <2>3. /\ e \in Directories /\ e.symbols = d.symbols /\ e.pending = q
        /\ e.subscribed = d.subscribed
    BY <1>1, <2>1, <2>2 DEF Directories
  <2>4. FromFile(e) /\ \A n : KnownAs(e, n) = KnownAs(d, n)
    BY <1>1, <2>3 DEF FromFile, KnownAs
  <2>5. Flagged(e, v)
    BY <1>1, <1>4, <2>3 DEF Flagged, KnownAs
  <2>6. \A j \in DOMAIN q : j = Len(p) + 1 \/ (j \in DOMAIN p /\ j # Len(p) + 1)
    BY <2>2
  <2>7. Waiting(e, v)
    <3>1. \A j \in DOMAIN q : q[j] \in v
      BY <1>1, <2>2, <2>6 DEF Waiting
    <3>2. ASSUME NEW n \in v PROVE KnownAs(e, n) # {} \/ \E j \in DOMAIN q : q[j] = n
      <4>1. CASE n = name
        BY <2>2, <4>1
      <4>2. CASE n \in w
        <5>1. CASE KnownAs(d, n) # {}
          BY <2>4, <5>1
        <5>2. CASE \E j \in DOMAIN p : p[j] = n
          <6>1. PICK j \in DOMAIN p : p[j] = n
            BY <5>2
          <6>2. j \in DOMAIN q /\ q[j] = n
            BY <2>2, <6>1
          <6> QED BY <6>2
        <5> QED BY <1>1, <4>2, <5>1, <5>2 DEF Waiting
      <4> QED BY <4>1, <4>2
    <3> QED BY <2>3, <3>1, <3>2 DEF Waiting
  <2>8. Once(e, t)
    <3>1. ASSUME NEW j \in DOMAIN q, KnownAs(e, q[j]) # {} PROVE q[j] \in t
      <4>1. j \in DOMAIN p /\ q[j] = p[j]
        BY <1>4, <2>2, <2>4, <2>6, <3>1
      <4> QED BY <1>1, <1>2, <2>4, <3>1, <4>1 DEF Once
    <3>2. ASSUME NEW j \in DOMAIN q, NEW k \in DOMAIN q, j # k, q[j] = q[k] PROVE q[j] \in t
      <4>1. CASE j \in DOMAIN p /\ k \in DOMAIN p
        BY <1>1, <1>2, <2>2, <3>2, <4>1 DEF Once
      <4>2. CASE j \notin DOMAIN p \/ k \notin DOMAIN p
        <5>1. q[j] = name
          BY <2>2, <2>6, <3>2, <4>2
        <5>2. PICK a \in DOMAIN p : p[a] = name
          BY <2>2, <2>6, <3>2, <5>1
        <5>3. name \in w
          BY <1>1, <5>2 DEF Waiting
        <5> QED BY <5>1, <5>3
      <4> QED BY <4>1, <4>2
    <3> HIDE DEF t
    <3> QED BY <2>3, <3>1, <3>2 DEF Once
  <2>9. Filter(e, v, t)
    <3> HIDE DEF v, t
    <3> QED BY <1>2, <2>3, <2>4, <2>5, <2>7, <2>8 DEF Filter
  <2> QED BY <2>1, <2>9 DEF e
<1>5. CASE KnownAs(d, name) = {} /\ ~ (Len(d.pending) < MAX_PENDING)
  <2>1. e = d /\ ~ CanSubscribe(d, name)
    BY <1>5 DEF subscribe, CanSubscribe
  <2>2. Once(d, t)
    <3> HIDE DEF t
    <3>1. \A j \in DOMAIN p : KnownAs(d, p[j]) # {} => p[j] \in t
      BY <1>1, <1>2 DEF Once
    <3>2. \A j, m \in DOMAIN p : p[j] = p[m] /\ j # m => p[j] \in t
      BY <1>1, <1>2 DEF Once
    <3> QED BY <3>1, <3>2 DEF Once
  <2>3. Filter(e, w, t)
    <3> HIDE DEF t, e
    <3> QED BY <1>1, <2>1, <2>2 DEF Filter
  <2> QED BY <2>1, <2>3 DEF e
<1> QED BY <1>3, <1>4, <1>5

\* The filter is exact before the file is opened.
LEMMA InitFilter == Init => Filter(dir, wanted, repeated)
<1> SUFFICES ASSUME Init PROVE Filter(dir, wanted, repeated)
  OBVIOUS
<1>1. dir = NewDirectory /\ wanted = {} /\ repeated = {}
  BY DEF Init, ReplayInit
<1>2. /\ dir \in Directories /\ dir.pending = << >> /\ dir.subscribed = {}
      /\ \A l \in Locates : dir.symbols[l] = Unknown
  BY <1>1 DEF NewDirectory, Directories
<1>3. FromFile(dir) /\ Flagged(dir, {}) /\ Waiting(dir, {}) /\ Once(dir, {})
  BY <1>2 DEF FromFile, Flagged, Waiting, Once
<1> QED BY <1>1, <1>2, <1>3 DEF Filter

\* The names of the file do not change with it.
LEMMA FilterFrame ==
  ASSUME NEW d, NEW w, NEW r, Filter(d, w, r), file' = file, dir' = d, wanted' = w, repeated' = r
  PROVE  Filter(dir, wanted, repeated)'
<1>1. FromFile(dir)'
  BY DEF Filter, FromFile, Named
<1>2. Flagged(dir, wanted)' /\ Waiting(dir, wanted)' /\ Once(dir, repeated)'
  BY DEF Filter, Flagged, Waiting, Once, KnownAs
<1> QED BY <1>1, <1>2 DEF Filter

\* Every step keeps the filter exact.
LEMMA NextFilter ==
  ASSUME Chosen, at \in Nat \ {0}, Filter(dir, wanted, repeated), [Next]_vars
  PROVE  Filter(dir, wanted, repeated)'
<1>1. file' = file
  BY DEF Next, vars, Replay, Serve, Stopped
<1>2. CASE UNCHANGED <<dir, wanted, repeated>>
  BY <1>1, <1>2, FilterFrame
<1>3. ASSUME NEW n \in Names, Subscribe(n) PROVE Filter(dir, wanted, repeated)'
  <2> DEFINE v == IF CanSubscribe(dir, n) THEN wanted \cup {n} ELSE wanted
             t == IF n \in wanted THEN repeated \cup {n} ELSE repeated
             e == subscribe(dir, n)
  <2>1. dir' = e /\ wanted' = v /\ repeated' = t
    BY <1>3 DEF Subscribe
  <2>2. Filter(e, v, t)
    BY SubscribeKeeps
  <2> HIDE DEF e, v, t
  <2> QED BY <1>1, <2>1, <2>2, FilterFrame
<1>4. CASE SubscribeAll
  <2> DEFINE e == subscribe_all(dir)
  <2>1. dir' = e /\ wanted' = wanted /\ repeated' = repeated
    BY <1>4 DEF SubscribeAll
  <2>2. /\ e \in Directories /\ e.symbols = dir.symbols /\ e.pending = dir.pending
        /\ e.subscribed = dir.subscribed
    BY DEF subscribe_all, Filter, Directories
  <2> HIDE DEF e
  <2>3. FromFile(e) /\ Flagged(e, wanted) /\ Waiting(e, wanted) /\ Once(e, repeated)
    BY <2>2 DEF Filter, FromFile, Flagged, Waiting, Once, KnownAs
  <2>4. Filter(e, wanted, repeated)
    BY <2>2, <2>3 DEF Filter
  <2> QED BY <1>1, <2>1, <2>4, FilterFrame
<1>5. CASE DirectoryMessage
  <2> DEFINE l == file[at].locate
             n == file[at].name
             e == feed(dir, l, n)
  <2>1. at \in 1 .. Len(file) /\ IsDirectory(file[at])
    BY <1>5 DEF DirectoryMessage, Turn, Complete, Chosen
  <2>2. l \in Locates /\ n \in STRING /\ Named(l, n)
    BY <2>1, FrameIs DEF Named, Frames
  <2>3. Filter(e, wanted, repeated)
    <3> HIDE DEF l, n
    <3> QED BY <2>2, FeedKeeps
  <2>4. dir' = e /\ wanted' = wanted /\ repeated' = repeated
    BY <1>5 DEF DirectoryMessage
  <2> HIDE DEF e
  <2> QED BY <1>1, <2>3, <2>4, FilterFrame
<1>6. ASSUME ~ DirectoryMessage, ~ SubscribeAll, ~ \E n \in Names : Subscribe(n)
      PROVE  UNCHANGED <<dir, wanted, repeated>>
  BY <1>6 DEF Next, vars, Replay, Serve, Stopped, replayVars, ReplayNext, open,
              FilteredMessage, ParserMessage, EndOfFile, ReplayStall
<1> QED BY <1>2, <1>3, <1>4, <1>5, <1>6

----------------------------------------------------------------------------
(* The counters of the replay *)

\* The values of ReplayStats and of the parser's counters.
Stats == [total : Nat, parsed : Nat, skipped : Nat, filtered : Nat, directory : Nat, bytes : Nat]

Counters == [parsed : Nat, ignored : Nat, malformed : Nat, unknown : Nat]

\* Nothing but the last message to reach the parser is at the limit or beyond.
AtTheLimit ==
  cfg.limit # 0 =>
    /\ state # "done" => \A n \in reached : n < cfg.limit
    /\ \A m, n \in reached : m >= cfg.limit /\ n >= cfg.limit => m = n

\* The inductive invariant of the counters.
Counting ==
  /\ stats \in Stats /\ counts \in Counters
  /\ calls \in Seq(Frames) /\ reached \in SUBSET Nat
  /\ at = stats.total + 1 /\ at <= Len(file) + 1
  /\ stats.total = stats.directory + stats.filtered + stats.parsed + stats.skipped
  /\ stats.skipped = counts.ignored + counts.malformed + counts.unknown
  /\ stats.parsed = counts.parsed /\ counts.parsed = Len(calls)
  /\ stats.bytes = Offset(at) /\ stats.bytes <= Size
  /\ AtTheLimit

\* Counting implies the property.
LEMMA CountingImplies ==
  ASSUME Chosen, Counting
  PROVE  EveryMessageCounted
<1> DEFINE S == {n \in reached : n >= cfg.limit}
<1>1. ASSUME cfg.limit # 0 PROVE Cardinality(S) <= 1
  <2>1. CASE S = {}
    BY <2>1, FS_EmptySet
  <2>2. CASE S # {}
    <3>1. PICK m \in S : TRUE
      BY <2>2
    <3>2. S = {m}
      BY <1>1, <3>1 DEF Counting, AtTheLimit
    <3>3. Cardinality({m}) = 1
      BY FS_Singleton
    <3> QED BY <3>2, <3>3
  <2> QED BY <2>1, <2>2
<1> QED BY <1>1 DEF Counting, EveryMessageCounted

\* Nothing is counted before the file is opened.
LEMMA InitCounting ==
  ASSUME Chosen, Init
  PROVE  Counting
<1>1. /\ stats = NoStats /\ counts = NoCounts /\ at = 1 /\ calls = << >> /\ reached = {}
      /\ Len(file) \in Nat
  BY DEF Init, ReplayInit, Chosen
<1>2. Offset(1) = 0 /\ Size \in Nat
  BY OffsetIs, SizeIs
<1> QED BY <1>1, <1>2 DEF NoStats, NoCounts, Counting, Stats, Counters, AtTheLimit

\* A turn of the loop reads a whole frame.
LEMMA TurnIs ==
  ASSUME Chosen, Counting, Turn
  PROVE  /\ at \in 1 .. Len(file) /\ file[at].len \in Nat
         /\ Offset(at) \in Nat /\ Size \in Nat
         /\ Offset(at + 1) = Offset(at) + 2 + file[at].len /\ Offset(at + 1) <= Size
<1>1. at \in 1 .. Len(file) /\ at \in 1 .. Len(file) + 1
  <2>1. stats.total \in Nat /\ Len(file) \in Nat /\ at = stats.total + 1
    BY DEF Counting, Stats, Chosen
  <2> QED BY <2>1 DEF Turn, Complete
<1>2. file[at].len \in Nat /\ Offset(at) \in Nat /\ Size \in Nat
  BY <1>1, FrameIs, OffsetIs, SizeIs
<1>3. Offset(at + 1) = Offset(at) + 2 + file[at].len
  BY <1>1, OffsetIs
<1>4. Offset(at) + 2 + file[at].len <= Size
  BY DEF Turn, Complete
<1> QED BY <1>1, <1>2, <1>3, <1>4

\* A record with these fields is one of Stats.
LEMMA StatsIs ==
  ASSUME NEW x,
         x = [total |-> x.total, parsed |-> x.parsed, skipped |-> x.skipped,
              filtered |-> x.filtered, directory |-> x.directory, bytes |-> x.bytes],
         x.total \in Nat, x.parsed \in Nat, x.skipped \in Nat, x.filtered \in Nat,
         x.directory \in Nat, x.bytes \in Nat
  PROVE  x \in Stats
BY DEF Stats

\* What each way out of the loop counts.
LEMMA Count_parsed ==
  ASSUME stats \in Stats, file[at].len \in Nat, stats' = Count("parsed")
  PROVE  /\ stats' \in Stats
         /\ stats'.total = stats.total + 1 /\ stats'.bytes = stats.bytes + 2 + file[at].len
         /\ stats'.parsed = stats.parsed + 1 /\ stats'.skipped = stats.skipped
         /\ stats'.filtered = stats.filtered /\ stats'.directory = stats.directory
<1>1. /\ stats'.total = stats.total + 1 /\ stats'.bytes = stats.bytes + 2 + file[at].len
      /\ stats'.parsed = stats.parsed + 1 /\ stats'.skipped = stats.skipped
      /\ stats'.filtered = stats.filtered /\ stats'.directory = stats.directory
  BY DEF Count, Stats
<1>2. /\ stats'.total \in Nat /\ stats'.parsed \in Nat /\ stats'.skipped \in Nat
      /\ stats'.filtered \in Nat
      /\ stats'.directory \in Nat /\ stats'.bytes \in Nat
  BY <1>1 DEF Stats
<1>3. stats' = [total |-> stats'.total, parsed |-> stats'.parsed, skipped |-> stats'.skipped,
           filtered |-> stats'.filtered, directory |-> stats'.directory, bytes |-> stats'.bytes]
  BY DEF Count, Stats
<1> QED BY <1>1, <1>2, <1>3, StatsIs

\* A message the parser refused.
LEMMA Count_skipped ==
  ASSUME stats \in Stats, file[at].len \in Nat, stats' = Count("skipped")
  PROVE  /\ stats' \in Stats
         /\ stats'.total = stats.total + 1 /\ stats'.bytes = stats.bytes + 2 + file[at].len
         /\ stats'.parsed = stats.parsed /\ stats'.skipped = stats.skipped + 1
         /\ stats'.filtered = stats.filtered /\ stats'.directory = stats.directory
<1>1. /\ stats'.total = stats.total + 1 /\ stats'.bytes = stats.bytes + 2 + file[at].len
      /\ stats'.parsed = stats.parsed /\ stats'.skipped = stats.skipped + 1
      /\ stats'.filtered = stats.filtered /\ stats'.directory = stats.directory
  BY DEF Count, Stats
<1>2. /\ stats'.total \in Nat /\ stats'.parsed \in Nat /\ stats'.skipped \in Nat
      /\ stats'.filtered \in Nat
      /\ stats'.directory \in Nat /\ stats'.bytes \in Nat
  BY <1>1 DEF Stats
<1>3. stats' = [total |-> stats'.total, parsed |-> stats'.parsed, skipped |-> stats'.skipped,
           filtered |-> stats'.filtered, directory |-> stats'.directory, bytes |-> stats'.bytes]
  BY DEF Count, Stats
<1> QED BY <1>1, <1>2, <1>3, StatsIs

\* A message not subscribed to.
LEMMA Count_filtered ==
  ASSUME stats \in Stats, file[at].len \in Nat, stats' = Count("filtered")
  PROVE  /\ stats' \in Stats
         /\ stats'.total = stats.total + 1 /\ stats'.bytes = stats.bytes + 2 + file[at].len
         /\ stats'.parsed = stats.parsed /\ stats'.skipped = stats.skipped
         /\ stats'.filtered = stats.filtered + 1 /\ stats'.directory = stats.directory
<1>1. /\ stats'.total = stats.total + 1 /\ stats'.bytes = stats.bytes + 2 + file[at].len
      /\ stats'.parsed = stats.parsed /\ stats'.skipped = stats.skipped
      /\ stats'.filtered = stats.filtered + 1 /\ stats'.directory = stats.directory
  BY DEF Count, Stats
<1>2. /\ stats'.total \in Nat /\ stats'.parsed \in Nat /\ stats'.skipped \in Nat
      /\ stats'.filtered \in Nat
      /\ stats'.directory \in Nat /\ stats'.bytes \in Nat
  BY <1>1 DEF Stats
<1>3. stats' = [total |-> stats'.total, parsed |-> stats'.parsed, skipped |-> stats'.skipped,
           filtered |-> stats'.filtered, directory |-> stats'.directory, bytes |-> stats'.bytes]
  BY DEF Count, Stats
<1> QED BY <1>1, <1>2, <1>3, StatsIs

\* An 'R' message.
LEMMA Count_directory ==
  ASSUME stats \in Stats, file[at].len \in Nat, stats' = Count("directory")
  PROVE  /\ stats' \in Stats
         /\ stats'.total = stats.total + 1 /\ stats'.bytes = stats.bytes + 2 + file[at].len
         /\ stats'.parsed = stats.parsed /\ stats'.skipped = stats.skipped
         /\ stats'.filtered = stats.filtered /\ stats'.directory = stats.directory + 1
<1>1. /\ stats'.total = stats.total + 1 /\ stats'.bytes = stats.bytes + 2 + file[at].len
      /\ stats'.parsed = stats.parsed /\ stats'.skipped = stats.skipped
      /\ stats'.filtered = stats.filtered /\ stats'.directory = stats.directory + 1
  BY DEF Count, Stats
<1>2. /\ stats'.total \in Nat /\ stats'.parsed \in Nat /\ stats'.skipped \in Nat
      /\ stats'.filtered \in Nat
      /\ stats'.directory \in Nat /\ stats'.bytes \in Nat
  BY <1>1 DEF Stats
<1>3. stats' = [total |-> stats'.total, parsed |-> stats'.parsed, skipped |-> stats'.skipped,
           filtered |-> stats'.filtered, directory |-> stats'.directory, bytes |-> stats'.bytes]
  BY DEF Count, Stats
<1> QED BY <1>1, <1>2, <1>3, StatsIs

\* And the parser's counter.
LEMMA VerdictCounts ==
  ASSUME counts \in Counters, counts' = [counts EXCEPT ![parse(file[at])] = @ + 1]
  PROVE  /\ parse(file[at]) = "parsed" =>
              /\ counts' \in Counters /\ counts'.parsed = counts.parsed + 1
              /\ counts'.ignored = counts.ignored
              /\ counts'.malformed = counts.malformed /\ counts'.unknown = counts.unknown
         /\ parse(file[at]) = "ignored" =>
              /\ counts' \in Counters /\ counts'.parsed = counts.parsed
              /\ counts'.ignored = counts.ignored + 1
              /\ counts'.malformed = counts.malformed /\ counts'.unknown = counts.unknown
         /\ parse(file[at]) = "malformed" =>
              /\ counts' \in Counters /\ counts'.parsed = counts.parsed
              /\ counts'.ignored = counts.ignored
              /\ counts'.malformed = counts.malformed + 1 /\ counts'.unknown = counts.unknown
         /\ parse(file[at]) = "unknown" =>
              /\ counts' \in Counters /\ counts'.parsed = counts.parsed
              /\ counts'.ignored = counts.ignored
              /\ counts'.malformed = counts.malformed /\ counts'.unknown = counts.unknown + 1
<1>1. ASSUME parse(file[at]) = "parsed"
      PROVE  /\ counts' \in Counters /\ counts'.parsed = counts.parsed + 1
             /\ counts'.ignored = counts.ignored
             /\ counts'.malformed = counts.malformed /\ counts'.unknown = counts.unknown
  BY <1>1 DEF Counters
<1>2. ASSUME parse(file[at]) = "ignored"
      PROVE  /\ counts' \in Counters /\ counts'.parsed = counts.parsed
             /\ counts'.ignored = counts.ignored + 1
             /\ counts'.malformed = counts.malformed /\ counts'.unknown = counts.unknown
  BY <1>2 DEF Counters
<1>3. ASSUME parse(file[at]) = "malformed"
      PROVE  /\ counts' \in Counters /\ counts'.parsed = counts.parsed
             /\ counts'.ignored = counts.ignored
             /\ counts'.malformed = counts.malformed + 1 /\ counts'.unknown = counts.unknown
  BY <1>3 DEF Counters
<1>4. ASSUME parse(file[at]) = "unknown"
      PROVE  /\ counts' \in Counters /\ counts'.parsed = counts.parsed
             /\ counts'.ignored = counts.ignored
             /\ counts'.malformed = counts.malformed /\ counts'.unknown = counts.unknown + 1
  BY <1>4 DEF Counters
<1> QED BY <1>1, <1>2, <1>3, <1>4

\* What the counters have in common after every turn of the loop.
LEMMA TurnCounts ==
  ASSUME Chosen, Counting, Turn, file' = file, cut' = cut, cfg' = cfg,
         stats' \in Stats, counts' \in Counters, calls' \in Seq(Frames),
         stats'.total = stats.total + 1, stats'.bytes = stats.bytes + 2 + file[at].len,
         stats'.total = stats'.directory + stats'.filtered + stats'.parsed + stats'.skipped,
         stats'.skipped = counts'.ignored + counts'.malformed + counts'.unknown,
         stats'.parsed = counts'.parsed, counts'.parsed = Len(calls'),
         reached' \in SUBSET Nat, AtTheLimit'
  PROVE  Counting'
<1>1. /\ at \in 1 .. Len(file) /\ Offset(at + 1) = Offset(at) + 2 + file[at].len
      /\ Offset(at + 1) <= Size
  BY TurnIs
<1>2. at' = at + 1 /\ at' = stats'.total + 1 /\ at' <= Len(file') + 1
  <2>1. stats.total \in Nat /\ at = stats.total + 1 /\ Len(file) \in Nat
    BY DEF Counting, Stats, Chosen
  <2> QED BY <1>1, <2>1 DEF Turn
<1>3. stats'.bytes = Offset(at + 1)
  BY <1>1 DEF Counting
<1>4. Offset(at)' = Offset(at + 1) /\ Size' = Size
  BY <1>2 DEF Offset, Size
<1> QED BY <1>1, <1>2, <1>3, <1>4 DEF Counting

\* A message that reaches the parser and the limit.
LEMMA ParserLimit ==
  ASSUME Chosen, Counting, ParserMessage, cfg' = cfg, stats'.total = stats.total + 1
  PROVE  AtTheLimit' /\ reached' \in SUBSET Nat
<1>1. /\ state = "open" /\ reached' = reached \cup {at}
      /\ state' = IF Limited(stats'.total) THEN "done" ELSE state
  BY DEF ParserMessage, Turn
<1>2. at = stats.total + 1 /\ at \in Nat /\ cfg.limit \in Nat
  <2>1. stats \in Stats /\ at = stats.total + 1
    BY DEF Counting
  <2>2. stats.total \in Nat
    BY <2>1 DEF Stats
  <2>3. cfg.limit \in Nat
    BY DEF Chosen
  <2> QED BY <2>1, <2>2, <2>3
<1>3. reached' \in SUBSET Nat
  BY <1>1, <1>2 DEF Counting
<1>4. ASSUME cfg'.limit # 0, state' # "done", NEW n \in reached' PROVE n < cfg'.limit
  <2>1. ~ (at >= cfg.limit)
    BY <1>1, <1>2, <1>4 DEF Limited
  <2>2. CASE n = at
    BY <1>2, <2>1, <2>2
  <2>3. CASE n \in reached
    BY <1>1, <1>4, <2>3 DEF Counting, AtTheLimit
  <2> QED BY <1>1, <1>4, <2>2, <2>3
<1>5. ASSUME cfg'.limit # 0, NEW m \in reached', NEW n \in reached',
             m >= cfg'.limit, n >= cfg'.limit
      PROVE  m = n
  <2>1. \A x \in reached : x \in Nat /\ x < cfg.limit
    BY <1>1, <1>5 DEF Counting, AtTheLimit
  <2>2. m \notin reached /\ n \notin reached
    BY <1>2, <1>5, <2>1
  <2> QED BY <1>1, <1>5, <2>2
<1> QED BY <1>3, <1>4, <1>5 DEF AtTheLimit

\* Every step keeps the counters right.
LEMMA NextCounting ==
  ASSUME Chosen, Counting, [Next]_vars
  PROVE  Counting'
<1>1. UNCHANGED <<file, cut, cfg>>
  BY DEF Next, vars, Replay, Serve, Stopped, replayVars, ReplayNext, Subscribe,
         SubscribeAll, open, DirectoryMessage, FilteredMessage, ParserMessage, EndOfFile,
         ReplayStall
<1>2. ASSUME UNCHANGED <<at, stats, counts, calls, reached>>,
             state' = "done" \/ state # "done" \/ UNCHANGED state
      PROVE  Counting'
  <2>1. AtTheLimit'
    BY <1>1, <1>2 DEF Counting, AtTheLimit
  <2>2. Offset(at)' = Offset(at) /\ Size' = Size
    BY <1>1, <1>2 DEF Offset, Size
  <2> QED BY <1>1, <1>2, <2>1, <2>2 DEF Counting
<1>3. /\ stats \in Stats /\ counts \in Counters /\ calls \in Seq(Frames)
      /\ stats.parsed = counts.parsed /\ counts.parsed = Len(calls)
  BY DEF Counting
<1>4. /\ stats.total \in Nat /\ stats.parsed \in Nat /\ stats.skipped \in Nat
      /\ stats.filtered \in Nat /\ stats.directory \in Nat
      /\ stats.total = stats.directory + stats.filtered + stats.parsed + stats.skipped
  BY DEF Counting, Stats
<1>5. /\ counts.ignored \in Nat /\ counts.malformed \in Nat /\ counts.unknown \in Nat
       /\ stats.skipped = counts.ignored + counts.malformed + counts.unknown
  BY DEF Counting, Counters
<1>6. ASSUME Turn PROVE file[at].len \in Nat /\ file[at] \in Frames
  <2>1. at \in 1 .. Len(file) /\ file[at].len \in Nat
    BY <1>6, TurnIs
  <2> QED BY <2>1, FrameIs
<1>7. CASE DirectoryMessage
  <2>1. /\ Turn /\ stats' = Count("directory")
        /\ UNCHANGED <<cfg, state, counts, calls, reached>>
    BY <1>7 DEF DirectoryMessage
  <2>2. /\ stats' \in Stats /\ stats'.total = stats.total + 1
        /\ stats'.bytes = stats.bytes + 2 + file[at].len
        /\ stats'.parsed = stats.parsed /\ stats'.skipped = stats.skipped
        /\ stats'.filtered = stats.filtered /\ stats'.directory = stats.directory + 1
    BY <1>3, <1>6, <2>1, Count_directory
  <2>3. AtTheLimit' /\ reached' \in SUBSET Nat
    BY <2>1 DEF Counting, AtTheLimit
  <2>4. /\ stats'.total = stats'.directory + stats'.filtered + stats'.parsed + stats'.skipped
        /\ stats'.skipped = counts'.ignored + counts'.malformed + counts'.unknown
        /\ stats'.parsed = counts'.parsed /\ counts'.parsed = Len(calls')
        /\ counts' \in Counters /\ calls' \in Seq(Frames)
    <3>1. stats'.total = stats'.directory + stats'.filtered + stats'.parsed + stats'.skipped
      BY <1>4, <2>2
    <3>2. stats'.skipped = counts'.ignored + counts'.malformed + counts'.unknown
      BY <1>5, <2>1, <2>2
    <3>3. /\ stats'.parsed = counts'.parsed /\ counts'.parsed = Len(calls')
          /\ counts' \in Counters /\ calls' \in Seq(Frames)
      BY <1>3, <2>1, <2>2
    <3> QED BY <3>1, <3>2, <3>3
  <2> QED BY <1>1, <2>1, <2>2, <2>3, <2>4, TurnCounts
<1>8. CASE FilteredMessage
  <2>1. /\ Turn /\ stats' = Count("filtered")
        /\ UNCHANGED <<cfg, state, counts, calls, reached>>
    BY <1>8 DEF FilteredMessage
  <2>2. /\ stats' \in Stats /\ stats'.total = stats.total + 1
        /\ stats'.bytes = stats.bytes + 2 + file[at].len
        /\ stats'.parsed = stats.parsed /\ stats'.skipped = stats.skipped
        /\ stats'.filtered = stats.filtered + 1 /\ stats'.directory = stats.directory
    BY <1>3, <1>6, <2>1, Count_filtered
  <2>3. AtTheLimit' /\ reached' \in SUBSET Nat
    BY <2>1 DEF Counting, AtTheLimit
  <2>4. /\ stats'.total = stats'.directory + stats'.filtered + stats'.parsed + stats'.skipped
        /\ stats'.skipped = counts'.ignored + counts'.malformed + counts'.unknown
        /\ stats'.parsed = counts'.parsed /\ counts'.parsed = Len(calls')
        /\ counts' \in Counters /\ calls' \in Seq(Frames)
    <3>1. stats'.total = stats'.directory + stats'.filtered + stats'.parsed + stats'.skipped
      BY <1>4, <2>2
    <3>2. stats'.skipped = counts'.ignored + counts'.malformed + counts'.unknown
      BY <1>5, <2>1, <2>2
    <3>3. /\ stats'.parsed = counts'.parsed /\ counts'.parsed = Len(calls')
          /\ counts' \in Counters /\ calls' \in Seq(Frames)
      BY <1>3, <2>1, <2>2
    <3> QED BY <3>1, <3>2, <3>3
  <2> QED BY <1>1, <2>1, <2>2, <2>3, <2>4, TurnCounts
<1>9. CASE ParserMessage
  <2>1. Turn /\ counts' = [counts EXCEPT ![parse(file[at])] = @ + 1]
    BY <1>9 DEF ParserMessage
  <2>2. CASE parse(file[at]) = "parsed"
    <3>1. stats' = Count("parsed") /\ calls' = Append(calls, file[at])
      BY <1>9, <2>2 DEF ParserMessage
    <3>2. /\ stats' \in Stats /\ stats'.total = stats.total + 1
          /\ stats'.bytes = stats.bytes + 2 + file[at].len
          /\ stats'.parsed = stats.parsed + 1 /\ stats'.skipped = stats.skipped
          /\ stats'.filtered = stats.filtered /\ stats'.directory = stats.directory
      BY <1>3, <1>6, <2>1, <3>1, Count_parsed
    <3>3. /\ counts' \in Counters
          /\ counts'.parsed = counts.parsed + 1 /\ counts'.ignored = counts.ignored
          /\ counts'.malformed = counts.malformed /\ counts'.unknown = counts.unknown
      BY <1>3, <2>1, <2>2, VerdictCounts
    <3>4. calls' \in Seq(Frames) /\ Len(calls') = Len(calls) + 1
      BY <1>3, <1>6, <2>1, <3>1
    <3>5. AtTheLimit' /\ reached' \in SUBSET Nat
      BY <1>1, <1>9, <3>2, ParserLimit
    <3>6. /\ stats'.total = stats'.directory + stats'.filtered + stats'.parsed + stats'.skipped
          /\ stats'.skipped = counts'.ignored + counts'.malformed + counts'.unknown
          /\ stats'.parsed = counts'.parsed /\ counts'.parsed = Len(calls')
      <4>1. stats'.total = stats'.directory + stats'.filtered + stats'.parsed + stats'.skipped
        BY <1>4, <3>2
      <4>2. stats'.skipped = counts'.ignored + counts'.malformed + counts'.unknown
        BY <1>5, <3>2, <3>3
      <4>3. stats'.parsed = counts'.parsed /\ counts'.parsed = Len(calls')
        BY <1>3, <3>2, <3>3, <3>4
      <4> QED BY <4>1, <4>2, <4>3
    <3> QED BY <1>1, <2>1, <3>2, <3>3, <3>4, <3>5, <3>6, TurnCounts
  <2>3. CASE parse(file[at]) # "parsed"
    <3>1. stats' = Count("skipped") /\ calls' = calls
      BY <1>9, <2>3 DEF ParserMessage
    <3>2. /\ stats' \in Stats /\ stats'.total = stats.total + 1
          /\ stats'.bytes = stats.bytes + 2 + file[at].len
          /\ stats'.parsed = stats.parsed /\ stats'.skipped = stats.skipped + 1
          /\ stats'.filtered = stats.filtered /\ stats'.directory = stats.directory
      BY <1>3, <1>6, <2>1, <3>1, Count_skipped
    <3>3. parse(file[at]) \in {"ignored", "malformed", "unknown"}
      BY <2>3 DEF parse
    <3>4. /\ counts' \in Counters /\ counts'.parsed = counts.parsed
          /\ counts'.ignored + counts'.malformed + counts'.unknown = stats.skipped + 1
      <4>1. CASE parse(file[at]) = "ignored"
        <5>1. /\ counts' \in Counters
              /\ counts'.parsed = counts.parsed /\ counts'.ignored = counts.ignored + 1
              /\ counts'.malformed = counts.malformed /\ counts'.unknown = counts.unknown
          BY <1>3, <2>1, <4>1, VerdictCounts
        <5> QED BY <1>5, <5>1
      <4>2. CASE parse(file[at]) = "malformed"
        <5>1. /\ counts' \in Counters
              /\ counts'.parsed = counts.parsed /\ counts'.ignored = counts.ignored
              /\ counts'.malformed = counts.malformed + 1 /\ counts'.unknown = counts.unknown
          BY <1>3, <2>1, <4>2, VerdictCounts
        <5> QED BY <1>5, <5>1
      <4>3. CASE parse(file[at]) = "unknown"
        <5>1. /\ counts' \in Counters
              /\ counts'.parsed = counts.parsed /\ counts'.ignored = counts.ignored
              /\ counts'.malformed = counts.malformed /\ counts'.unknown = counts.unknown + 1
          BY <1>3, <2>1, <4>3, VerdictCounts
        <5> QED BY <1>5, <5>1
      <4> QED BY <3>3, <4>1, <4>2, <4>3
    <3>5. AtTheLimit' /\ reached' \in SUBSET Nat
      BY <1>1, <1>9, <3>2, ParserLimit
    <3>6. /\ stats'.total = stats'.directory + stats'.filtered + stats'.parsed + stats'.skipped
          /\ stats'.skipped = counts'.ignored + counts'.malformed + counts'.unknown
          /\ stats'.parsed = counts'.parsed /\ counts'.parsed = Len(calls')
      <4>1. stats'.total = stats'.directory + stats'.filtered + stats'.parsed + stats'.skipped
        BY <1>4, <3>2
      <4>2. stats'.skipped = counts'.ignored + counts'.malformed + counts'.unknown
        BY <3>2, <3>4
      <4>3. stats'.parsed = counts'.parsed /\ counts'.parsed = Len(calls')
        BY <1>3, <3>1, <3>2, <3>4
      <4> QED BY <4>1, <4>2, <4>3
    <3>7. calls' \in Seq(Frames)
      BY <1>3, <3>1
    <3> QED BY <1>1, <2>1, <3>2, <3>4, <3>5, <3>6, <3>7, TurnCounts
  <2> QED BY <2>2, <2>3
<1>10. ASSUME ~ DirectoryMessage, ~ FilteredMessage, ~ ParserMessage
      PROVE  /\ UNCHANGED <<at, stats, counts, calls, reached>>
             /\ state' = "done" \/ state # "done" \/ UNCHANGED state
  BY <1>10 DEF Next, vars, Replay, Serve, Stopped, replayVars, loopVars, ReplayNext, open,
              Subscribe, SubscribeAll, EndOfFile, ReplayStall
<1> QED BY <1>2, <1>7, <1>8, <1>9, <1>10

\* The replay's state: the file, the counters and the filter together.
Replayed == Chosen /\ Counting /\ Filter(dir, wanted, repeated)

\* Before the replay nothing is counted and nothing subscribed to.
LEMMA InitReplayed == Init => Replayed
BY InitChosen, InitCounting, InitFilter DEF Replayed

\* Every step keeps what is known of the replay.
LEMMA NextReplayed == Replayed /\ [Next]_vars => Replayed'
<1> SUFFICES ASSUME Replayed, [Next]_vars PROVE Replayed'
  OBVIOUS
<1>1. at \in Nat \ {0}
  <2>1. stats \in Stats /\ at = stats.total + 1
    BY DEF Replayed, Counting
  <2>2. stats.total \in Nat
    BY <2>1 DEF Stats
  <2> QED BY <2>1, <2>2
<1> QED BY <1>1, NextChosen, NextCounting, NextFilter DEF Replayed

\* For every file, limit and order of subscriptions, the counters and the
\* filter of replay_all are as Counting and Filter say.
THEOREM ReplayInvariant == Spec => []Replayed
BY InitReplayed, NextReplayed, PTL DEF Spec

\* Whichever way a message leaves the loop, it is counted once and under one
\* heading, with its bytes, and the limit lets at most one more reach the
\* parser (replay_all).
THEOREM CountedOnce == Spec => []EveryMessageCounted
<1>1. Replayed => EveryMessageCounted
  BY CountingImplies DEF Replayed
<1> QED BY <1>1, ReplayInvariant, PTL

\* In whatever order subscriptions and 'R' messages come, the filter lets
\* through exactly the locates of the names asked for, and a name waits no
\* longer than until its 'R' message (SymbolDirectory).
THEOREM FilterHolds == Spec => []FilterIsExact
<1>1. ASSUME Replayed PROVE FilterIsExact
  <2>1. /\ \A l \in Locates : l \in dir.subscribed
             <=> dir.symbols[l] # Unknown /\ dir.symbols[l] \in wanted
        /\ \A i \in DOMAIN dir.pending :
             KnownAs(dir, dir.pending[i]) # {} => dir.pending[i] \in repeated
    BY <1>1 DEF Replayed, Filter, Flagged, Once
  <2>2. dir.all \in BOOLEAN
    BY <1>1 DEF Replayed, Filter, Directories
  <2> QED BY <2>1, <2>2 DEF FilterIsExact, is_subscribed
<1> QED BY <1>1, ReplayInvariant, PTL
----------------------------------------------------------------------------
(* The server is a MoldServer *)

\* The loop reads message i.
Readable(i) == Complete(i) /\ file[i].len <= MAX_MSG_SIZE

\* The loop reads the first MessageCount messages and stops at the next.
LEMMA MessageCountIs ==
  ASSUME Chosen
  PROVE  /\ MessageCount \in 0 .. Len(file)
         /\ \A i \in 1 .. MessageCount : Readable(i)
         /\ MessageCount < Len(file) => ~ Readable(MessageCount + 1)
<1> DEFINE N == Len(file)
           T == {n \in 0 .. N : n = N \/ ~ Readable(n + 1)}
<1>1. N \in Nat
  BY DEF Chosen
<1>2. T \in SUBSET Nat /\ N \in T
  BY <1>1
<1>3. PICK n \in T : \A m \in T : n <= m
  <2> HIDE DEF T
  <2> QED BY <1>2, LeastNatural
<1>4. ASSUME NEW i \in 1 .. n PROVE Readable(i)
  <2>1. i - 1 \in 0 .. N /\ ~ (n <= i - 1) /\ i - 1 # N /\ i - 1 + 1 = i
    BY <1>1, <1>3
  <2>2. i - 1 \notin T
    <3> HIDE DEF T
    <3> QED BY <1>3, <2>1
  <2> QED BY <2>1, <2>2
<1>5. n \in 0 .. N /\ (n < N => ~ Readable(n + 1))
  BY <1>1, <1>3
<1>6. MessageCount = CHOOSE m \in 0 .. N : /\ \A k \in 1 .. m : Readable(k)
                                           /\ m < N => ~ Readable(m + 1)
  BY DEF MessageCount, Readable
<1> HIDE DEF T
<1> QED BY <1>4, <1>5, <1>6

\* The types of the server's state, and how far it has read.
Serving ==
  /\ turn \in {"pace", "send", "done", "fault"}
  /\ next_msg \in Nat \ {0} /\ next_msg <= MessageCount + 1
  /\ turn = "send" => next_msg <= MessageCount
  /\ turn # "done" => sent_all = FALSE
  /\ packet \in Seq(Nat) /\ \A i \in DOMAIN packet : packet[i] \in 1 .. next_msg - 1
  /\ clock \in Nat /\ first_ts \in Nat \cup {None}
  /\ buffered \in Seq(Nat) /\ Len(buffered) = next_msg - 1

\* The end of what the loop reads, seen from where it is.
LEMMA ReadsIs ==
  ASSUME Chosen, Serving
  PROVE  /\ Reads <=> next_msg <= MessageCount
         /\ MessageCount \in Nat
         /\ next_msg <= MessageCount =>
              /\ Msg.len \in Nat /\ Msg.len <= MAX_MSG_SIZE /\ next_msg \in 1 .. Len(file)
<1>1. /\ MessageCount \in 0 .. Len(file) /\ Len(file) \in Nat
      /\ \A i \in 1 .. MessageCount : Readable(i)
      /\ MessageCount < Len(file) => ~ Readable(MessageCount + 1)
  BY MessageCountIs DEF Chosen
<1>2. next_msg \in Nat \ {0} /\ next_msg <= MessageCount + 1
  BY DEF Serving
<1>3. Reads <=> next_msg <= Len(file) /\ Readable(next_msg)
  BY DEF Reads, Readable, Msg
<1>4. ASSUME next_msg <= MessageCount PROVE next_msg \in 1 .. Len(file) /\ Readable(next_msg)
  BY <1>1, <1>2, <1>4
<1>5. ASSUME ~ (next_msg <= MessageCount) PROVE ~ Reads
  <2>1. next_msg = MessageCount + 1
    BY <1>1, <1>2, <1>5
  <2> QED BY <1>1, <1>3, <2>1
<1>6. ASSUME next_msg <= MessageCount PROVE Msg.len \in Nat /\ Msg.len <= MAX_MSG_SIZE
  BY <1>4, <1>6, FrameIs DEF Readable, Msg
<1> QED BY <1>1, <1>3, <1>4, <1>5, <1>6

\* What the loop reads does not change with the file.
LEMMA SameCount ==
  ASSUME file' = file, cut' = cut
  PROVE  MessageCount' = MessageCount
BY DEF MessageCount, Complete, Size, Offset

\* A datagram of n messages has at least 2 n bytes of payload; an empty one none.
LEMMA PayloadIs ==
  ASSUME Chosen, Serving
  PROVE  Payload \in Nat /\ Payload >= Len(packet) /\ (packet = << >> => Payload = 0)
<1> DEFINE N == Len(packet)
           c == [i \in 1 .. N |-> 2 + file[packet[i]].len]
           Body(u) == [i \in 0 .. N |-> IF i = 0 THEN 0 ELSE u[i - 1] + 2 + file[packet[i]].len]
           used == CHOOSE u : u = Body(u)
<1>1. N \in Nat /\ \A i \in 1 .. N : file[packet[i]].len \in Nat
  <2>1. N \in Nat /\ MessageCount \in 0 .. Len(file) /\ Len(file) \in Nat
    BY MessageCountIs DEF Serving, Chosen
  <2>2. ASSUME NEW i \in 1 .. N PROVE packet[i] \in 1 .. Len(file)
    BY <2>1 DEF Serving
  <2> QED BY <2>1, <2>2, FrameIs
<1>2. c \in [1 .. N -> Nat]
  BY <1>1
<1>3. PICK f : Sums(f, c, N)
  <2> HIDE DEF c, N
  <2> QED BY <1>1, <1>2, SumsExist
<1>4. f = Body(f)
  <2>1. f \in [0 .. N -> Nat]
    BY <1>3 DEF Sums
  <2>2. ASSUME NEW i \in 0 .. N PROVE f[i] = Body(f)[i]
    <3>1. CASE i = 0
      BY <1>3, <3>1 DEF Sums
    <3>2. CASE i # 0
      <4>1. i \in 1 .. N /\ i - 1 \in 0 .. N
        BY <1>1, <3>2
      <4>2. f[i] = f[i - 1] + c[i] /\ f[i - 1] \in Nat
        BY <1>3, <4>1 DEF Sums
      <4>3. c[i] = 2 + file[packet[i]].len /\ file[packet[i]].len \in Nat
        BY <1>1, <4>1
      <4>4. Body(f)[i] = f[i - 1] + 2 + file[packet[i]].len
        BY <3>2
      <4>5. f[i] = f[i - 1] + 2 + file[packet[i]].len
        <5> DEFINE x == file[packet[i]].len
                   y == f[i - 1]
                   z == c[i]
        <5>1. f[i] = y + z /\ y \in Nat /\ z = 2 + x /\ x \in Nat
          BY <4>2, <4>3
        <5> HIDE DEF x, y, z
        <5>2. f[i] = y + 2 + x
          BY <5>1
        <5> QED BY <5>2 DEF x, y
      <4> HIDE DEF Body, c
      <4> QED BY <4>4, <4>5
    <3> QED BY <3>1, <3>2
  <2> QED BY <2>1, <2>2
<1>5. used = Body(used)
  <2> HIDE DEF Body
  <2> QED BY <1>4
<1>6. Payload = used[N]
  BY DEF Payload
<1> HIDE DEF used
<1>7. \A i \in 0 .. N : used[i] = IF i = 0 THEN 0 ELSE used[i - 1] + 2 + file[packet[i]].len
  BY <1>5
<1>8. \A i \in 0 .. N : used[i] \in Nat /\ used[i] >= i
  <2> DEFINE T == {n \in 0 .. N : ~ (used[n] \in Nat /\ used[n] >= n)}
  <2>1. T \in SUBSET Nat
    BY <1>1
  <2>2. SUFFICES ASSUME T # {} PROVE FALSE
    OBVIOUS
  <2>3. PICK n \in T : \A m \in T : n <= m
    <3> HIDE DEF T
    <3> QED BY <2>1, <2>2, LeastNatural
  <2>4. n # 0
    BY <1>1, <1>7, <2>3
  <2>5. n \in 1 .. N /\ n - 1 \in 0 .. N /\ n - 1 \notin T
    BY <1>1, <2>3, <2>4
  <2>6. /\ used[n - 1] \in Nat /\ used[n - 1] >= n - 1
        /\ used[n] = used[n - 1] + 2 + file[packet[n]].len
        /\ file[packet[n]].len \in Nat
    BY <1>1, <1>7, <2>4, <2>5
  <2>7. used[n] \in Nat /\ used[n] >= n
    BY <2>5, <2>6
  <2> QED BY <2>3, <2>7
<1>9. used[N] \in Nat /\ used[N] >= N /\ (N = 0 => used[N] = 0)
  BY <1>1, <1>7, <1>8
<1> QED BY <1>6, <1>9

\* A message that was read always fits into an empty datagram, and one that
\* fits finds a datagram of fewer than MAX_PAYLOAD messages.
LEMMA FitsIs ==
  ASSUME Chosen, Serving, turn = "send"
  PROVE  (Fits => Len(packet) < MAX_PAYLOAD) /\ (~ Fits => packet # << >>)
<1>1. Msg.len \in Nat /\ Msg.len <= MAX_MSG_SIZE
  BY ReadsIs DEF Serving
<1>2. Payload \in Nat /\ Payload >= Len(packet) /\ (packet = << >> => Payload = 0)
  BY PayloadIs
<1>3. Len(packet) \in Nat
  BY DEF Serving
<1> QED BY <1>1, <1>2, <1>3, SizeAssumption DEF Fits

\* The server is at the first message when the replay begins.
LEMMA InitServing ==
  ASSUME Chosen, Init
  PROVE  Serving
<1>1. MessageCount \in Nat
  BY MessageCountIs DEF Chosen
<1> QED BY <1>1 DEF Init, ServerInit, Serving

\* A message after another one has entered a datagram, or been dropped.
LEMMA NextMessage ==
  ASSUME Chosen, Serving, turn = "send", file' = file, cut' = cut,
         next_msg' = next_msg + 1, turn' = "pace", UNCHANGED <<sent_all, clock, first_ts>>,
         buffered' = Append(buffered, clock),
         packet' \in {Append(packet, next_msg), <<next_msg>>, << >>}
  PROVE  Serving'
<1>1. MessageCount' = MessageCount /\ MessageCount \in Nat
  BY SameCount, MessageCountIs DEF Chosen
<1>2. /\ next_msg \in Nat \ {0} /\ next_msg <= MessageCount /\ clock \in Nat
      /\ packet \in Seq(Nat) /\ \A i \in DOMAIN packet : packet[i] \in 1 .. next_msg - 1
      /\ buffered \in Seq(Nat) /\ Len(buffered) = next_msg - 1
  BY DEF Serving
<1>3. packet' \in Seq(Nat) /\ \A i \in DOMAIN packet' : packet'[i] \in 1 .. next_msg
  <2>1. CASE packet' = Append(packet, next_msg)
    BY <1>2, <2>1
  <2>2. CASE packet' = <<next_msg>>
    BY <1>2, <2>2
  <2>3. CASE packet' = << >>
    BY <2>3
  <2> QED BY <2>1, <2>2, <2>3
<1>4. \A i \in DOMAIN packet' : packet'[i] \in 1 .. next_msg' - 1
  BY <1>2, <1>3
<1>5. buffered' \in Seq(Nat) /\ Len(buffered') = next_msg' - 1
  BY <1>2
<1>6. next_msg' \in Nat \ {0} /\ next_msg' <= MessageCount' + 1
  BY <1>1, <1>2
<1> QED BY <1>3, <1>4, <1>5, <1>6 DEF Serving

\* A step in which no message is taken up, and the datagram stays or leaves.
LEMMA SameMessage ==
  ASSUME Chosen, Serving, file' = file, cut' = cut, UNCHANGED <<next_msg, buffered>>,
         turn' \in {"pace", "send", "done", "fault"},
         turn' = "send" => next_msg <= MessageCount,
         turn' # "done" => sent_all' = FALSE,
         packet' \in {packet, << >>}, clock' \in Nat, first_ts' \in Nat \cup {None}
  PROVE  Serving'
<1>1. MessageCount' = MessageCount
  BY SameCount
<1>2. packet' \in Seq(Nat) /\ \A i \in DOMAIN packet' : packet'[i] \in 1 .. next_msg - 1
  <2>1. CASE packet' = packet
    BY <2>1 DEF Serving
  <2>2. CASE packet' = << >>
    BY <2>2
  <2> QED BY <2>1, <2>2
<1> QED BY <1>1, <1>2 DEF Serving

\* How long the code sleeps.
LEMMA SleepIs ==
  ASSUME Chosen, Serving, Reads
  PROVE  /\ Msg.ts \in Nat /\ 2 * Msg.ts < Word
         /\ FirstTs \in Nat \cup {None} /\ (Paced => FirstTs \in Nat)
         /\ wall_elapsed \in Nat
         /\ Paced => file_elapsed \in Nat
         /\ Ahead /\ Divisor > 0 => Divisor \in Nat \ {0} /\ sleep_ns \in Nat
<1>1. next_msg \in 1 .. Len(file)
  BY ReadsIs
<1>2. Msg.ts \in Nat /\ 2 * Msg.ts < Word
  BY <1>1, FrameIs DEF Chosen, Msg
<1>3. first_ts \in Nat \cup {None} /\ clock \in Nat
  BY DEF Serving
<1>4. FirstTs \in Nat \cup {None} /\ (Paced => FirstTs \in Nat)
  BY <1>2, <1>3 DEF FirstTs
<1>5. speed.num \in Nat /\ speed.den \in Nat \ {0}
  BY DEF Chosen
<1>6. wall_elapsed \in Nat /\ Divisor \in Nat
  BY <1>3, <1>5 DEF wall_elapsed, Divisor
<1>7. ASSUME Paced PROVE file_elapsed \in Nat
  BY <1>2, <1>4, <1>7, ClockAssumption DEF file_elapsed
<1>8. ASSUME Ahead, Divisor > 0 PROVE Divisor \in Nat \ {0} /\ sleep_ns \in Nat
  <2>1. file_elapsed \in Nat /\ file_elapsed > wall_elapsed
    BY <1>7, <1>8 DEF Ahead
  <2> QED BY <1>6, <1>8, <2>1 DEF sleep_ns
<1> QED BY <1>2, <1>4, <1>6, <1>7, <1>8

\* Every step of the server keeps its state in type.
LEMMA NextServing ==
  ASSUME Chosen, Serving, [Next]_vars
  PROVE  Serving'
<1>1. file' = file /\ cut' = cut
  BY DEF Next, vars, Replay, Serve, Stopped
<1>2. first_ts \in Nat \cup {None} /\ clock \in Nat /\ (turn # "done" => sent_all = FALSE)
  BY DEF Serving
<1>3. CASE UNCHANGED serverVars
  BY <1>1, <1>3, SameCount DEF serverVars, Serving
<1>4. CASE NoWait
  <2>1. FirstTs \in Nat \cup {None} /\ next_msg <= MessageCount
    BY <1>4, SleepIs, ReadsIs DEF NoWait
  <2> QED BY <1>1, <1>2, <1>4, <2>1, SameMessage DEF NoWait
<1>5. CASE DivideFault
  <2>1. FirstTs \in Nat \cup {None}
    BY <1>5, SleepIs DEF DivideFault
  <2> QED BY <1>1, <1>2, <1>5, <2>1, SameMessage DEF DivideFault
<1>6. ASSUME NEW ok \in Outcomes, Wait(ok) PROVE Serving'
  <2>1. FirstTs \in Nat \cup {None} /\ next_msg <= MessageCount /\ sleep_ns \in Nat
    BY <1>6, SleepIs, ReadsIs DEF Wait
  <2>2. clock' \in Nat
    BY <1>2, <1>6, <2>1 DEF Wait, Slept
  <2> QED BY <1>1, <1>2, <1>6, <2>1, <2>2, SameMessage DEF Wait
<1>7. CASE Send
  BY <1>1, <1>7, NextMessage DEF Send
<1>8. ASSUME NEW ok \in Outcomes, SendAfterFlush(ok) PROVE Serving'
  BY <1>1, <1>8, NextMessage DEF SendAfterFlush
<1>9. ASSUME NEW ok \in Outcomes, EndOfReplay(ok) PROVE Serving'
  BY <1>1, <1>2, <1>9, SameMessage DEF EndOfReplay
<1>10. CASE ServerStall
  <2>1. turn = "send" => next_msg <= MessageCount
    BY DEF Serving
  <2>2. /\ UNCHANGED <<turn, next_msg, packet, sent_all, first_ts, buffered>>
        /\ clock' \in Nat /\ turn' \in {"pace", "send", "done", "fault"}
    BY <1>2, <1>10 DEF ServerStall
  <2> QED BY <1>1, <1>2, <2>1, <2>2, SameMessage
<1> QED BY <1>3, <1>4, <1>5, <1>6, <1>7, <1>8, <1>9, <1>10
        DEF Next, vars, Replay, Serve, Stopped, ServerNext

\* Every step of the server by bytes and timestamps is a step of MoldServer,
\* or none.
LEMMA ServerStep ==
  ASSUME Chosen, Serving, [Next]_vars
  PROVE  [Mold!Next /\ UNCHANGED MessageCount]_(Mold!vars)
<1>1. MessageCount' = MessageCount
  <2>1. file' = file /\ cut' = cut
    BY DEF Next, vars, Replay, Serve, Stopped
  <2> QED BY <2>1, SameCount
<1>2. ASSUME UNCHANGED <<next_msg, packet, next_seq, sent_all, net>>
      PROVE  [Mold!Next /\ UNCHANGED MessageCount]_(Mold!vars)
  BY <1>1, <1>2 DEF Mold!vars
<1>3. CASE Send
  <2>1. next_msg <= MessageCount /\ Len(packet) < MAX_PAYLOAD
    BY <1>3, FitsIs DEF Send, Serving
  <2>2. Mold!SendMessage
    BY <1>3, <2>1 DEF Send, Mold!SendMessage
  <2> QED BY <1>1, <2>2 DEF Mold!Next
<1>4. ASSUME NEW ok \in Outcomes, SendAfterFlush(ok)
      PROVE  [Mold!Next /\ UNCHANGED MessageCount]_(Mold!vars)
  <2>1. next_msg <= MessageCount /\ packet # << >>
    BY <1>4, FitsIs DEF SendAfterFlush, Serving
  <2>2. Mold!SendMessageFull(ok) /\ ok \in Mold!Outcomes
    BY <1>4, <2>1 DEF SendAfterFlush, Mold!SendMessageFull, Mold!flush, Mold!Datagram, Flushed,
                      Outcomes, Mold!Outcomes
  <2> QED BY <1>1, <2>2 DEF Mold!Next
<1>5. ASSUME NEW ok \in Outcomes, Wait(ok)
      PROVE  [Mold!Next /\ UNCHANGED MessageCount]_(Mold!vars)
  <2>1. next_msg <= MessageCount
    BY <1>5, ReadsIs DEF Wait
  <2>2. CASE ~ Flushes(sleep_ns)
    BY <1>2, <1>5, <2>2 DEF Wait
  <2>3. CASE Flushes(sleep_ns) /\ packet = << >>
    BY <1>2, <1>5, <2>3 DEF Wait, Flushed
  <2>4. CASE Flushes(sleep_ns) /\ packet # << >>
    <3>1. Mold!PaceFlush(ok) /\ ok \in Mold!Outcomes
      BY <1>5, <2>1, <2>4 DEF Wait, Mold!PaceFlush, Mold!flush, Mold!Datagram, Flushed,
                              Outcomes, Mold!Outcomes
    <3> QED BY <1>1, <3>1 DEF Mold!Next
  <2> QED BY <2>2, <2>3, <2>4
<1>6. ASSUME NEW ok \in Outcomes, EndOfReplay(ok)
      PROVE  [Mold!Next /\ UNCHANGED MessageCount]_(Mold!vars)
  <2>1. next_msg > MessageCount /\ ~ sent_all
    <3>1. /\ ~ (next_msg <= MessageCount) /\ next_msg \in Nat /\ MessageCount \in Nat
          /\ sent_all = FALSE
      BY <1>6, ReadsIs DEF EndOfReplay, Serving
    <3> QED BY <3>1
  <2>2. Mold!Finish(ok) /\ ok \in Mold!Outcomes
    BY <1>6, <2>1 DEF EndOfReplay, Mold!Finish, Mold!flush, Mold!Datagram, Flushed,
                      Outcomes, Mold!Outcomes
  <2> QED BY <1>1, <2>2 DEF Mold!Next
<1>7. CASE NoWait \/ DivideFault \/ ServerStall \/ UNCHANGED serverVars
  BY <1>2, <1>7 DEF NoWait, DivideFault, ServerStall, serverVars
<1> QED BY <1>3, <1>4, <1>5, <1>6, <1>7 DEF Next, vars, Replay, Serve, Stopped, ServerNext

\* The server's state and the file it reads.
Served == Chosen /\ Serving

\* The server's loop keeps its place in the file, for every file and speed.
THEOREM ServerInvariant == Spec => []Served
<1>1. Init => Served
  BY InitChosen, InitServing DEF Served
<1>2. Served /\ [Next]_vars => Served'
  BY NextChosen, NextServing DEF Served
<1> QED BY <1>1, <1>2, PTL DEF Spec

\* Reading, pacing and filling datagrams by their bytes, replay_file is the
\* MoldServer that the receiver relies on: for every file, cut anywhere, every
\* speed, and whatever sends fail.
THEOREM ServerIsMold == Spec => ImplementsServer
<1>1. Init => Mold!Init /\ net = << >>
  BY DEF Init, ServerInit, Mold!Init
<1>2. Served /\ [Next]_vars => [Mold!Next /\ UNCHANGED MessageCount]_(Mold!vars)
  BY ServerStep DEF Served
<1> QED BY <1>1, <1>2, ServerInvariant, PTL DEF Spec, ImplementsServer, Mold!Spec
----------------------------------------------------------------------------
(* How long a message waits in its datagram *)

\* The message being paced has its wait behind it.
PaceDone == IF turn = "pace" THEN 0 ELSE 1

\* BufferedBriefly, with the wait of the message being paced only once it is over.
Brief ==
  \A i \in DOMAIN packet :
    clock - buffered[packet[i]] <= FlushMin * (Len(packet) - i + PaceDone) + MaxLag

\* One more wait.
LEMMA WaitsAdd ==
  ASSUME NEW k \in Nat
  PROVE  /\ FlushMin * k \in Nat /\ FlushMin * (k + 1) = FlushMin * k + FlushMin
         /\ FlushMin \in Nat /\ MaxLag \in Nat
BY SleepAssumption, ClockAssumption

\* When a message is in a datagram its time is known.
LEMMA PacketIs ==
  ASSUME Serving, NEW i \in DOMAIN packet
  PROVE  /\ i \in 1 .. Len(packet) /\ Len(packet) \in Nat /\ Len(packet) - i \in Nat
         /\ packet[i] \in DOMAIN buffered /\ packet[i] \in 1 .. next_msg - 1
         /\ buffered[packet[i]] \in Nat
<1>1. /\ packet \in Seq(Nat) /\ packet[i] \in 1 .. next_msg - 1 /\ next_msg \in Nat \ {0}
      /\ buffered \in Seq(Nat) /\ Len(buffered) = next_msg - 1
  BY DEF Serving
<1> QED BY <1>1

\* The bound of Brief covers at least the stalls.
LEMMA BriefIs ==
  ASSUME Chosen, Serving, Brief, NEW i \in DOMAIN packet
  PROVE  /\ clock - buffered[packet[i]] <= FlushMin * (Len(packet) - i) + MaxLag
              \/ (turn # "pace" /\ clock - buffered[packet[i]]
                                    <= FlushMin * (Len(packet) - i) + FlushMin + MaxLag)
         /\ FlushMin * (Len(packet) - i) \in Nat
<1>1. Len(packet) - i \in Nat /\ i \in Nat /\ Len(packet) \in Nat
  BY PacketIs
<1>2. FlushMin * (Len(packet) - i) \in Nat
  BY <1>1, WaitsAdd
<1>3. CASE turn = "pace"
  <2>1. Len(packet) - i + PaceDone = Len(packet) - i
    BY <1>1, <1>3 DEF PaceDone
  <2> QED BY <1>2, <2>1 DEF Brief
<1>4. CASE turn # "pace"
  <2> DEFINE k == Len(packet) - i
  <2>1. k + PaceDone = k + 1
    BY <1>1, <1>4 DEF PaceDone
  <2>2. FlushMin * (k + 1) = FlushMin * k + FlushMin
    <3> HIDE DEF k
    <3> QED BY <1>1, WaitsAdd DEF k
  <2>3. clock - buffered[packet[i]] <= FlushMin * (k + PaceDone) + MaxLag
    BY DEF Brief
  <2> HIDE DEF k
  <2>4. clock - buffered[packet[i]] <= FlushMin * k + FlushMin + MaxLag
    BY <2>1, <2>2, <2>3
  <2> QED BY <1>2, <1>4, <2>4 DEF k
<1> QED BY <1>3, <1>4

\* An empty datagram keeps nobody waiting.
LEMMA BriefEmpty ==
  ASSUME packet' = << >>
  PROVE  Brief'
BY DEF Brief

\* A sleep of at most FlushMin before a message is sent.
LEMMA BriefSleep ==
  ASSUME Chosen, Serving, Brief, turn = "pace", turn' # "pace", UNCHANGED <<packet, buffered>>,
         clock' \in Nat, clock' <= clock + FlushMin
  PROVE  Brief'
<1> SUFFICES ASSUME NEW i \in DOMAIN packet
             PROVE  clock' - buffered[packet[i]]
                      <= FlushMin * (Len(packet) - i + PaceDone') + MaxLag
  BY DEF Brief
<1> DEFINE k == Len(packet) - i
           b == buffered[packet[i]]
<1>1. k \in Nat /\ b \in Nat /\ clock \in Nat
  BY PacketIs DEF Serving
<1>2. clock - b <= FlushMin * k + MaxLag
  BY BriefIs
<1>3. k + PaceDone' = k + 1
  BY <1>1 DEF PaceDone
<1> HIDE DEF k, b
<1>4. FlushMin * (k + 1) = FlushMin * k + FlushMin /\ FlushMin * k \in Nat
      /\ FlushMin \in Nat /\ MaxLag \in Nat
  BY <1>1, WaitsAdd
<1>5. clock' - b <= FlushMin * k + FlushMin + MaxLag
  <2> DEFINE w == FlushMin * k
             t == clock'
  <2>1. t \in Nat /\ t <= clock + FlushMin
    OBVIOUS
  <2> HIDE DEF w, t
  <2>2. clock - b <= w + MaxLag /\ w \in Nat /\ FlushMin \in Nat /\ MaxLag \in Nat
    BY <1>2, <1>4 DEF w
  <2>3. t - b <= w + FlushMin + MaxLag
    BY <1>1, <2>1, <2>2
  <2> QED BY <2>3 DEF w, t
<1>6. clock' - b <= FlushMin * (k + PaceDone') + MaxLag
  BY <1>3, <1>4, <1>5
<1> QED BY <1>6 DEF k, b

\* A stall ends before MaxLag.
LEMMA BriefStall ==
  ASSUME Chosen, Serving, Brief, ServerStall
  PROVE  Brief'
<1> SUFFICES ASSUME NEW i \in DOMAIN packet
             PROVE  clock' - buffered[packet[i]]
                      <= FlushMin * (Len(packet) - i + PaceDone) + MaxLag
  BY DEF Brief, ServerStall, PaceDone
<1> DEFINE k == Len(packet) - i + PaceDone
           b == buffered[packet[i]]
<1>1. k \in Nat /\ b \in Nat /\ clock \in Nat
  <2>1. Len(packet) - i \in Nat /\ b \in Nat
    BY PacketIs
  <2>2. PaceDone \in Nat
    BY DEF PaceDone
  <2>3. clock \in Nat
    BY DEF Serving
  <2> QED BY <2>1, <2>2, <2>3
<1>2. clock' = clock + 1 /\ clock < MaxLag
  BY DEF ServerStall
<1> HIDE DEF k, b
<1>3. FlushMin * k \in Nat /\ MaxLag \in Nat
  BY <1>1, WaitsAdd
<1>4. clock' - b <= FlushMin * k + MaxLag
  BY <1>1, <1>2, <1>3
<1> QED BY <1>4 DEF k, b

\* A message enters the datagram after its own wait.
LEMMA BriefSend ==
  ASSUME Chosen, Serving, Brief, Send
  PROVE  Brief'
<1>1. /\ packet' = Append(packet, next_msg) /\ buffered' = Append(buffered, clock)
      /\ clock' = clock /\ turn' = "pace" /\ PaceDone' = 0
  BY DEF Send, PaceDone
<1>2. /\ packet \in Seq(Nat) /\ buffered \in Seq(Nat) /\ next_msg \in Nat \ {0}
      /\ Len(buffered) = next_msg - 1 /\ clock \in Nat /\ Len(packet) \in Nat
  BY DEF Serving
<1> SUFFICES ASSUME NEW i \in DOMAIN packet'
             PROVE  clock - buffered'[packet'[i]]
                      <= FlushMin * (Len(packet') - i + 0) + MaxLag
  BY <1>1 DEF Brief
<1>3. Len(packet') = Len(packet) + 1 /\ (i \in DOMAIN packet \/ i = Len(packet) + 1)
  BY <1>1, <1>2
<1>4. CASE i \in DOMAIN packet
  <2> DEFINE k == Len(packet) - i
             b == buffered[packet[i]]
  <2>1. packet'[i] = packet[i] /\ buffered'[packet[i]] = b
    BY <1>1, <1>2, <1>4, PacketIs
  <2>2. k \in Nat /\ b \in Nat
    BY <1>4, PacketIs
  <2>3. \/ clock - b <= FlushMin * k + MaxLag
        \/ clock - b <= FlushMin * k + FlushMin + MaxLag
    BY <1>4, BriefIs
  <2>4. Len(packet') - i + 0 = k + 1
    BY <1>2, <1>3, <1>4
  <2> HIDE DEF k, b
  <2>5. FlushMin * (k + 1) = FlushMin * k + FlushMin /\ FlushMin * k \in Nat
        /\ FlushMin \in Nat /\ MaxLag \in Nat
    BY <2>2, WaitsAdd
  <2>6. clock - b <= FlushMin * (k + 1) + MaxLag
    BY <1>2, <2>2, <2>3, <2>5
  <2> QED BY <2>1, <2>4, <2>6
<1>5. CASE i = Len(packet) + 1
  <2>1. packet'[i] = next_msg /\ buffered'[next_msg] = clock
    BY <1>1, <1>2, <1>5
  <2>2. Len(packet') - i + 0 = 0
    BY <1>2, <1>3, <1>5
  <2>3. FlushMin * 0 \in Nat /\ MaxLag \in Nat
    BY WaitsAdd
  <2> QED BY <1>2, <2>1, <2>2, <2>3
<1> QED BY <1>3, <1>4, <1>5

\* A message that has its datagram to itself.
LEMMA BriefAlone ==
  ASSUME Chosen, Serving, packet' = <<next_msg>>, buffered' = Append(buffered, clock),
         clock' = clock, turn' = "pace"
  PROVE  Brief'
<1>1. /\ buffered \in Seq(Nat) /\ next_msg \in Nat \ {0}
      /\ Len(buffered) = next_msg - 1 /\ clock \in Nat
  BY DEF Serving
<1>2. buffered'[next_msg] = clock /\ DOMAIN packet' = {1} /\ packet'[1] = next_msg
  BY <1>1
<1>3. Len(packet') - 1 + PaceDone' = 0
  BY DEF PaceDone
<1>4. FlushMin * 0 \in Nat /\ MaxLag \in Nat
  BY WaitsAdd
<1>5. clock - clock = 0
  BY <1>1
<1>6. ASSUME NEW i \in DOMAIN packet'
      PROVE  clock' - buffered'[packet'[i]] <= FlushMin * (Len(packet') - i + PaceDone') + MaxLag
  <2>1. i = 1 /\ clock' - buffered'[packet'[i]] = 0 /\ Len(packet') - i + PaceDone' = 0
    BY <1>2, <1>3, <1>5
  <2>2. 0 <= FlushMin * 0 + MaxLag
    BY <1>4
  <2> QED BY <2>1, <2>2
<1> QED BY <1>6 DEF Brief

\* No step makes a message wait longer than Brief says.
LEMMA NextBrief ==
  ASSUME Chosen, Serving, Brief, [Next]_vars
  PROVE  Brief'
<1>1. clock \in Nat /\ FlushMin \in Nat
  BY WaitsAdd, SleepAssumption DEF Serving
<1>2. CASE UNCHANGED serverVars
  BY <1>2 DEF serverVars, Brief, PaceDone
<1>3. CASE NoWait \/ DivideFault
  <2>1. /\ turn = "pace" /\ turn' # "pace" /\ clock' = clock
        /\ UNCHANGED <<packet, buffered>>
    BY <1>3 DEF NoWait, DivideFault
  <2> QED BY <1>1, <2>1, BriefSleep
<1>4. ASSUME NEW ok \in Outcomes, Wait(ok) PROVE Brief'
  <2>1. CASE Flushes(sleep_ns)
    BY <1>4, <2>1, BriefEmpty DEF Wait
  <2>2. CASE ~ Flushes(sleep_ns)
    <3>1. sleep_ns \in Nat /\ sleep_ns <= FlushMin
      <4>1. sleep_ns \in Nat
        BY <1>4, SleepIs DEF Wait
      <4> QED BY <1>1, <2>2, <4>1 DEF Flushes
    <3>2. Slept(sleep_ns) \in Nat /\ Slept(sleep_ns) <= FlushMin
      BY <1>1, <3>1 DEF Slept
    <3>3. clock' \in Nat /\ clock' <= clock + FlushMin
      BY <1>1, <1>4, <3>2 DEF Wait
    <3>4. turn = "pace" /\ turn' # "pace" /\ UNCHANGED <<packet, buffered>>
      BY <1>4, <2>2 DEF Wait
    <3> QED BY <3>3, <3>4, BriefSleep
  <2> QED BY <2>1, <2>2
<1>5. CASE Send
  BY <1>5, BriefSend
<1>6. ASSUME NEW ok \in Outcomes, SendAfterFlush(ok) PROVE Brief'
  BY <1>6, BriefEmpty, BriefAlone DEF SendAfterFlush
<1>7. ASSUME NEW ok \in Outcomes, EndOfReplay(ok) PROVE Brief'
  BY <1>7, BriefEmpty DEF EndOfReplay
<1>8. CASE ServerStall
  BY <1>8, BriefStall
<1> QED BY <1>2, <1>3, <1>4, <1>5, <1>6, <1>7, <1>8
        DEF Next, vars, Replay, Serve, Stopped, ServerNext

\* However messages are stamped and paced, none waits in its datagram longer
\* than one short sleep for each message after it (replay_file flushes before
\* a longer one).
THEOREM NotBufferedForLong == Spec => []BufferedBriefly
<1>1. Init => Brief
  BY DEF Init, ServerInit, Brief
<1>2. Served /\ Brief /\ [Next]_vars => Brief'
  BY NextBrief DEF Served
<1>3. ASSUME Served, Brief PROVE BufferedBriefly
  <2> SUFFICES ASSUME NEW i \in DOMAIN packet
               PROVE  clock - buffered[packet[i]] <= FlushMin * (Len(packet) - i + 1) + MaxLag
    BY DEF BufferedBriefly
  <2> DEFINE k == Len(packet) - i
             b == buffered[packet[i]]
  <2>1. k \in Nat /\ b \in Nat /\ clock \in Nat
    BY <1>3, PacketIs DEF Served, Serving
  <2>2. \/ clock - b <= FlushMin * k + MaxLag
        \/ clock - b <= FlushMin * k + FlushMin + MaxLag
    BY <1>3, BriefIs DEF Served
  <2> HIDE DEF k, b
  <2>3. FlushMin * (k + 1) = FlushMin * k + FlushMin /\ FlushMin * k \in Nat
        /\ FlushMin \in Nat /\ MaxLag \in Nat
    BY <2>1, WaitsAdd
  <2>4. clock - b <= FlushMin * (k + 1) + MaxLag
    BY <2>1, <2>2, <2>3
  <2> QED BY <2>4 DEF k, b
<1> QED BY <1>1, <1>2, <1>3, ServerInvariant, PTL DEF Spec
----------------------------------------------------------------------------
(* Nothing is early *)

\* Multiplication keeps the order.
LEMMA MulKeeps ==
  ASSUME NEW a \in Nat, NEW b \in Nat, NEW c \in Nat, a <= b
  PROVE  a * c \in Nat /\ b * c \in Nat /\ a * c <= b * c
<1>1. PICK d \in Nat : b = a + d
  <2>1. b - a \in Nat /\ b = a + (b - a)
    OBVIOUS
  <2> QED BY <2>1
<1>2. b * c = a * c + d * c /\ a * c \in Nat /\ d * c \in Nat
  BY <1>1
<1> QED BY <1>2

\* Division rounds down, by less than one.
LEMMA DivIs ==
  ASSUME NEW a \in Nat, NEW b \in Nat \ {0}
  PROVE  /\ a \div b \in Nat /\ (a \div b) * b <= a /\ a < (a \div b + 1) * b
         /\ a \div b <= a
<1> DEFINE q == a \div b
           r == a % b
<1>1. q \in Nat /\ r \in Nat /\ r < b /\ a = b * q + r
  OBVIOUS
<1> HIDE DEF q, r
<1>2. q * b = b * q /\ (q + 1) * b = b * q + b /\ b * q \in Nat
  BY <1>1
<1>3. q <= a
  <2>1. 1 * q <= b * q
    BY <1>1, MulKeeps
  <2> QED BY <1>1, <1>2, <2>1
<1> QED BY <1>1, <1>2, <1>3 DEF q

\* After a wait of w for a message that is e after the first on the clock of
\* the file, at c on the wall clock, which passes num / den times as slowly.
LEMMA WaitSuffices ==
  ASSUME NEW e \in Nat, NEW c \in Nat, NEW num \in Nat, NEW den \in Nat \ {0},
         NEW D \in Nat \ {0}, D = num \div den, e > (c * num) \div den,
         NEW w \in Nat, w = (e - (c * num) \div den) \div D
  PROVE  e * den <= (c + w + 1) * num /\ w <= e
<1> DEFINE p == c * num
           v == p \div den
<1>1. p \in Nat
  OBVIOUS
<1> HIDE DEF p
<1>2. v \in Nat /\ v * den <= p
  BY <1>1, DivIs
<1>3. D * den <= num
  BY DivIs
<1> HIDE DEF v
<1>4. e > v /\ w = (e - v) \div D
  BY DEF p, v
<1>5. e - v \in Nat
  BY <1>2, <1>4
<1>6. e - v < (w + 1) * D /\ w <= e - v
  BY <1>4, <1>5, DivIs
<1>7. w <= e
  BY <1>2, <1>5, <1>6
<1> DEFINE m == (w + 1) * D
<1>8. m \in Nat
  OBVIOUS
<1>9. m * den <= (w + 1) * num
  <2>1. m * den = (D * den) * (w + 1)
    OBVIOUS
  <2>2. (D * den) * (w + 1) <= num * (w + 1)
    <3>1. D * den \in Nat /\ w + 1 \in Nat
      OBVIOUS
    <3> QED BY <1>3, <3>1, MulKeeps
  <2>3. num * (w + 1) = (w + 1) * num
    OBVIOUS
  <2> QED BY <2>1, <2>2, <2>3
<1> HIDE DEF m
<1>10. e <= v + m
  BY <1>2, <1>5, <1>6, <1>8 DEF m
<1>11. e * den <= (v + m) * den
  BY <1>2, <1>8, <1>10, MulKeeps
<1>12. (v + m) * den = v * den + m * den
  BY <1>2, <1>8
<1>13. (c + w + 1) * num = c * num + (w + 1) * num
  OBVIOUS
<1> DEFINE x1 == e * den
           x2 == v * den
           x3 == m * den
           x4 == (w + 1) * num
           x5 == (c + w + 1) * num
<1>14. x1 \in Nat /\ x2 \in Nat /\ x3 \in Nat /\ x4 \in Nat
  BY <1>2, <1>8
<1>15. x1 <= x2 + x3 /\ x2 <= p /\ x3 <= x4 /\ x5 = p + x4
  BY <1>2, <1>9, <1>11, <1>12, <1>13 DEF p
<1> HIDE DEF x1, x2, x3, x4, x5
<1>16. x1 <= x5
  BY <1>1, <1>14, <1>15
<1> QED BY <1>7, <1>16 DEF x1, x5

\* Message i, when the first stamp is f, is not early at t.
OnTime(i, f, t) ==
  speed.num > 0 /\ file[i].len >= 11 =>
    /\ f \in Nat
    /\ file[i].ts >= f =>
         (file[i].ts - f) * speed.den <= (t + SleepMin + 1) * speed.num + speed.den

\* What is on time stays so.
LEMMA OnTimeLater ==
  ASSUME Chosen, NEW t \in Nat, NEW u \in Nat, t <= u,
         NEW e \in Nat, e * speed.den <= (t + SleepMin + 1) * speed.num
  PROVE  e * speed.den <= (u + SleepMin + 1) * speed.num + speed.den
<1> DEFINE a == t + SleepMin + 1
           b == u + SleepMin + 1
           x == e * speed.den
           y == a * speed.num
           z == b * speed.num
<1>1. speed.num \in Nat /\ speed.den \in Nat
  BY DEF Chosen
<1>2. a \in Nat /\ b \in Nat /\ a <= b
  BY SleepAssumption
<1> HIDE DEF a, b
<1>3. y \in Nat /\ z \in Nat /\ y <= z /\ x \in Nat
  BY <1>1, <1>2, MulKeeps
<1>4. x <= y
  BY DEF a
<1> HIDE DEF x, y, z
<1>5. x <= z + speed.den
  BY <1>1, <1>3, <1>4
<1> QED BY <1>5 DEF x, z, b

\* How long after the first message of the file this one is stamped.
LEMMA ElapsedIs ==
  ASSUME Chosen, Serving, Reads, Paced, Msg.ts >= FirstTs
  PROVE  /\ file_elapsed = Msg.ts - FirstTs /\ file_elapsed \in Nat
         /\ 2 * file_elapsed < Word /\ Word \in Nat
<1>1. /\ Msg.ts \in Nat /\ 2 * Msg.ts < Word /\ FirstTs \in Nat /\ Word \in Nat \ {0}
  BY SleepIs, ClockAssumption
<1> DEFINE e == Msg.ts - FirstTs
<1>2. e \in Nat /\ 2 * e < Word /\ e < Word
  BY <1>1
<1>3. e % Word = e
  <2> HIDE DEF e
  <2> QED BY <1>1, <1>2
<1> QED BY <1>1, <1>2, <1>3 DEF file_elapsed

\* The pacing step lets a message on only when it is due.
LEMMA PacedOnTime ==
  ASSUME Chosen, Serving, Reads, NEW t \in Nat,
         \/ ~ Ahead /\ t = clock
         \/ Ahead /\ Divisor > 0 /\ sleep_ns <= SleepMin /\ t = clock
         \/ Ahead /\ Divisor > 0 /\ t = clock + Slept(sleep_ns)
  PROVE  OnTime(next_msg, FirstTs, t)
<1> SUFFICES ASSUME Paced, Msg.ts >= FirstTs
             PROVE  (Msg.ts - FirstTs) * speed.den
                      <= (t + SleepMin + 1) * speed.num + speed.den
  BY SleepIs DEF OnTime, Paced, Msg
<1> DEFINE e == file_elapsed
           n == speed.num
           d == speed.den
           v == wall_elapsed
           w == sleep_ns
<1>1. /\ e = Msg.ts - FirstTs /\ e \in Nat /\ 2 * e < Word /\ Word \in Nat
      /\ n \in Nat /\ d \in Nat \ {0} /\ clock \in Nat /\ SleepMin \in Nat
      /\ v \in Nat
  BY ElapsedIs, SleepIs, SleepAssumption DEF Chosen, Serving
<1>2. CASE ~ Ahead /\ t = clock
  <2>1. e <= v
    BY <1>1, <1>2 DEF Ahead
  <2>2. v * d <= clock * n
    <3> DEFINE q == clock * n
    <3>1. q \in Nat
      BY <1>1
    <3>2. v = q \div d
      BY DEF wall_elapsed
    <3> HIDE DEF q, v
    <3>3. v * d <= q
      BY <1>1, <3>1, <3>2, DivIs
    <3> QED BY <3>3 DEF q
  <2>3. e * d <= v * d /\ e * d \in Nat /\ v * d \in Nat
    <3> HIDE DEF e, v, d
    <3> QED BY <1>1, <2>1, MulKeeps
  <2>4. clock * n <= (clock + SleepMin + 1) * n /\ clock * n \in Nat
        /\ (clock + SleepMin + 1) * n \in Nat
    <3> DEFINE c == clock + SleepMin + 1
    <3>1. c \in Nat /\ clock <= c
      BY <1>1
    <3> HIDE DEF c, n
    <3>2. clock * n <= c * n /\ clock * n \in Nat /\ c * n \in Nat
      BY <1>1, <3>1, MulKeeps
    <3> QED BY <3>2 DEF c
  <2>5. e * d <= (clock + SleepMin + 1) * n
    <3> DEFINE x1 == e * d
               x2 == v * d
               x3 == clock * n
               x4 == (clock + SleepMin + 1) * n
    <3> HIDE DEF x1, x2, x3, x4
    <3>1. x1 <= x4
      BY <2>2, <2>3, <2>4 DEF x1, x2, x3, x4
    <3> QED BY <3>1 DEF x1, x4
  <2> QED BY <1>1, <1>2, <2>5, OnTimeLater
<1>3. ASSUME Ahead, Divisor > 0
      PROVE  e * d <= (clock + w + 1) * n /\ w \in Nat /\ w <= e
  <2>1. Divisor \in Nat \ {0} /\ w \in Nat /\ e > v
    BY <1>3, SleepIs DEF Ahead
  <2>2. /\ v = (clock * n) \div d /\ Divisor = n \div d
        /\ w = (e - (clock * n) \div d) \div Divisor
    BY DEF wall_elapsed, Divisor, sleep_ns
  <2> HIDE DEF e, n, d, v, w
  <2> QED BY <1>1, <2>1, <2>2, WaitSuffices
<1>4. CASE Ahead /\ Divisor > 0 /\ w <= SleepMin /\ t = clock
  <2> DEFINE a == clock + w + 1
             b == clock + SleepMin + 1
  <2>1. e * d <= a * n /\ w \in Nat
    BY <1>3, <1>4
  <2> HIDE DEF e, n, d, w
  <2>2. a \in Nat /\ b \in Nat /\ a <= b
    BY <1>1, <1>4, <2>1
  <2> HIDE DEF a, b
  <2>3. a * n <= b * n /\ a * n \in Nat /\ b * n \in Nat /\ e * d \in Nat
    BY <1>1, <2>2, MulKeeps
  <2>4. e * d <= b * n
    <3> DEFINE x1 == e * d
               x2 == a * n
               x3 == b * n
    <3> HIDE DEF x1, x2, x3
    <3>1. x1 <= x3
      BY <2>1, <2>3 DEF x1, x2, x3
    <3> QED BY <3>1 DEF x1, x3
  <2> QED BY <1>1, <1>4, <2>4, OnTimeLater DEF b, d, n
<1>5. CASE Ahead /\ Divisor > 0 /\ t = clock + Slept(w)
  <2> DEFINE a == clock + w + 1
             b == clock + w + SleepMin + 1
  <2>1. e * d <= a * n /\ w \in Nat /\ w <= e
    BY <1>3, <1>5
  <2> HIDE DEF e, n, d, w
  <2>2. Slept(w) = w
    BY <1>1, <2>1 DEF Slept
  <2>3. t = clock + w /\ clock + w \in Nat
    BY <1>1, <1>5, <2>1, <2>2
  <2>4. a \in Nat /\ b \in Nat /\ a <= b
    BY <1>1, <2>1
  <2> HIDE DEF a, b
  <2>5. a * n <= b * n /\ a * n \in Nat /\ b * n \in Nat /\ e * d \in Nat
    BY <1>1, <2>4, MulKeeps
  <2>6. e * d <= b * n
    <3> DEFINE x1 == e * d
               x2 == a * n
               x3 == b * n
    <3> HIDE DEF x1, x2, x3
    <3>1. x1 <= x3
      BY <2>1, <2>5 DEF x1, x2, x3
    <3> QED BY <3>1 DEF x1, x3
  <2>7. e * d <= (t + SleepMin + 1) * n
    BY <2>3, <2>6 DEF b
  <2> QED BY <1>1, <2>7, OnTimeLater DEF d, n
<1> QED BY <1>2, <1>4, <1>5

\* What the server has let on is on time: what is in a datagram, and the
\* message it is about to put there.
InTime ==
  /\ \A i \in DOMAIN buffered : OnTime(i, first_ts, buffered[i])
  /\ turn = "send" => OnTime(next_msg, first_ts, clock)

\* A later clock does no harm.
LEMMA OnTimeStays ==
  ASSUME Chosen, NEW i \in 1 .. Len(file), NEW f, NEW t \in Nat, NEW u \in Nat, t <= u,
         OnTime(i, f, t)
  PROVE  OnTime(i, f, u)
<1> SUFFICES ASSUME speed.num > 0, file[i].len >= 11, f \in Nat, file[i].ts >= f
             PROVE  (file[i].ts - f) * speed.den <= (u + SleepMin + 1) * speed.num + speed.den
  BY DEF OnTime
<1> DEFINE a == t + SleepMin + 1
           b == u + SleepMin + 1
           x == (file[i].ts - f) * speed.den
           y == a * speed.num
           z == b * speed.num
<1>1. speed.num \in Nat /\ speed.den \in Nat
  BY DEF Chosen
<1>2. a \in Nat /\ b \in Nat /\ a <= b
  BY SleepAssumption
<1>3. x <= (t + SleepMin + 1) * speed.num + speed.den
  BY DEF OnTime
<1>4. x \in Int
  <2>1. file[i].ts - f \in Int
    BY FrameIs
  <2> QED BY <1>1, <2>1
<1> HIDE DEF a, b, x
<1>5. y \in Nat /\ z \in Nat /\ y <= z
  BY <1>1, <1>2, MulKeeps
<1> HIDE DEF y, z
<1>6. x <= z + speed.den
  <2> DEFINE d == speed.den
  <2>1. d \in Nat /\ x <= y + d
    BY <1>1, <1>3 DEF y, a
  <2> HIDE DEF d
  <2>2. x <= z + d
    BY <1>4, <1>5, <2>1
  <2> QED BY <2>2 DEF d
<1> QED BY <1>6 DEF x, z, b

\* The first stamp is set once: what was on time before stays on time.
LEMMA FirstTsKeeps ==
  ASSUME Chosen, Serving, InTime, NEW i \in DOMAIN buffered
  PROVE  OnTime(i, FirstTs, buffered[i])
<1>1. OnTime(i, first_ts, buffered[i])
  BY DEF InTime
<1>2. first_ts \in Nat => FirstTs = first_ts
  BY ClockAssumption DEF FirstTs
<1> QED BY <1>1, <1>2 DEF OnTime

\* The pacing step, with or without a wait.
LEMMA PaceInTime ==
  ASSUME Chosen, Serving, InTime, UNCHANGED <<file, speed, next_msg, buffered>>,
         first_ts' = FirstTs, turn' = "send" => OnTime(next_msg, FirstTs, clock')
  PROVE  InTime'
<1>1. ASSUME NEW i \in DOMAIN buffered PROVE OnTime(i, first_ts, buffered[i])'
  <2>1. OnTime(i, FirstTs, buffered[i])
    BY <1>1, FirstTsKeeps
  <2> QED BY <2>1 DEF OnTime
<1>2. turn' = "send" => OnTime(next_msg, first_ts, clock)'
  BY DEF OnTime
<1> QED BY <1>1, <1>2 DEF InTime

\* A message enters its datagram, or is dropped, when it is due.
LEMMA SendInTime ==
  ASSUME Chosen, Serving, InTime, turn = "send", turn' = "pace",
         UNCHANGED <<file, speed, first_ts>>, buffered' = Append(buffered, clock)
  PROVE  InTime'
<1>1. /\ buffered \in Seq(Nat) /\ Len(buffered) = next_msg - 1 /\ next_msg \in Nat \ {0}
      /\ clock \in Nat
  BY DEF Serving
<1>2. SUFFICES ASSUME NEW i \in DOMAIN buffered' PROVE OnTime(i, first_ts, buffered[i])'
  BY DEF InTime
<1>3. i \in 1 .. next_msg
  BY <1>1
<1>4. CASE i = next_msg
  <2>1. buffered'[i] = clock
    BY <1>1, <1>4
  <2> QED BY <1>4, <2>1 DEF InTime, OnTime
<1>5. CASE i # next_msg
  <2>1. i \in DOMAIN buffered /\ buffered'[i] = buffered[i]
    BY <1>1, <1>3, <1>5
  <2> QED BY <2>1 DEF InTime, OnTime
<1> QED BY <1>4, <1>5

\* Every step of the server keeps what it lets on in time.
LEMMA NextInTime ==
  ASSUME Chosen, Serving, InTime, [Next]_vars
  PROVE  InTime'
<1>1. file' = file /\ speed' = speed /\ clock \in Nat
  BY NextChosen DEF Next, vars, Replay, Serve, Stopped, serverVars, ServerNext, NoWait, Wait,
                    DivideFault, Send, SendAfterFlush, EndOfReplay, ServerStall, Serving
<1>2. CASE UNCHANGED serverVars
  BY <1>1, <1>2 DEF serverVars, InTime, OnTime
<1>3. CASE NoWait
  <2>1. OnTime(next_msg, FirstTs, clock)
    BY <1>1, <1>3, PacedOnTime DEF NoWait
  <2> QED BY <1>1, <1>3, <2>1, PaceInTime DEF NoWait
<1>4. ASSUME NEW ok \in Outcomes, Wait(ok) PROVE InTime'
  <2>1. sleep_ns \in Nat
    BY <1>4, SleepIs DEF Wait
  <2>2. clock' = clock + Slept(sleep_ns) /\ clock' \in Nat
    BY <1>1, <1>4, <2>1 DEF Wait, Slept
  <2>3. OnTime(next_msg, FirstTs, clock')
    BY <1>4, <2>2, PacedOnTime DEF Wait
  <2> QED BY <1>1, <1>4, <2>3, PaceInTime DEF Wait
<1>5. CASE DivideFault
  BY <1>1, <1>5, PaceInTime DEF DivideFault
<1>6. CASE Send
  BY <1>1, <1>6, SendInTime DEF Send
<1>7. ASSUME NEW ok \in Outcomes, SendAfterFlush(ok) PROVE InTime'
  BY <1>1, <1>7, SendInTime DEF SendAfterFlush
<1>8. ASSUME NEW ok \in Outcomes, EndOfReplay(ok) PROVE InTime'
  BY <1>1, <1>8 DEF EndOfReplay, InTime, OnTime
<1>9. CASE ServerStall
  <2>1. UNCHANGED <<turn, next_msg, first_ts, buffered>> /\ clock' = clock + 1
    BY <1>9 DEF ServerStall
  <2>2. turn = "send" => OnTime(next_msg, first_ts, clock + 1)
    <3>1. turn = "send" => next_msg \in 1 .. Len(file)
      BY ReadsIs DEF Serving
    <3> QED BY <1>1, <3>1, OnTimeStays DEF InTime
  <2> QED BY <1>1, <2>1, <2>2 DEF InTime, OnTime
<1> QED BY <1>2, <1>3, <1>4, <1>5, <1>6, <1>7, <1>8, <1>9
        DEF Next, vars, Replay, Serve, Stopped, ServerNext

\* What on_paced has shown so far was shown in time.
ShownInTime ==
  /\ now \in Nat
  /\ pace \in [started : BOOLEAN, itch_t0 : Nat, wall_t0 : Nat]
  /\ \A x \in shown : /\ x.sim \in Int /\ x.wall \in Int
                      /\ x.sim >= 0 => x.sim \div PacedSpeed <= x.wall + PaceSlack

\* One message shown: s after the first on the clock of the file, at the wall
\* clock u, when the wait was decided at n.
LEMMA PaceSuffices ==
  ASSUME NEW s \in Int, s < Wrap, NEW w \in Nat, NEW n \in Nat, NEW u,
         u = IF (w + (s % Wrap) \div PacedSpeed) - n > PaceSlack
               THEN w + (s % Wrap) \div PacedSpeed ELSE n
  PROVE  u \in Nat /\ (s >= 0 => s \div PacedSpeed <= (u - w) + PaceSlack)
<1> DEFINE q == (s % Wrap) \div PacedSpeed
<1>1. PaceSlack \in Nat /\ Wrap \in Nat \ {0} /\ PacedSpeed \in Nat \ {0}
  BY PaceAssumption
<1>2. s % Wrap \in Nat
  BY <1>1
<1>3. q \in Nat
  BY <1>1, <1>2, DivIs
<1>4. s >= 0 => s \div PacedSpeed = q
  <2>1. s >= 0 => s % Wrap = s
    BY <1>1
  <2> QED BY <2>1
<1>5. u = IF (w + q) - n > PaceSlack THEN w + q ELSE n
  OBVIOUS
<1> HIDE DEF q
<1>6. u \in Nat /\ q <= (u - w) + PaceSlack
  BY <1>1, <1>3, <1>5
<1> QED BY <1>4, <1>6

\* A message handed to on_paced.
LEMMA PacedShown ==
  ASSUME Chosen, ShownInTime, NEW i \in 1 .. Len(file), on_paced(file[i])
  PROVE  ShownInTime'
<1>1. now \in Nat /\ pace \in [started : BOOLEAN, itch_t0 : Nat, wall_t0 : Nat]
  BY DEF ShownInTime
<1>2. CASE file[i].ts < MARKET_OPEN
  BY <1>2 DEF on_paced, ShownInTime
<1>3. CASE ~ (file[i].ts < MARKET_OPEN)
  <2> DEFINE p == IF pace.started THEN pace
                  ELSE [started |-> TRUE, itch_t0 |-> file[i].ts, wall_t0 |-> now]
             target == p.wall_t0 + ((file[i].ts - p.itch_t0) % Wrap) \div PacedSpeed
             s == file[i].ts - p.itch_t0
             w == p.wall_t0
             x == [sim |-> s, wall |-> now' - w]
  <2>1. /\ pace' = p /\ shown' = shown \cup {x}
        /\ now' = IF target - now > PaceSlack THEN target ELSE now
    BY <1>3 DEF on_paced
  <2>2. file[i].ts \in Nat /\ file[i].ts < Wrap
    BY FrameIs DEF Chosen
  <2>3. p \in [started : BOOLEAN, itch_t0 : Nat, wall_t0 : Nat]
    BY <1>1, <2>2
  <2>4. s \in Int /\ s < Wrap /\ w \in Nat
    <3>1. p.itch_t0 \in Nat /\ p.wall_t0 \in Nat
      BY <2>3
    <3> HIDE DEF p
    <3>2. Wrap \in Nat
      BY PaceAssumption
    <3> QED BY <2>2, <3>1, <3>2
  <2>5. now' = IF (w + (s % Wrap) \div PacedSpeed) - now > PaceSlack
                 THEN w + (s % Wrap) \div PacedSpeed ELSE now
    BY <2>1
  <2>6. now' \in Nat /\ (s >= 0 => s \div PacedSpeed <= (now' - w) + PaceSlack)
    <3>1. now \in Nat /\ s \in Int /\ s < Wrap /\ w \in Nat
      BY <1>1, <2>4
    <3> HIDE DEF p, s, w, x, target
    <3> DEFINE u == now'
    <3>2. u = IF (w + (s % Wrap) \div PacedSpeed) - now > PaceSlack
                 THEN w + (s % Wrap) \div PacedSpeed ELSE now
      BY <2>5
    <3> HIDE DEF u
    <3>3. u \in Nat /\ (s >= 0 => s \div PacedSpeed <= (u - w) + PaceSlack)
      BY <3>1, <3>2, PaceSuffices
    <3> QED BY <3>3 DEF u
  <2>7. /\ x.sim \in Int /\ x.wall \in Int
        /\ x.sim >= 0 => x.sim \div PacedSpeed <= x.wall + PaceSlack
    <3>1. x.sim = s /\ x.wall = now' - w
      BY DEF x
    <3> HIDE DEF s, w, x
    <3> QED BY <2>4, <2>6, <3>1
  <2> HIDE DEF p, target, x
  <2> QED BY <2>1, <2>3, <2>6, <2>7 DEF ShownInTime
<1> QED BY <1>2, <1>3

\* Every step of the replay keeps what it shows in time.
LEMMA NextShown ==
  ASSUME Replayed, ShownInTime, [Next]_vars
  PROVE  ShownInTime'
<1>1. CASE UNCHANGED <<pace, now, shown>>
  BY <1>1 DEF ShownInTime
<1>2. CASE ReplayStall
  BY <1>2 DEF ReplayStall, ShownInTime
<1>3. CASE ParserMessage
  <2>1. on_paced(file[at]) \/ UNCHANGED <<pace, now, shown>>
    BY <1>3 DEF ParserMessage
  <2>2. at \in 1 .. Len(file)
    BY <1>3, TurnIs DEF ParserMessage, Replayed
  <2> QED BY <1>1, <2>1, <2>2, PacedShown DEF Replayed
<1> QED BY <1>1, <1>2, <1>3
        DEF Next, vars, Replay, Serve, Stopped, replayVars, loopVars, ReplayNext, Subscribe,
            SubscribeAll, open, DirectoryMessage, FilteredMessage, EndOfFile

\* Whatever the stamps, the speed and the stalls, no message is shown before its
\* time and none enters a datagram before its time, up to the wait that is not
\* worth a system call and the rounding (on_paced; the rate control of
\* replay_file).
THEOREM NothingEarly == Spec => []NeverEarly
<1>1. Init => ShownInTime /\ InTime
  BY DEF Init, ReplayInit, ServerInit, ShownInTime, InTime
<1>2. Replayed /\ ShownInTime /\ [Next]_vars => ShownInTime'
  BY NextShown
<1>3. Served /\ InTime /\ [Next]_vars => InTime'
  BY NextInTime DEF Served
<1>4. ShownInTime /\ InTime => NeverEarly
  BY DEF ShownInTime, InTime, OnTime, NeverEarly
<1> QED BY <1>1, <1>2, <1>3, <1>4, ReplayInvariant, ServerInvariant, PTL DEF Spec

----------------------------------------------------------------------------
(* Recursive functions *)

\* f begins with v and goes on by G.
Iterates(f, n, V, v, G) ==
  /\ f \in [0 .. n -> V] /\ f[0] = v
  /\ \A i \in 1 .. n : f[i] = G[i][f[i - 1]]

\* Every such recursion has a solution.
LEMMA RecursionExists ==
  ASSUME NEW n \in Nat, NEW V, NEW v \in V, NEW G \in [1 .. n -> [V -> V]]
  PROVE  \E f : Iterates(f, n, V, v, G)
<1> DEFINE T == {k \in 0 .. n : ~ \E f : Iterates(f, k, V, v, G)}
<1>1. CASE T = {}
  <2>1. n \in 0 .. n
    OBVIOUS
  <2>2. n \notin T
    BY <1>1
  <2> QED BY <2>1, <2>2
<1>2. CASE T # {}
  <2>1. T \in SUBSET Nat
    OBVIOUS
  <2>2. PICK k \in T : \A m \in T : k <= m
    <3> HIDE DEF T
    <3> QED BY <1>2, <2>1, LeastNatural
  <2>3. k # 0
    <3>1. Iterates([i \in 0 .. 0 |-> v], 0, V, v, G)
      BY DEF Iterates
    <3> QED BY <2>2, <3>1
  <2>4. k - 1 \in 0 .. n /\ k - 1 \notin T /\ k \in 1 .. n
    BY <2>2, <2>3
  <2>5. PICK f : Iterates(f, k - 1, V, v, G)
    BY <2>4
  <2>6. f \in [0 .. k - 1 -> V] /\ f[0] = v /\ f[k - 1] \in V
    <3>1. k - 1 \in 0 .. k - 1
      BY <2>4
    <3> QED BY <2>5, <3>1 DEF Iterates
  <2> DEFINE w == G[k][f[k - 1]]
             g == [i \in 0 .. k |-> IF i = k THEN w ELSE f[i]]
  <2>7. w \in V
    BY <2>4, <2>6
  <2> HIDE DEF w
  <2>8. g \in [0 .. k -> V] /\ g[0] = v
    <3>1. ASSUME NEW i \in 0 .. k, i # k PROVE f[i] \in V
      <4>1. i \in 0 .. k - 1
        BY <2>4, <3>1
      <4> QED BY <2>6, <4>1
    <3>2. k # 0 /\ 0 \in 0 .. k
      BY <2>3, <2>4
    <3> QED BY <2>6, <2>7, <3>1, <3>2
  <2>9. ASSUME NEW i \in 1 .. k PROVE g[i] = G[i][g[i - 1]]
    <3>1. i \in 0 .. k /\ i - 1 \in 0 .. k /\ i - 1 # k
      BY <2>4
    <3>2. g[i - 1] = f[i - 1]
      BY <3>1
    <3>3. CASE i = k
      BY <3>1, <3>2, <3>3 DEF w
    <3>4. CASE i # k
      <4>1. i \in 1 .. k - 1
        BY <2>4, <3>4
      <4>2. g[i] = f[i]
        BY <3>1, <3>4
      <4> HIDE DEF g
      <4> QED BY <2>5, <3>2, <4>1, <4>2 DEF Iterates
    <3> QED BY <3>3, <3>4
  <2>10. Iterates(g, k, V, v, G)
    <3> HIDE DEF g
    <3> QED BY <2>8, <2>9 DEF Iterates
  <2> QED BY <2>2, <2>10
<1> QED BY <1>1, <1>2

\* A function that obeys such a recursion stays in V.
LEMMA RecursionIs ==
  ASSUME NEW n \in Nat, NEW V, NEW v \in V, NEW G \in [1 .. n -> [V -> V]],
         NEW f, f = [i \in 0 .. n |-> f[i]], f[0] = v,
         \A i \in 1 .. n : f[i - 1] \in V => f[i] = G[i][f[i - 1]]
  PROVE  Iterates(f, n, V, v, G)
<1>1. \A i \in 0 .. n : f[i] \in V
  <2> DEFINE T == {i \in 0 .. n : f[i] \notin V}
  <2> SUFFICES ASSUME T # {} PROVE FALSE
    OBVIOUS
  <2>1. T \in SUBSET Nat
    OBVIOUS
  <2>2. PICK i \in T : \A m \in T : i <= m
    <3> HIDE DEF T
    <3> QED BY <2>1, LeastNatural
  <2>3. i # 0
    BY <2>2
  <2>4. i \in 1 .. n /\ i - 1 \in 0 .. n /\ i - 1 \notin T
    BY <2>2, <2>3
  <2>5. f[i - 1] \in V /\ f[i] = G[i][f[i - 1]]
    BY <2>4
  <2> QED BY <2>2, <2>4, <2>5
<1>2. f \in [0 .. n -> V]
  BY <1>1
<1>3. \A i \in 1 .. n : i - 1 \in 0 .. n
  OBVIOUS
<1> QED BY <1>1, <1>2, <1>3 DEF Iterates

----------------------------------------------------------------------------
(* What the receive loop makes of a run of messages *)

\* The state of the receive loop.
LoopStates == [dir : Directories, applied : Seq(Frames)]

\* What an 'R' message makes of the directory.
LEMMA FeedIs ==
  ASSUME NEW d \in Directories, NEW l \in Locates, NEW name \in STRING
  PROVE  /\ feed(d, l, name) \in Directories /\ feed(d, l, name).all = d.all
         /\ feed(d, l, name).symbols = [d.symbols EXCEPT ![l] = name]
<1> DEFINE i == PendingAt(d, name)
           named == [d EXCEPT !.symbols[l] = name]
           e == feed(d, l, name)
<1>1. /\ named \in Directories /\ named.all = d.all
      /\ named.symbols = [d.symbols EXCEPT ![l] = name] /\ named.pending = d.pending
  BY DEF Directories
<1>2. CASE i = 0
  <2>1. e = named
    BY <1>2 DEF feed
  <2> HIDE DEF e, named
  <2> QED BY <1>1, <2>1 DEF e
<1>3. CASE i # 0
  <2> DEFINE q == DropPending(d.pending, i)
  <2>1. i \in DOMAIN d.pending /\ d.pending \in Seq(Names)
    <3>1. i \in DOMAIN d.pending
      BY <1>3, PendingIs
    <3> QED BY <3>1 DEF Directories
  <2>2. q \in Seq(Names)
    <3> HIDE DEF i
    <3> QED BY <2>1, DropIs
  <2>3. e = [named EXCEPT !.subscribed = @ \cup {l}, !.pending = q]
    BY <1>1, <1>3 DEF feed
  <2> HIDE DEF q, i, named
  <2>4. e \in Directories /\ e.all = named.all /\ e.symbols = named.symbols
    <3>1. named.subscribed \cup {l} \in SUBSET Locates
      BY <1>1 DEF Directories
    <3> HIDE DEF e
    <3> QED BY <1>1, <2>2, <2>3, <3>1 DEF Directories
  <2> HIDE DEF e
  <2> QED BY <1>1, <2>4 DEF e
<1> QED BY <1>2, <1>3

\* One message keeps the state of the loop a state of the loop.
LEMMA ConsumeTyped ==
  ASSUME NEW s \in LoopStates, NEW m \in Frames
  PROVE  Consume(s, m) \in LoopStates
<1>1. s.dir \in Directories /\ s.applied \in Seq(Frames)
  BY DEF LoopStates
<1>2. feed(s.dir, m.locate, m.name) \in Directories
  <2>1. m.locate \in Locates /\ m.name \in STRING
    BY DEF Frames
  <2> QED BY <1>1, <2>1, FeedIs
<1>3. Append(s.applied, m) \in Seq(Frames)
  BY <1>1
<1>4. CASE IsDirectory(m)
  <2>1. Consume(s, m) = [s EXCEPT !.dir = feed(s.dir, m.locate, m.name)]
    BY <1>4 DEF Consume, LoopStates
  <2> QED BY <1>1, <1>2, <2>1 DEF LoopStates
<1>5. CASE ~ IsDirectory(m)
  <2>1. \/ Consume(s, m) = [s EXCEPT !.applied = Append(s.applied, m)]
        \/ Consume(s, m) = s
    BY <1>5 DEF Consume, LoopStates
  <2> QED BY <1>1, <1>3, <2>1 DEF LoopStates
<1> QED BY <1>4, <1>5

\* f is the state of the loop after 0, 1, 2, ... messages of q.
Runs(f, s, q) ==
  /\ f \in [0 .. Len(q) -> LoopStates] /\ f[0] = s
  /\ \A i \in 1 .. Len(q) : f[i] = Consume(f[i - 1], q[i])

\* A datagram is consumed message by message.
LEMMA ConsumeAllIs ==
  ASSUME NEW s \in LoopStates, NEW q \in Seq(Frames)
  PROVE  \E f : Runs(f, s, q) /\ ConsumeAll(s, q) = f[Len(q)]
<1> DEFINE n == Len(q)
           V == LoopStates
           C(t, m) == Consume(t, m)
           G == [i \in 1 .. n |-> [t \in V |-> C(t, q[i])]]
           Body(g) == [i \in 0 .. n |-> IF i = 0 THEN s ELSE C(g[i - 1], q[i])]
           f == CHOOSE g : g = Body(g)
<1>1. n \in Nat /\ \A i \in 1 .. n : q[i] \in Frames
  OBVIOUS
<1>2. ConsumeAll(s, q) = f[n]
  BY DEF ConsumeAll
<1>3. \A t \in V, m \in Frames : C(t, m) \in V
  BY ConsumeTyped
<1> HIDE DEF n, V, C
<1>4. G \in [1 .. n -> [V -> V]] /\ \A i \in 1 .. n, t \in V : G[i][t] = C(t, q[i])
  BY <1>1, <1>3
<1>5. s \in V
  BY DEF V
<1> HIDE DEF G
<1>6. PICK h : Iterates(h, n, V, s, G)
  BY <1>1, <1>4, <1>5, RecursionExists
<1>7. h = Body(h)
  <2>1. h \in [0 .. n -> V] /\ h[0] = s
    BY <1>6 DEF Iterates
  <2>2. ASSUME NEW i \in 0 .. n, i # 0 PROVE h[i] = C(h[i - 1], q[i])
    <3>1. i \in 1 .. n /\ i - 1 \in 0 .. n
      BY <1>1, <2>2
    <3> QED BY <1>4, <1>6, <2>1, <3>1 DEF Iterates
  <2> QED BY <2>1, <2>2
<1>8. f = Body(f)
  <2> HIDE DEF Body
  <2> QED BY <1>7
<1> HIDE DEF f
<1>9. f[0] = s /\ f = [i \in 0 .. n |-> f[i]] /\ \A i \in 1 .. n : f[i] = C(f[i - 1], q[i])
  <2>1. 0 \in 0 .. n /\ \A i \in 1 .. n : i \in 0 .. n /\ i # 0
    BY <1>1
  <2>2. \A i \in 0 .. n : f[i] = IF i = 0 THEN s ELSE C(f[i - 1], q[i])
    BY <1>8
  <2>3. DOMAIN f = 0 .. n
    BY <1>8
  <2>4. f = [i \in 0 .. n |-> f[i]]
    BY <1>8, <2>3
  <2> QED BY <2>1, <2>2, <2>4
<1>10. Iterates(f, n, V, s, G)
  <2>1. \A i \in 1 .. n : f[i - 1] \in V => f[i] = G[i][f[i - 1]]
    BY <1>4, <1>9
  <2> QED BY <1>1, <1>4, <1>5, <1>9, <2>1, RecursionIs
<1>11. Runs(f, s, q)
  BY <1>9, <1>10 DEF Iterates, Runs, n, V, C
<1> QED BY <1>2, <1>11 DEF n

\* Messages that come next take the loop on to the state after them.
LEMMA RunOn ==
  ASSUME NEW s, NEW F \in Seq(Frames), NEW h, Runs(h, s, F),
         NEW a \in Nat, NEW q \in Seq(Frames), a + Len(q) <= Len(F),
         \A j \in 1 .. Len(q) : q[j] = F[a + j]
  PROVE  ConsumeAll(h[a], q) = h[a + Len(q)]
<1> DEFINE n == Len(q)
           N == Len(F)
<1>1. n \in Nat /\ N \in Nat /\ a + n <= N
  OBVIOUS
<1>2. h \in [0 .. N -> LoopStates] /\ \A i \in 1 .. N : h[i] = Consume(h[i - 1], F[i])
  BY DEF Runs
<1>3. h[a] \in LoopStates
  <2>1. a \in 0 .. N
    BY <1>1
  <2> HIDE DEF N
  <2> QED BY <1>2, <2>1
<1>4. PICK f : Runs(f, h[a], q) /\ ConsumeAll(h[a], q) = f[n]
  BY <1>3, ConsumeAllIs
<1>5. f[0] = h[a] /\ \A i \in 1 .. n : f[i] = Consume(f[i - 1], q[i])
  BY <1>4 DEF Runs
<1> HIDE DEF n, N
<1>6. \A j \in 0 .. n : f[j] = h[a + j]
  <2> DEFINE T == {j \in 0 .. n : f[j] # h[a + j]}
  <2> SUFFICES ASSUME T # {} PROVE FALSE
    OBVIOUS
  <2>1. T \in SUBSET Nat
    BY <1>1
  <2>2. PICK j \in T : \A k \in T : j <= k
    <3> HIDE DEF T
    <3> QED BY <2>1, LeastNatural
  <2>3. j # 0
    BY <1>5, <2>2
  <2>4. /\ j \in 1 .. n /\ j - 1 \in 0 .. n /\ a + j \in 1 .. N
        /\ (a + j) - 1 = a + (j - 1)
    BY <1>1, <2>2, <2>3
  <2>5. f[j - 1] = h[(a + j) - 1]
    <3>1. j - 1 \notin T
      BY <2>2, <2>4
    <3> QED BY <2>4, <3>1
  <2>6. f[j] = Consume(f[j - 1], q[j]) /\ q[j] = F[a + j]
    BY <1>5, <2>4 DEF n
  <2>7. h[a + j] = Consume(h[(a + j) - 1], F[a + j])
    BY <1>2, <2>4
  <2> QED BY <2>2, <2>5, <2>6, <2>7
<1>7. n \in 0 .. n
  BY <1>1
<1> QED BY <1>4, <1>6, <1>7 DEF n

\* A message leaves the filter of the receive loop exact.
LEMMA ConsumeFilters ==
  ASSUME Chosen, NEW i \in 1 .. Len(file), NEW s \in LoopStates, NEW w, NEW r,
         Filter(s.dir, w, r)
  PROVE  /\ Filter(Consume(s, file[i]).dir, w, r)
         /\ Consume(s, file[i]).dir.all = s.dir.all
<1> DEFINE m == file[i]
           e == feed(s.dir, m.locate, m.name)
<1>1. s.dir \in Directories /\ m \in Frames /\ i \in DOMAIN file
  BY FrameIs DEF LoopStates
<1>2. CASE IsDirectory(m)
  <2>1. Consume(s, m).dir = e
    BY <1>2 DEF Consume, LoopStates
  <2>2. m.locate \in Locates /\ m.name \in STRING
    BY <1>1 DEF Frames
  <2>3. Named(m.locate, m.name)
    BY <1>1, <1>2 DEF Named
  <2> HIDE DEF m
  <2>4. Filter(e, w, r)
    BY <2>2, <2>3, FeedKeeps
  <2>5. e.all = s.dir.all
    <3> DEFINE d == s.dir
               l == m.locate
               n == m.name
    <3>1. d \in Directories /\ l \in Locates /\ n \in STRING
      BY <1>1, <2>2
    <3> HIDE DEF d, l, n
    <3>2. feed(d, l, n).all = d.all
      BY <3>1, FeedIs
    <3> QED BY <3>2 DEF d, l, n
  <2> HIDE DEF e
  <2> QED BY <2>1, <2>4, <2>5 DEF m
<1>3. CASE ~ IsDirectory(m)
  <2>1. Consume(s, m).dir = s.dir
    BY <1>3 DEF Consume, LoopStates
  <2> QED BY <2>1
<1> QED BY <1>2, <1>3

\* The filter is exact, and what is let through regardless stays.
Exact(d, w, r, a) == Filter(d, w, r) /\ d.all = a

\* So do all of them.
LEMMA LoopFilters ==
  ASSUME Chosen, NEW s, s \in LoopStates, NEW w, NEW r, NEW a, Exact(s.dir, w, r, a),
         NEW h, Runs(h, s, file), NEW n \in 0 .. Len(file)
  PROVE  Exact(h[n].dir, w, r, a)
<1> DEFINE N == Len(file)
           T == {i \in 0 .. N : ~ Exact(h[i].dir, w, r, a)}
<1> SUFFICES ASSUME n \in T PROVE FALSE
  OBVIOUS
<1>1. /\ N \in Nat /\ h \in [0 .. N -> LoopStates] /\ h[0] = s
      /\ \A i \in 1 .. N : h[i] = Consume(h[i - 1], file[i])
  BY DEF Chosen, Runs
<1>2. T \in SUBSET Nat
  BY <1>1
<1>3. PICK i \in T : \A k \in T : i <= k
  <2> HIDE DEF T
  <2> QED BY <1>2, LeastNatural
<1>4. i # 0
  BY <1>1, <1>3
<1>5. i \in 1 .. N /\ i - 1 \in 0 .. N
  BY <1>1, <1>3, <1>4
<1>6. Exact(h[i - 1].dir, w, r, a)
  <2>1. i - 1 \notin T
    BY <1>3, <1>5
  <2> QED BY <1>5, <2>1
<1>7. h[i] = Consume(h[i - 1], file[i]) /\ h[i - 1] \in LoopStates
  BY <1>1, <1>5
<1>8. Exact(h[i].dir, w, r, a)
  BY <1>5, <1>6, <1>7, ConsumeFilters DEF Exact
<1> QED BY <1>3, <1>8

----------------------------------------------------------------------------
(* What the datagrams hold *)

\* Neighbours in the file.
Batch(b) == Len(b) > 0 /\ b[1] > 0 /\ \A j \in 1 .. Len(b) : b[j] = b[1] + j - 1

\* The message after the last one of the datagram.
After(d) == d.msgs[1] + Len(d.msgs)

\* Datagrams of neighbours below u, each after those before it.
Sorted(n, u) ==
  /\ n \in Seq([seq : Int, msgs : Seq(Nat)])
  /\ \A i \in DOMAIN n : Batch(n[i].msgs) /\ After(n[i]) <= u
  /\ \A i, k \in DOMAIN n : i < k => After(n[i]) <= n[k].msgs[1]

\* A datagram holds neighbours, as the buffer does, and each comes after those
\* before it, whatever was lost between.
Batches ==
  /\ next_seq \in Nat /\ Len(packet) < next_msg
  /\ \A j \in DOMAIN packet : packet[j] = next_msg - Len(packet) + j - 1
  /\ Sorted(net, next_msg - Len(packet))

\* When every message is in a datagram, a datagram begins where the one before
\* it ends.
LEMMA NoGaps ==
  ASSUME Chosen, Serving, Batches, AllSent
  PROVE  \A i \in DOMAIN net :
           /\ net[i].msgs[1] = IF i = 1 THEN 1 ELSE After(net[i - 1])
           /\ net[i].msgs[1] \in Nat /\ Len(net[i].msgs) \in Nat \ {0}
           /\ After(net[i]) <= MessageCount + 1
           /\ i = Len(net) => After(net[i]) = MessageCount + 1
<1> DEFINE M == MessageCount
           a(i) == net[i].msgs[1]
           L(i) == Len(net[i].msgs)
           N == Len(net)
<1>1. /\ M \in Nat /\ next_msg \in Nat /\ next_msg <= M + 1 /\ Len(packet) \in Nat
      /\ DOMAIN net = 1 .. N /\ N \in Nat
  BY MessageCountIs DEF Chosen, Serving, Batches, Sorted
<1>2. ASSUME NEW i \in 1 .. N
      PROVE  /\ a(i) \in Nat \ {0} /\ L(i) \in Nat \ {0} /\ After(net[i]) = a(i) + L(i)
             /\ a(i) + L(i) <= M + 1
             /\ \A j \in DOMAIN net[i].msgs : a(i) <= net[i].msgs[j] /\ net[i].msgs[j] < a(i) + L(i)
  <2>1. net[i].msgs \in Seq(Nat) /\ Batch(net[i].msgs) /\ After(net[i]) <= next_msg - Len(packet)
    <3>1. i \in DOMAIN net
      BY <1>1
    <3>2. net \in Seq([seq : Int, msgs : Seq(Nat)])
      BY DEF Batches, Sorted
    <3>3. net[i] \in [seq : Int, msgs : Seq(Nat)]
      <4> DEFINE D == [seq : Int, msgs : Seq(Nat)]
      <4> HIDE DEF D
      <4>1. net \in Seq(D)
        BY <3>2 DEF D
      <4>2. net[i] \in D
        BY <3>1, <4>1
      <4> QED BY <4>2 DEF D
    <3>4. Batch(net[i].msgs) /\ After(net[i]) <= next_msg - Len(packet)
      BY <3>1 DEF Batches, Sorted
    <3> QED BY <3>3, <3>4
  <2> DEFINE b == net[i].msgs
  <2>2. /\ b \in Seq(Nat) /\ Len(b) \in Nat \ {0} /\ b[1] \in Nat \ {0} /\ DOMAIN b = 1 .. Len(b)
        /\ \A j \in 1 .. Len(b) : b[j] = b[1] + j - 1
    BY <2>1 DEF Batch
  <2>3. After(net[i]) = b[1] + Len(b)
    BY DEF After
  <2> HIDE DEF b
  <2>4. \A j \in DOMAIN b : b[1] <= b[j] /\ b[j] < b[1] + Len(b)
    BY <2>2
  <2>5. b[1] + Len(b) <= M + 1
    BY <1>1, <2>1, <2>2, <2>3
  <2> QED BY <2>2, <2>3, <2>4, <2>5 DEF b
<1>3. \A i, k \in 1 .. N : i < k => a(i) + L(i) <= a(k)
  BY <1>1, <1>2 DEF Batches, Sorted
<1>4. \A n \in 1 .. M : \E i \in 1 .. N : a(i) <= n /\ n < a(i) + L(i)
  <2> SUFFICES ASSUME NEW n \in 1 .. M PROVE \E i \in 1 .. N : a(i) <= n /\ n < a(i) + L(i)
    OBVIOUS
  <2>1. PICK i \in DOMAIN net : \E j \in DOMAIN net[i].msgs : net[i].msgs[j] = n
    BY DEF AllSent
  <2> QED BY <1>1, <1>2, <2>1
<1>5. ASSUME NEW i \in 1 .. N
      PROVE  a(i) = IF i = 1 THEN 1 ELSE a(i - 1) + L(i - 1)
  <2> HIDE DEF a, L
  <2> DEFINE p == IF i = 1 THEN 1 ELSE a(i - 1) + L(i - 1)
  <2>1. p \in Nat \ {0} /\ p <= a(i)
    <3>1. CASE i = 1
      BY <1>2, <3>1
    <3>2. CASE i # 1
      <4>1. i - 1 \in 1 .. N /\ i - 1 < i
        BY <1>1, <3>2
      <4>2. a(i - 1) + L(i - 1) <= a(i)
        BY <1>3, <4>1
      <4>3. a(i - 1) \in Nat \ {0} /\ L(i - 1) \in Nat
        BY <1>2, <4>1
      <4> QED BY <3>2, <4>2, <4>3
    <3> QED BY <3>1, <3>2
  <2>2. p \in 1 .. M
    BY <1>1, <1>2, <2>1
  <2>3. PICK k \in 1 .. N : a(k) <= p /\ p < a(k) + L(k)
    BY <1>4, <2>2
  <2>4. ~ (k < i)
    <3> SUFFICES ASSUME k < i PROVE FALSE
      OBVIOUS
    <3>1. i # 1 /\ i - 1 \in 1 .. N /\ p = a(i - 1) + L(i - 1)
      BY <1>1
    <3>2. a(k) + L(k) <= a(i - 1) + L(i - 1)
      <4>1. CASE k = i - 1
        BY <1>2, <4>1
      <4>2. CASE k < i - 1
        <5>1. a(k) + L(k) <= a(i - 1)
          BY <1>3, <3>1, <4>2
        <5> QED BY <1>2, <3>1, <5>1
      <4> QED BY <1>1, <4>1, <4>2
    <3> HIDE DEF p
    <3> QED BY <1>2, <2>1, <2>3, <3>1, <3>2
  <2>5. ~ (k > i)
    <3> SUFFICES ASSUME k > i PROVE FALSE
      OBVIOUS
    <3>1. a(i) + L(i) <= a(k)
      BY <1>1, <1>3
    <3> HIDE DEF p
    <3> QED BY <1>2, <2>1, <2>3, <3>1
  <2>6. k = i
    BY <1>1, <2>4, <2>5
  <2> HIDE DEF p
  <2>7. a(i) = p
    BY <1>2, <2>1, <2>3, <2>6
  <2> QED BY <2>7 DEF p
<1>6. ASSUME NEW i \in 1 .. N, i = N PROVE a(i) + L(i) = M + 1
  <2> HIDE DEF a, L, M, N
  <2>1. M \in 1 .. M
    BY <1>1, <1>2
  <2>2. PICK k \in 1 .. N : a(k) <= M /\ M < a(k) + L(k)
    BY <1>4, <2>1
  <2>3. CASE k = i
    <3>1. a(i) \in Nat /\ L(i) \in Nat /\ a(i) + L(i) <= M + 1
      BY <1>2
    <3>2. M < a(i) + L(i) /\ M \in Nat
      BY <1>1, <2>2, <2>3
    <3> QED BY <3>1, <3>2
  <2>4. CASE k < i
    <3>1. a(k) + L(k) <= a(i)
      BY <1>3, <2>4
    <3>2. a(i) \in Nat /\ L(i) \in Nat \ {0} /\ a(i) + L(i) <= M + 1
      BY <1>2
    <3>3. a(k) \in Nat /\ L(k) \in Nat
      BY <1>2
    <3> QED BY <1>1, <2>2, <3>1, <3>2, <3>3
  <2>5. k = i \/ k < i
    <3>1. N \in Nat /\ k \in 1 .. N
      BY <1>1
    <3> QED BY <1>6, <3>1
  <2> QED BY <2>3, <2>4, <2>5
<1>7. ASSUME NEW i \in 1 .. N, i # 1 PROVE After(net[i - 1]) = a(i - 1) + L(i - 1)
  <2>1. i - 1 \in 1 .. N
    BY <1>1, <1>7
  <2> QED BY <1>2, <2>1
<1> QED BY <1>1, <1>2, <1>5, <1>6, <1>7

\* When every message is in a datagram, the receive loop has gone through the
\* file.
LEMMA ReceivedIs ==
  ASSUME Chosen, Serving, Batches, AllSent, NEW h,
         Runs(h, [dir |-> early, applied |-> << >>], file)
  PROVE  Received = h[MessageCount]
<1> DEFINE M == MessageCount
           N == Len(net)
           V == LoopStates
           s == [dir |-> early, applied |-> << >>]
           q(i) == [j \in DOMAIN net[i].msgs |-> file[net[i].msgs[j]]]
           C(t, i) == ConsumeAll(t, q(i))
           G == [i \in 1 .. N |-> [t \in V |-> C(t, i)]]
           Body(g) == [i \in 0 .. N |-> IF i = 0 THEN s ELSE C(g[i - 1], i)]
           f == CHOOSE g : g = Body(g)
           e(i) == IF i = 0 THEN 0 ELSE After(net[i]) - 1
<1>1. /\ N \in Nat /\ M \in 0 .. Len(file) /\ Len(file) \in Nat /\ file \in Seq(Frames)
      /\ DOMAIN net = 1 .. N
  BY MessageCountIs DEF Chosen, Batches, Sorted
<1>2. h \in [0 .. Len(file) -> V] /\ h[0] = s
  BY DEF Runs
<1>3. s \in V
  <2>1. 0 \in 0 .. Len(file)
    BY <1>1
  <2> HIDE DEF s, V
  <2> QED BY <1>2, <2>1
<1>4. Received = f[N]
  BY DEF Received
<1>5. ASSUME NEW i \in 1 .. N
      PROVE  /\ q(i) \in Seq(Frames) /\ e(i - 1) \in Nat /\ e(i) = e(i - 1) + Len(q(i))
             /\ e(i) <= Len(file) /\ \A j \in 1 .. Len(q(i)) : q(i)[j] = file[e(i - 1) + j]
             /\ i = N => e(i) = M
  <2> DEFINE b == net[i].msgs
             c == e(i - 1)
  <2>1. /\ b[1] = IF i = 1 THEN 1 ELSE After(net[i - 1])
        /\ b[1] \in Nat /\ Len(b) \in Nat \ {0} /\ After(net[i]) <= M + 1
        /\ i = N => After(net[i]) = M + 1
    <3>1. i \in DOMAIN net
      BY <1>1
    <3> QED BY <3>1, NoGaps
  <2>2. Batch(b) /\ DOMAIN b = 1 .. Len(b)
    <3>1. i \in DOMAIN net
      BY <1>1
    <3> DEFINE D == [seq : Int, msgs : Seq(Nat)]
    <3>2. net \in Seq(D)
      BY DEF Batches, Sorted
    <3> HIDE DEF D
    <3>3. net[i] \in D
      BY <3>1, <3>2
    <3>4. b \in Seq(Nat)
      BY <3>3 DEF D
    <3>5. Batch(b)
      BY <3>1 DEF Batches, Sorted
    <3> QED BY <3>4, <3>5
  <2>3. c = b[1] - 1
    <3>1. CASE i = 1
      BY <2>1, <3>1
    <3>2. CASE i # 1
      <4>1. i - 1 # 0
        BY <3>2
      <4> QED BY <2>1, <3>2, <4>1
    <3> QED BY <3>1, <3>2
  <2>4. After(net[i]) = b[1] + Len(b)
    BY DEF After
  <2>5. i # 0
    BY <1>1
  <2>6. e(i) = After(net[i]) - 1
    BY <2>5
  <2>7. b[1] \in Nat \ {0} /\ \A j \in 1 .. Len(b) : b[j] = b[1] + j - 1
    BY <2>1, <2>2 DEF Batch
  <2>8. M \in Nat /\ Len(file) \in Nat /\ M <= Len(file)
    <3> HIDE DEF M
    <3> QED BY <1>1
  <2> HIDE DEF b, c, e, M
  <2>9. /\ c \in Nat /\ e(i) = c + Len(b) /\ e(i) <= M
        /\ i = N => e(i) = M
    <3> DEFINE x == b[1]
               y == Len(b)
               z == After(net[i])
    <3>1. /\ x \in Nat \ {0} /\ y \in Nat \ {0} /\ z = x + y /\ z <= M + 1 /\ c = x - 1
          /\ e(i) = z - 1 /\ (i = N => z = M + 1)
      BY <2>1, <2>3, <2>4, <2>6, <2>7
    <3>2. M \in Nat
      BY <1>1
    <3> HIDE DEF x, y, z
    <3>3. c \in Nat /\ e(i) = c + y /\ e(i) <= M /\ (i = N => e(i) = M)
      BY <3>1, <3>2
    <3> QED BY <3>3 DEF y
  <2>10. \A j \in 1 .. Len(b) : b[j] = c + j /\ c + j \in 1 .. Len(file)
    <3>1. \A j \in 1 .. Len(b) : b[1] + j - 1 = c + j /\ c + j \in 1 .. Len(file)
      <4> DEFINE x == b[1]
                 y == Len(b)
                 z == Len(file)
      <4>1. x \in Nat \ {0} /\ y \in Nat /\ c = x - 1
        BY <2>1, <2>3, <2>7
      <4>2. e(i) = c + y /\ e(i) <= M
        BY <2>9
      <4>3. M \in Nat /\ M <= z /\ z \in Nat
        BY <2>8
      <4> HIDE DEF x, y, z
      <4>4. \A j \in 1 .. y : x + j - 1 = c + j /\ c + j \in 1 .. z
        BY <4>1, <4>2, <4>3
      <4> QED BY <4>4 DEF x, y, z
    <3> QED BY <2>7, <3>1
  <2>11. q(i) = [j \in 1 .. Len(b) |-> file[c + j]]
    BY <2>2, <2>10 DEF b
  <2>12. \A j \in 1 .. Len(b) : file[c + j] \in Frames
    BY <1>1, <2>10
  <2> HIDE DEF q
  <2>13. /\ q(i) \in Seq(Frames) /\ Len(q(i)) = Len(b)
         /\ \A j \in 1 .. Len(b) : q(i)[j] = file[c + j]
    BY <2>1, <2>11, <2>12
  <2>14. e(i) <= Len(file)
    <3>1. Len(b) \in Nat
      BY <2>1
    <3> QED BY <2>9, <2>8, <3>1
  <2> QED BY <2>9, <2>13, <2>14 DEF c
<1>6. e(0) = 0
  OBVIOUS
<1> HIDE DEF e, q, s, M
<1>7. \A t \in V, i \in 1 .. N : C(t, i) \in V
  <2> SUFFICES ASSUME NEW t \in V, NEW i \in 1 .. N PROVE C(t, i) \in V
    OBVIOUS
  <2>1. q(i) \in Seq(Frames)
    BY <1>5
  <2>2. PICK g : Runs(g, t, q(i)) /\ ConsumeAll(t, q(i)) = g[Len(q(i))]
    BY <2>1, ConsumeAllIs
  <2>3. Len(q(i)) \in 0 .. Len(q(i))
    BY <2>1
  <2> QED BY <2>2, <2>3 DEF Runs
<1> HIDE DEF N, V, C
<1>8. G \in [1 .. N -> [V -> V]] /\ \A i \in 1 .. N, t \in V : G[i][t] = C(t, i)
  BY <1>7
<1> HIDE DEF G
<1>9. PICK k : Iterates(k, N, V, s, G)
  BY <1>1, <1>3, <1>8, RecursionExists
<1>10. k = Body(k)
  <2>1. k \in [0 .. N -> V] /\ k[0] = s
    BY <1>9 DEF Iterates
  <2>2. ASSUME NEW i \in 0 .. N, i # 0 PROVE k[i] = C(k[i - 1], i)
    <3>1. i \in 1 .. N /\ i - 1 \in 0 .. N
      BY <1>1, <2>2
    <3> QED BY <1>8, <1>9, <2>1, <3>1 DEF Iterates
  <2> QED BY <2>1, <2>2
<1>11. f = Body(f)
  <2> HIDE DEF Body
  <2> QED BY <1>10
<1> HIDE DEF f
<1>12. f[0] = s /\ \A i \in 1 .. N : f[i] = C(f[i - 1], i)
  <2>1. 0 \in 0 .. N /\ \A i \in 1 .. N : i \in 0 .. N /\ i # 0
    BY <1>1
  <2>2. \A i \in 0 .. N : f[i] = IF i = 0 THEN s ELSE C(f[i - 1], i)
    BY <1>11
  <2> QED BY <2>1, <2>2
<1>13. \A i \in 0 .. N : f[i] = h[e(i)]
  <2> DEFINE T == {i \in 0 .. N : f[i] # h[e(i)]}
  <2> SUFFICES ASSUME T # {} PROVE FALSE
    OBVIOUS
  <2>1. T \in SUBSET Nat
    BY <1>1
  <2>2. PICK i \in T : \A m \in T : i <= m
    <3> HIDE DEF T
    <3> QED BY <2>1, LeastNatural
  <2>3. i # 0
    BY <1>2, <1>6, <1>12, <2>2
  <2>4. i \in 1 .. N /\ i - 1 \in 0 .. N
    BY <1>1, <2>2, <2>3
  <2>5. f[i - 1] = h[e(i - 1)]
    <3>1. i - 1 \notin T
      BY <2>2, <2>4
    <3> QED BY <2>4, <3>1
  <2>6. f[i] = ConsumeAll(h[e(i - 1)], q(i))
    BY <1>12, <2>4, <2>5 DEF C
  <2>7. /\ q(i) \in Seq(Frames) /\ e(i - 1) \in Nat /\ e(i) = e(i - 1) + Len(q(i))
        /\ e(i) <= Len(file) /\ \A j \in 1 .. Len(q(i)) : q(i)[j] = file[e(i - 1) + j]
    BY <1>5, <2>4
  <2>8. f[i] = h[e(i)]
    <3> DEFINE a == e(i - 1)
               m == q(i)
    <3>1. a + Len(m) <= Len(file) /\ m \in Seq(Frames) /\ a \in Nat
          /\ \A j \in 1 .. Len(m) : m[j] = file[a + j]
      BY <2>7
    <3>2. Runs(h, s, file)
      BY DEF s
    <3> HIDE DEF a, m
    <3>3. ConsumeAll(h[a], m) = h[a + Len(m)]
      BY <1>1, <3>1, <3>2, RunOn
    <3> QED BY <2>6, <2>7, <3>3 DEF a, m
  <2> QED BY <2>2, <2>8
<1>14. e(N) = M
  <2>1. CASE N = 0
    <3>1. ~ (M \in 1 .. M)
      BY <1>1, <2>1 DEF AllSent, M
    <3> QED BY <1>1, <1>6, <2>1, <3>1
  <2>2. CASE N # 0
    <3>1. N \in 1 .. N
      BY <1>1, <2>2
    <3> QED BY <1>5, <3>1
  <2> QED BY <2>1, <2>2
<1>15. N \in 0 .. N
  BY <1>1
<1> QED BY <1>4, <1>13, <1>14, <1>15 DEF M

\* A later bound.
LEMMA SortedLater ==
  ASSUME NEW n, NEW u \in Int, NEW v \in Int, u <= v, Sorted(n, u)
  PROVE  Sorted(n, v)
<1>1. ASSUME NEW i \in DOMAIN n PROVE After(n[i]) \in Int
  <2> DEFINE D == [seq : Int, msgs : Seq(Nat)]
  <2>1. n \in Seq(D)
    BY DEF Sorted
  <2> HIDE DEF D
  <2>2. n[i] \in D
    BY <2>1
  <2>3. n[i].msgs \in Seq(Nat) /\ Batch(n[i].msgs)
    BY <2>2 DEF D, Sorted
  <2>4. n[i].msgs[1] \in Nat /\ Len(n[i].msgs) \in Nat
    BY <2>3 DEF Batch
  <2> QED BY <2>4 DEF After
<1>2. \A i \in DOMAIN n : After(n[i]) <= u
  BY DEF Sorted
<1>3. \A i \in DOMAIN n : After(n[i]) <= v
  BY <1>1, <1>2
<1> QED BY <1>3 DEF Sorted

\* A flush sends the buffer after all datagrams before it, or nothing.
LEMMA FlushSorted ==
  ASSUME Serving, Batches, NEW ok
  PROVE  Sorted(Flushed(ok), next_msg)
<1> DEFINE L == Len(packet)
           d == [seq |-> next_seq - L, msgs |-> packet]
           D == [seq : Int, msgs : Seq(Nat)]
<1>1. /\ next_msg \in Nat \ {0} /\ packet \in Seq(Nat) /\ L \in Nat /\ next_seq \in Nat
      /\ L < next_msg /\ DOMAIN packet = 1 .. L
      /\ \A j \in DOMAIN packet : packet[j] = next_msg - L + j - 1
      /\ Sorted(net, next_msg - L)
  BY DEF Serving, Batches
<1>2. Sorted(net, next_msg)
  <2>1. next_msg - L \in Int /\ next_msg \in Int /\ next_msg - L <= next_msg
    BY <1>1
  <2> QED BY <1>1, <2>1, SortedLater
<1>3. CASE ~ (ok /\ packet # << >>)
  BY <1>2, <1>3 DEF Flushed
<1>4. CASE ok /\ packet # << >>
  <2>1. Flushed(ok) = Append(net, d)
    BY <1>4 DEF Flushed
  <2>2. d \in D /\ d.msgs = packet
    BY <1>1
  <2>3. L > 0 /\ 1 \in DOMAIN packet
    BY <1>1, <1>4
  <2>4. packet[1] = next_msg - L
    BY <1>1, <2>3
  <2> HIDE DEF L
  <2>5. \A j \in 1 .. L : packet[j] = packet[1] + j - 1
    BY <1>1, <2>4
  <2>6. packet[1] > 0 /\ packet[1] + L = next_msg
    BY <1>1, <2>4
  <2>7. Batch(packet) /\ After(d) = next_msg /\ d.msgs[1] = next_msg - L
    BY <2>2, <2>3, <2>4, <2>5, <2>6 DEF Batch, After, L
  <2> HIDE DEF d, D
  <2>8. net \in Seq(D) /\ Append(net, d) \in Seq(D)
    BY <1>1, <2>2 DEF Sorted, D
  <2> DEFINE n == Append(net, d)
             N == Len(net)
  <2>9. /\ N \in Nat /\ DOMAIN net = 1 .. N /\ DOMAIN n = 1 .. N + 1 /\ n[N + 1] = d
        /\ \A i \in 1 .. N : n[i] = net[i]
    BY <2>2, <2>8
  <2> HIDE DEF n, N
  <2>10. \A i \in 1 .. N + 1 : i \in 1 .. N \/ i = N + 1
    BY <2>9
  <2>11. ASSUME NEW i \in DOMAIN n PROVE Batch(n[i].msgs) /\ After(n[i]) <= next_msg
    <3>1. CASE i \in 1 .. N
      BY <1>2, <2>9, <3>1 DEF Sorted
    <3>2. CASE i = N + 1
      <4>1. next_msg <= next_msg
        BY <1>1
      <4> QED BY <2>2, <2>7, <2>9, <3>2, <4>1
    <3> QED BY <2>9, <2>10, <3>1, <3>2
  <2>12. ASSUME NEW i \in DOMAIN n, NEW k \in DOMAIN n, i < k
         PROVE  After(n[i]) <= n[k].msgs[1]
    <3>1. i \in 1 .. N
      BY <2>9, <2>12
    <3>2. CASE k \in 1 .. N
      BY <1>1, <2>9, <2>12, <3>1, <3>2 DEF Sorted
    <3>3. CASE k = N + 1
      <4>1. After(net[i]) <= next_msg - L
        BY <1>1, <2>9, <3>1 DEF Sorted
      <4> QED BY <2>7, <2>9, <3>1, <3>3, <4>1
    <3> QED BY <2>9, <2>10, <3>2, <3>3
  <2>13. n \in Seq(D)
    BY <2>8 DEF n
  <2>14. Sorted(n, next_msg)
    BY <2>11, <2>12, <2>13 DEF Sorted, D
  <2> QED BY <2>1, <2>14 DEF n
<1> QED BY <1>3, <1>4

\* Every step of the server keeps datagrams and buffer in order.
LEMMA NextBatches ==
  ASSUME Chosen, Serving, Batches, [Next]_vars
  PROVE  Batches'
<1>1. /\ next_msg \in Nat \ {0} /\ packet \in Seq(Nat) /\ Len(packet) \in Nat /\ next_seq \in Nat
      /\ Len(packet) < next_msg /\ DOMAIN packet = 1 .. Len(packet)
      /\ \A j \in DOMAIN packet : packet[j] = next_msg - Len(packet) + j - 1
      /\ Sorted(net, next_msg - Len(packet))
  BY DEF Serving, Batches
<1>2. ASSUME UNCHANGED <<next_msg, packet, next_seq, net>> PROVE Batches'
  BY <1>2 DEF Batches, Sorted, Batch, After
<1>3. ASSUME NEW ok, net' = Flushed(ok), packet' = << >>, next_seq' \in Nat,
             next_msg' \in Nat \ {0}, next_msg <= next_msg'
      PROVE  Batches'
  <2>1. Sorted(net', next_msg')
    BY <1>1, <1>3, FlushSorted, SortedLater
  <2>2. packet' = << >> /\ next_seq' \in Nat /\ next_msg' \in Nat \ {0}
    BY <1>3
  <2> DEFINE e == packet'
             m == next_msg'
  <2>3. Len(e) = 0 /\ DOMAIN e = {}
    BY <2>2
  <2>4. m \in Nat \ {0}
    BY <2>2
  <2> HIDE DEF e, m
  <2>5. m - Len(e) = m /\ Len(e) < m
    BY <2>3, <2>4
  <2>6. Sorted(net', m - Len(e))
    BY <2>1, <2>5 DEF m
  <2> QED BY <2>2, <2>3, <2>5, <2>6 DEF Batches, Sorted, Batch, After, e, m
<1>4. CASE Send
  <2>1. /\ packet' = Append(packet, next_msg) /\ next_seq' = next_seq + 1
        /\ next_msg' = next_msg + 1 /\ net' = net
    BY <1>4 DEF Send
  <2> DEFINE L == Len(packet)
  <2>2. /\ Len(packet') = L + 1 /\ DOMAIN packet' = 1 .. L + 1
        /\ packet'[L + 1] = next_msg /\ \A j \in 1 .. L : packet'[j] = packet[j]
    BY <1>1, <2>1
  <2> HIDE DEF L
  <2>3. /\ L \in Nat /\ L < next_msg /\ \A j \in 1 .. L : packet[j] = next_msg - L + j - 1
        /\ Sorted(net, next_msg - L)
    BY <1>1 DEF L
  <2>4. next_msg' - Len(packet') = next_msg - L
    BY <1>1, <2>1, <2>2, <2>3
  <2>5. ASSUME NEW j \in 1 .. L + 1 PROVE packet'[j] = next_msg - L + j - 1
    <3>1. CASE j \in 1 .. L
      BY <2>2, <2>3, <3>1
    <3>2. CASE j = L + 1
      BY <1>1, <2>2, <2>3, <3>2
    <3> QED BY <2>3, <3>1, <3>2
  <2>6. Sorted(net', next_msg' - Len(packet'))
    BY <2>1, <2>3, <2>4
  <2>7. \A j \in DOMAIN packet' : packet'[j] = next_msg' - Len(packet') + j - 1
    BY <2>2, <2>4, <2>5
  <2>8. next_seq' \in Nat /\ Len(packet') < next_msg'
    BY <1>1, <2>1, <2>2, <2>3
  <2> QED BY <2>6, <2>7, <2>8 DEF Batches, Sorted, Batch, After
<1>5. ASSUME NEW ok \in Outcomes, SendAfterFlush(ok) PROVE Batches'
  <2>1. /\ net' = Flushed(ok) /\ packet' = IF ok THEN <<next_msg>> ELSE << >>
        /\ next_seq' = IF ok THEN next_seq + 1 ELSE next_seq
        /\ next_msg' = next_msg + 1
    BY <1>5 DEF SendAfterFlush
  <2>2. CASE ~ ok
    <3>1. /\ packet' = << >> /\ next_seq' \in Nat /\ next_msg' \in Nat \ {0}
          /\ next_msg <= next_msg'
      BY <1>1, <2>1, <2>2
    <3> QED BY <1>3, <2>1, <3>1
  <2>3. CASE ok
    <3>1. packet' = <<next_msg>> /\ next_seq' \in Nat
      BY <1>1, <2>1, <2>3
    <3>2. Len(packet') = 1 /\ DOMAIN packet' = {1} /\ packet'[1] = next_msg
      BY <3>1
    <3>3. next_msg' - Len(packet') = next_msg /\ Len(packet') < next_msg'
      BY <1>1, <2>1, <3>2
    <3>4. Sorted(net', next_msg' - Len(packet'))
      BY <2>1, <3>3, FlushSorted
    <3>5. \A j \in DOMAIN packet' : packet'[j] = next_msg' - Len(packet') + j - 1
      BY <1>1, <3>2, <3>3
    <3> QED BY <3>1, <3>3, <3>4, <3>5 DEF Batches, Sorted, Batch, After
  <2> QED BY <2>2, <2>3
<1>6. ASSUME NEW ok \in Outcomes, Wait(ok) \/ EndOfReplay(ok) PROVE Batches'
  <2>1. \/ UNCHANGED <<next_msg, packet, next_seq, net>>
        \/ net' = Flushed(ok) /\ packet' = << >> /\ UNCHANGED <<next_seq, next_msg>>
    BY <1>6 DEF Wait, EndOfReplay
  <2>2. next_msg <= next_msg
    BY <1>1
  <2> QED BY <1>1, <1>2, <1>3, <2>1, <2>2
<1>7. CASE NoWait \/ DivideFault \/ ServerStall \/ UNCHANGED serverVars
  BY <1>2, <1>7 DEF NoWait, DivideFault, ServerStall, serverVars
<1> QED BY <1>4, <1>5, <1>6, <1>7 DEF Next, vars, Replay, Serve, Stopped, ServerNext

\* The buffer and the network are empty before the server begins.
LEMMA InitBatches == Init => Batches
<1> SUFFICES ASSUME Init PROVE Batches
  OBVIOUS
<1>1. next_seq = 1 /\ next_msg = 1 /\ packet = << >> /\ net = << >>
  BY DEF Init, ServerInit
<1>2. Len(packet) = 0 /\ DOMAIN packet = {} /\ DOMAIN net = {}
  BY <1>1
<1>3. net \in Seq([seq : Int, msgs : Seq(Nat)])
  BY <1>1
<1>4. next_seq \in Nat /\ Len(packet) < next_msg
  BY <1>1, <1>2
<1> QED BY <1>2, <1>3, <1>4 DEF Batches, Sorted

----------------------------------------------------------------------------
(* The replay and the receive loop, side by side *)

\* The names that were waiting when the replay began.
EarlyNames == {early.pending[i] : i \in DOMAIN early.pending}

\* Where the receive loop begins, from the subscriptions d.
Start(d) == [dir |-> d, applied |-> << >>]

\* It after 0, 1, 2, ... messages of the file.
ReadFile(d) == CHOOSE h : Runs(h, Start(d), file)

\* Replay and receive loop are to agree on everything.
Alike == cfg.directory /\ cfg.limit = 0 /\ AllEarly

\* Nothing is named before the file is opened.
Fresh ==
  state = "closed" =>
    /\ at = 1 /\ calls = << >> /\ \A l \in Locates : dir.symbols[l] = Unknown

\* As far as the replay has read, it has named and handed out what the receive
\* loop would.
Follows ==
  state # "closed" =>
    /\ \E r : Filter(early, EarlyNames, r)
    /\ EarlyNames \subseteq wanted /\ (early.all => dir.all)
    /\ Alike => /\ ReadFile(early)[at - 1].dir.symbols = dir.symbols
                /\ ReadFile(early)[at - 1].applied = calls

\* It reads whole frames, all of them unless the limit stops it, and the server
\* begins after it.
Through ==
  /\ \A i \in 1 .. at - 1 : Complete(i)
  /\ state = "done" /\ cfg.limit = 0 => ~ Complete(at)
  /\ turn = "done" => state = "done"

\* The receive loop can go through the file from where it begins.
LEMMA ReadFileIs ==
  ASSUME Chosen, NEW e, NEW w, NEW r, Filter(e, w, r)
  PROVE  /\ Start(e) \in LoopStates /\ Start(e).dir = e /\ Start(e).applied = << >>
         /\ Runs(ReadFile(e), Start(e), file)
         /\ \A i \in 0 .. Len(file) :
              /\ ReadFile(e)[i] \in LoopStates
              /\ Filter(ReadFile(e)[i].dir, w, r) /\ ReadFile(e)[i].dir.all = e.all
<1>1. e \in Directories /\ file \in Seq(Frames)
  BY DEF Filter, Chosen
<1>2. Start(e) \in LoopStates /\ Start(e).dir = e /\ Start(e).applied = << >>
  BY <1>1 DEF Start, LoopStates
<1>3. PICK g : Runs(g, Start(e), file)
  BY <1>1, <1>2, ConsumeAllIs
<1>4. Runs(ReadFile(e), Start(e), file)
  BY <1>3 DEF ReadFile
<1>5. \A i \in 0 .. Len(file) : Filter(ReadFile(e)[i].dir, w, r) /\ ReadFile(e)[i].dir.all = e.all
  <2> DEFINE h == ReadFile(e)
             s == Start(e)
  <2>1. Filter(s.dir, w, r) /\ s.dir.all = e.all
    BY <1>2
  <2>2. s \in LoopStates
    BY <1>2
  <2>3. Runs(h, s, file)
    BY <1>4
  <2> HIDE DEF h, s
  <2> DEFINE a == e.all
  <2> HIDE DEF a
  <2>4. Exact(s.dir, w, r, a)
    BY <2>1 DEF a, Exact
  <2>5. ASSUME NEW i \in 0 .. Len(file) PROVE Exact(h[i].dir, w, r, a)
    BY <2>2, <2>3, <2>4, LoopFilters
  <2> QED BY <2>5 DEF h, a, Exact
<1>6. \A i \in 0 .. Len(file) : ReadFile(e)[i] \in LoopStates
  BY <1>4 DEF Runs
<1> QED BY <1>2, <1>4, <1>5, <1>6

\* When no subscription came late, the names asked for are the early ones.
LEMMA EarlyIsAll ==
  ASSUME AllEarly, EarlyNames \subseteq wanted, early \in Directories
  PROVE  wanted = EarlyNames
<1>1. early.pending \in Seq(Names)
  BY DEF Directories
<1>2. ASSUME NEW n \in wanted PROVE n \in EarlyNames
  <2>1. PICK i \in 1 .. Len(early.pending) : early.pending[i] = n
    BY <1>1 DEF AllEarly, Contains
  <2>2. i \in DOMAIN early.pending
    BY <1>1
  <2> QED BY <2>1, <2>2 DEF EarlyNames
<1> QED BY <1>2

\* A turn of replay_all and one of the receive loop begin alike.
LEMMA TurnAlike ==
  ASSUME Replayed, Follows, state = "open", Alike, at \in 1 .. Len(file)
  PROVE  /\ ReadFile(early)[at] = Consume(ReadFile(early)[at - 1], file[at])
         /\ ReadFile(early)[at - 1] \in LoopStates
         /\ ReadFile(early)[at - 1].dir.symbols = dir.symbols
         /\ ReadFile(early)[at - 1].applied = calls
         /\ \A l \in Locates :
              is_subscribed(ReadFile(early)[at - 1].dir, l) <=> is_subscribed(dir, l)
<1> DEFINE s == ReadFile(early)[at - 1]
<1>1. PICK r : Filter(early, EarlyNames, r)
  BY DEF Follows
<1>2. early \in Directories /\ Chosen /\ Len(file) \in Nat
  BY <1>1 DEF Filter, Replayed, Chosen
<1>3. at - 1 \in 0 .. Len(file)
  BY <1>2
<1>4. wanted = EarlyNames /\ early.all = dir.all
  BY <1>2, EarlyIsAll DEF Follows, Alike, AllEarly
<1>5. Filter(s.dir, wanted, r) /\ s \in LoopStates /\ s.dir.all = dir.all
  BY <1>1, <1>2, <1>3, <1>4, ReadFileIs
<1>6. s.dir.symbols = dir.symbols /\ s.applied = calls
  BY DEF Follows
<1>7. Runs(ReadFile(early), Start(early), file)
  BY <1>1, <1>2, ReadFileIs
<1>8. ReadFile(early)[at] = Consume(s, file[at])
  BY <1>7 DEF Runs
<1> HIDE DEF s
<1>9. \A l \in Locates : is_subscribed(s.dir, l) <=> is_subscribed(dir, l)
  <2>1. Flagged(s.dir, wanted) /\ Flagged(dir, wanted)
    BY <1>5 DEF Filter, Replayed
  <2>2. \A l \in Locates : l \in s.dir.subscribed <=> l \in dir.subscribed
    BY <1>6, <2>1 DEF Flagged
  <2> QED BY <1>5, <2>2 DEF is_subscribed
<1> QED BY <1>5, <1>6, <1>8, <1>9 DEF s

\* A turn hands out and names what the receive loop does.
LEMMA TurnFollows ==
  ASSUME Replayed, Follows, Alike, DirectoryMessage \/ FilteredMessage \/ ParserMessage
  PROVE  ReadFile(early)[at].dir.symbols = dir'.symbols /\ ReadFile(early)[at].applied = calls'
<1> DEFINE m == file[at]
           s == ReadFile(early)[at - 1]
<1>1. Turn /\ state = "open" /\ cfg.directory
  BY DEF DirectoryMessage, FilteredMessage, ParserMessage, Turn, Alike
<1>2. at \in 1 .. Len(file) /\ Chosen
  BY <1>1, TurnIs DEF Replayed
<1>3. m \in Frames /\ m.locate \in Locates /\ m.name \in STRING
  BY <1>2, FrameIs DEF Frames
<1>4. /\ ReadFile(early)[at] = Consume(s, m) /\ s \in LoopStates /\ s.dir.symbols = dir.symbols
      /\ s.applied = calls
      /\ \A l \in Locates : is_subscribed(s.dir, l) <=> is_subscribed(dir, l)
  BY <1>1, <1>2, TurnAlike
<1>5. s.dir \in Directories /\ dir \in Directories
  BY <1>4 DEF LoopStates, Replayed, Filter
<1> HIDE DEF s
<1>6. CASE DirectoryMessage
  <2> DEFINE l == m.locate
             n == m.name
             d == s.dir
             e == feed(d, l, n)
             f == feed(dir, l, n)
  <2>1. IsDirectory(m) /\ dir' = f /\ calls' = calls
    BY <1>6 DEF DirectoryMessage
  <2>2. Consume(s, m).dir = e /\ Consume(s, m).applied = s.applied
    BY <1>4, <2>1 DEF Consume, LoopStates
  <2>3. l \in Locates /\ n \in STRING /\ d \in Directories
    BY <1>3, <1>5
  <2>4. d.symbols = dir.symbols
    BY <1>4
  <2> HIDE DEF l, n, d
  <2>5. e.symbols = [d.symbols EXCEPT ![l] = n]
    BY <2>3, FeedIs
  <2>6. f.symbols = [dir.symbols EXCEPT ![l] = n]
    BY <1>5, <2>3, FeedIs
  <2> HIDE DEF e, f
  <2> QED BY <1>4, <2>1, <2>2, <2>4, <2>5, <2>6
<1>7. ASSUME ~ IsDirectory(m), dir' = dir,
             calls' = IF Wanted(dir, m) /\ parse(m) = "parsed" THEN Append(calls, m) ELSE calls
      PROVE  Consume(s, m).dir.symbols = dir'.symbols /\ Consume(s, m).applied = calls'
  <2>1. Wanted(s.dir, m) <=> Wanted(dir, m)
    BY <1>3, <1>4 DEF Wanted
  <2>2. CASE Wanted(dir, m) /\ parse(m) = "parsed"
    <3>1. Consume(s, m) = [s EXCEPT !.applied = Append(@, m)]
      BY <1>7, <2>1, <2>2 DEF Consume
    <3> QED BY <1>4, <1>7, <2>2, <3>1 DEF LoopStates
  <2>3. CASE ~ (Wanted(dir, m) /\ parse(m) = "parsed")
    <3>1. Consume(s, m) = s
      BY <1>7, <2>1, <2>3 DEF Consume
    <3> QED BY <1>4, <1>7, <2>3, <3>1
  <2> QED BY <2>2, <2>3
<1>8. Filters(m) <=> ~ Wanted(dir, m)
  BY <1>3 DEF Filters, Wanted, Frames
<1>9. CASE FilteredMessage
  BY <1>4, <1>7, <1>8, <1>9 DEF FilteredMessage
<1>10. CASE ParserMessage
  <2>1. /\ ~ IsDirectory(m) /\ Wanted(dir, m) /\ dir' = dir
        /\ calls' = IF parse(m) = "parsed" THEN Append(calls, m) ELSE calls
    BY <1>1, <1>8, <1>10 DEF ParserMessage
  <2> QED BY <1>4, <1>7, <2>1
<1> QED BY <1>6, <1>9, <1>10

\* When nothing is known yet, every name asked for is waiting.
LEMMA AllWait ==
  ASSUME Replayed, \A l \in Locates : dir.symbols[l] = Unknown
  PROVE  /\ \A i \in DOMAIN dir.pending : dir.pending[i] \in wanted
         /\ wanted = {dir.pending[i] : i \in DOMAIN dir.pending}
<1>1. Waiting(dir, wanted) /\ wanted \subseteq Names
  BY DEF Replayed, Filter
<1>2. ASSUME NEW n \in wanted PROVE KnownAs(dir, n) = {}
  BY <1>1, NamesAssumption DEF KnownAs
<1> QED BY <1>1, <1>2 DEF Waiting

\* A directory as the replay finds it stays one.
LEMMA EarlyFrame ==
  ASSUME NEW d, NEW w, NEW r, Filter(d, w, r), file' = file, early' = d, EarlyNames' = w
  PROVE  (\E t : Filter(early, EarlyNames, t))'
<1>1. FromFile(early)'
  BY DEF Filter, FromFile, Named
<1>2. Flagged(early, EarlyNames)' /\ Waiting(early, EarlyNames)'
  BY DEF Filter, Flagged, Waiting, KnownAs
<1>3. \A i, j \in DOMAIN early'.pending :
        early'.pending[i] = early'.pending[j] /\ i # j => early'.pending[i] \in r
  BY DEF Filter, Once
<1>4. \A i \in DOMAIN early'.pending :
        KnownAs(early', early'.pending[i]) # {} => early'.pending[i] \in r
  BY DEF Filter, Once
<1>5. early' \in Directories /\ EarlyNames' \subseteq Names
  BY DEF Filter
<1>6. Filter(early, EarlyNames, r)'
  BY <1>1, <1>2, <1>3, <1>4, <1>5 DEF Filter, Once, KnownAs
<1> QED BY <1>6

\* Before the file is opened nothing is named and nothing read.
LEMMA InitFollows == Init => Fresh /\ Follows /\ Through
<1> SUFFICES ASSUME Init PROVE Fresh /\ Follows /\ Through
  OBVIOUS
<1>1. state = "closed" /\ at = 1 /\ calls = << >> /\ dir = NewDirectory /\ turn = "pace"
  BY DEF Init, ReplayInit, ServerInit
<1>2. \A l \in Locates : dir.symbols[l] = Unknown
  BY <1>1 DEF NewDirectory
<1>3. \A i \in 1 .. at - 1 : Complete(i)
  BY <1>1
<1> QED BY <1>1, <1>2, <1>3 DEF Fresh, Follows, Through

\* A subscription names nothing.
LEMMA SubscribeNames ==
  ASSUME NEW d \in Directories, NEW n \in Names
  PROVE  subscribe(d, n).symbols = d.symbols /\ subscribe(d, n).all = d.all
<1>1. CASE KnownAs(d, n) # {}
  BY <1>1 DEF subscribe, Directories
<1>2. CASE KnownAs(d, n) = {} /\ Len(d.pending) < MAX_PENDING
  BY <1>2 DEF subscribe, Directories
<1>3. CASE KnownAs(d, n) = {} /\ ~ (Len(d.pending) < MAX_PENDING)
  BY <1>3 DEF subscribe
<1> QED BY <1>1, <1>2, <1>3

\* What a step that is no turn of the loop leaves alone.
LEMMA NoTurn ==
  ASSUME Replayed, [Next]_vars, ~ DirectoryMessage, ~ FilteredMessage, ~ ParserMessage
  PROVE  /\ UNCHANGED <<at, calls>> /\ dir'.symbols = dir.symbols
         /\ (dir.all => dir'.all) /\ wanted \subseteq wanted'
         /\ open \/ (early' = early /\ (state' = "closed" <=> state = "closed"))
<1>1. dir \in Directories
  BY DEF Replayed, Filter
<1>2. ASSUME NEW n \in Names, Subscribe(n)
      PROVE  /\ UNCHANGED <<at, calls, state, early>> /\ dir'.symbols = dir.symbols
             /\ dir'.all = dir.all /\ wanted \subseteq wanted'
  <2>1. /\ UNCHANGED <<at, calls, state, early>> /\ dir' = subscribe(dir, n)
        /\ wanted \subseteq wanted'
    BY <1>2 DEF Subscribe, loopVars
  <2> QED BY <1>1, <2>1, SubscribeNames
<1>3. ASSUME SubscribeAll
      PROVE  /\ UNCHANGED <<at, calls, state, early, wanted>> /\ dir'.symbols = dir.symbols
             /\ dir'.all = TRUE
  BY <1>1, <1>3 DEF SubscribeAll, loopVars, subscribe_all, Directories
<1>4. ASSUME ~ SubscribeAll, ~ \E n \in Names : Subscribe(n)
      PROVE  /\ UNCHANGED <<at, calls, dir, wanted>>
             /\ open \/ (early' = early /\ (state' = "closed" <=> state = "closed"))
  BY <1>4 DEF Next, vars, Replay, Serve, Stopped, replayVars, ReplayNext, open, EndOfFile,
              ReplayStall, loopVars
<1> QED BY <1>2, <1>3, <1>4

\* Nothing is named as long as the file is not open.
LEMMA NextFresh ==
  ASSUME Replayed, Fresh, [Next]_vars
  PROVE  Fresh'
<1> SUFFICES ASSUME state' = "closed" PROVE Fresh'
  BY DEF Fresh
<1>1. ~ DirectoryMessage /\ ~ FilteredMessage /\ ~ ParserMessage /\ ~ open
  BY DEF DirectoryMessage, FilteredMessage, ParserMessage, Turn, open
<1>2. state = "closed" /\ UNCHANGED <<at, calls>> /\ dir'.symbols = dir.symbols
  BY <1>1, NoTurn
<1> QED BY <1>2 DEF Fresh

\* The replay reads whole frames to the end.
LEMMA NextThrough ==
  ASSUME Replayed, Fresh, Through, [Next]_vars
  PROVE  Through'
<1>1. /\ UNCHANGED <<file, cut, cfg>>
  BY DEF Next, vars, Replay, Serve, Stopped, replayVars, ReplayNext, Subscribe,
         SubscribeAll, open, DirectoryMessage, FilteredMessage, ParserMessage, EndOfFile,
         ReplayStall
<1>2. ASSUME NEW i PROVE Complete(i)' <=> Complete(i)
  BY <1>1 DEF Complete, Size, Offset
<1>3. at \in Nat \ {0}
  <2>1. stats.total \in Nat /\ at = stats.total + 1
    BY DEF Replayed, Counting, Stats
  <2> QED BY <2>1
<1>4. turn' = "done" => state' = "done"
  BY DEF Through, Next, vars, Replay, Serve, Stopped, replayVars, serverVars, ReplayNext,
         Subscribe, SubscribeAll, open, DirectoryMessage, FilteredMessage, ParserMessage,
         EndOfFile, ReplayStall, Turn
<1>5. CASE DirectoryMessage \/ FilteredMessage \/ ParserMessage
  <2>1. Complete(at) /\ at' = at + 1 /\ state = "open"
    BY <1>5 DEF DirectoryMessage, FilteredMessage, ParserMessage, Turn
  <2>2. \A i \in 1 .. at' - 1 : Complete(i)
    <3>1. \A i \in 1 .. at' - 1 : i \in 1 .. at - 1 \/ i = at
      BY <1>3, <2>1
    <3> QED BY <2>1, <3>1 DEF Through
  <2>3. cfg.limit = 0 => state' = state
    BY <1>5 DEF DirectoryMessage, FilteredMessage, ParserMessage, Limited
  <2> QED BY <1>1, <1>2, <1>4, <2>1, <2>2, <2>3 DEF Through
<1>6. CASE ~ (DirectoryMessage \/ FilteredMessage \/ ParserMessage)
  <2>1. at' = at
    BY <1>6, NoTurn
  <2>2. CASE open
    <3>1. at = 1 /\ (state' = "done" => Size = 0)
      BY <2>2 DEF Fresh, open
    <3>2. Size = 0 => ~ Complete(at)
      BY <3>1, OffsetIs DEF Complete, Replayed
    <3> QED BY <1>1, <1>2, <1>4, <2>1, <3>1, <3>2 DEF Through
  <2>3. CASE ~ open
    <3>1. state' = "done" => state = "done" \/ ~ Complete(at)
      BY <1>6, <2>3 DEF Next, vars, Replay, Serve, Stopped, replayVars, ReplayNext, Subscribe,
                        SubscribeAll, EndOfFile, ReplayStall
    <3> QED BY <1>1, <1>2, <1>4, <2>1, <3>1 DEF Through
  <2> QED BY <2>2, <2>3
<1> QED BY <1>5, <1>6

\* Subscriptions are not taken back.
LEMMA AlikeBefore ==
  ASSUME Replayed, Follows, state # "closed", early' = early, cfg' = cfg,
         dir.all => dir'.all, dir'.all \in BOOLEAN, wanted \subseteq wanted', Alike'
  PROVE  Alike
<1>1. PICK r : Filter(early, EarlyNames, r)
  BY DEF Follows
<1>2. dir.all \in BOOLEAN /\ early.all \in BOOLEAN
  BY <1>1 DEF Replayed, Filter, Directories
<1>3. dir'.all = early.all /\ \A n \in wanted' : Contains(early.pending, n)
  BY DEF Alike, AllEarly, Contains
<1>4. early.all => dir.all
  BY DEF Follows
<1>5. dir.all = early.all
  BY <1>2, <1>3, <1>4
<1> QED BY <1>3, <1>5 DEF Alike, AllEarly

\* Every step keeps replay and receive loop together.
LEMMA NextFollows ==
  ASSUME Replayed, Replayed', Fresh, Follows, [Next]_vars
  PROVE  Follows'
<1> SUFFICES ASSUME state' # "closed" PROVE Follows'
  BY DEF Follows
<1>1. UNCHANGED <<file, cut, cfg>>
  BY DEF Next, vars, Replay, Serve, Stopped, replayVars, ReplayNext, Subscribe,
         SubscribeAll, open, DirectoryMessage, FilteredMessage, ParserMessage, EndOfFile,
         ReplayStall
<1>2. dir.all \in BOOLEAN /\ dir'.all \in BOOLEAN /\ at \in Nat \ {0}
  <2>1. stats.total \in Nat /\ at = stats.total + 1
    BY DEF Replayed, Counting, Stats
  <2>2. dir.all \in BOOLEAN /\ dir'.all \in BOOLEAN
    BY DEF Replayed, Filter, Directories
  <2> QED BY <2>1, <2>2
<1>4. ASSUME state # "closed", early' = early
      PROVE  EarlyNames' = EarlyNames /\ ReadFile(early)' = ReadFile(early)
             /\ (\E t : Filter(early, EarlyNames, t))'
  <2>1. EarlyNames' = EarlyNames
    BY <1>4 DEF EarlyNames
  <2>2. PICK r : Filter(early, EarlyNames, r)
    BY <1>4 DEF Follows
  <2>3. ReadFile(early)' = ReadFile(early)
    BY <1>1, <1>4 DEF ReadFile, Start, Runs
  <2> QED BY <1>1, <1>4, <2>1, <2>2, <2>3, EarlyFrame
<1>5. CASE DirectoryMessage \/ FilteredMessage \/ ParserMessage
  <2>1. /\ state = "open" /\ early' = early /\ wanted' = wanted /\ at' = at + 1
        /\ dir' = dir \/ dir' = feed(dir, file[at].locate, file[at].name)
        /\ Turn
    BY <1>5 DEF DirectoryMessage, FilteredMessage, ParserMessage, Turn
  <2>2. dir'.all = dir.all
    <3>1. at \in 1 .. Len(file) /\ Chosen
      BY <2>1, TurnIs DEF Replayed
    <3>2. file[at].locate \in Locates /\ file[at].name \in STRING
      BY <3>1, FrameIs DEF Frames
    <3> DEFINE l == file[at].locate
               n == file[at].name
    <3> HIDE DEF l, n
    <3>3. l \in Locates /\ n \in STRING /\ dir \in Directories
      BY <3>2 DEF l, n, Replayed, Filter
    <3>4. feed(dir, l, n).all = dir.all
      BY <3>3, FeedIs
    <3> QED BY <2>1, <3>4 DEF l, n
  <2>3. at' - 1 = at
    BY <1>2, <2>1
  <2>4. ASSUME Alike'
        PROVE  /\ ReadFile(early)[at].dir.symbols = dir'.symbols
               /\ ReadFile(early)[at].applied = calls'
    <3>1. Alike
      BY <1>1, <1>2, <2>1, <2>2, <2>4, AlikeBefore
    <3> QED BY <1>5, <3>1, TurnFollows
  <2>5. EarlyNames' \subseteq wanted' /\ (early'.all => dir'.all)
    BY <1>4, <2>1, <2>2 DEF Follows
  <2> QED BY <1>4, <2>1, <2>3, <2>4, <2>5 DEF Follows
<1>6. CASE ~ (DirectoryMessage \/ FilteredMessage \/ ParserMessage) /\ ~ open
  <2>1. /\ UNCHANGED <<at, calls>> /\ dir'.symbols = dir.symbols
        /\ (dir.all => dir'.all) /\ wanted \subseteq wanted'
        /\ early' = early /\ state # "closed"
    BY <1>6, NoTurn
  <2>2. Alike' => Alike
    BY <1>1, <1>2, <2>1, AlikeBefore
  <2>3. EarlyNames' \subseteq wanted' /\ (early'.all => dir'.all)
    BY <1>4, <2>1 DEF Follows
  <2> QED BY <1>4, <2>1, <2>2, <2>3 DEF Follows
<1>7. CASE open
  <2>1. /\ state = "closed" /\ early' = dir /\ UNCHANGED <<at, calls, dir, wanted>>
    BY <1>7 DEF open, loopVars
  <2>2. at = 1 /\ calls = << >> /\ \A l \in Locates : dir.symbols[l] = Unknown
    BY <2>1 DEF Fresh
  <2>3. EarlyNames' = wanted
    BY <2>1, <2>2, AllWait DEF EarlyNames
  <2>4. Chosen /\ Filter(dir, wanted, repeated)
    BY DEF Replayed
  <2>5. (\E t : Filter(early, EarlyNames, t))'
    BY <1>1, <2>1, <2>3, <2>4, EarlyFrame
  <2>6. ReadFile(dir)[0].dir = dir /\ ReadFile(dir)[0].applied = << >>
    <3>1. /\ Runs(ReadFile(dir), Start(dir), file)
          /\ Start(dir).dir = dir /\ Start(dir).applied = << >>
      BY <2>4, ReadFileIs
    <3> QED BY <3>1 DEF Runs
  <2>7. ReadFile(early)' = ReadFile(dir)
    BY <1>1, <2>1 DEF ReadFile, Start, Runs
  <2>8. at' - 1 = 0
    BY <2>1, <2>2
  <2> QED BY <2>1, <2>2, <2>3, <2>5, <2>6, <2>7, <2>8 DEF Follows
<1> QED BY <1>5, <1>6, <1>7

\* The inductive invariant of both ways together.
BothWays == Replayed /\ Served /\ Batches /\ Fresh /\ Follows /\ Through

\* Replay and server get as far as each other.
LEMMA SameEnd ==
  ASSUME Replayed, Through, state = "done", cfg.limit = 0,
         \A i \in DOMAIN file : file[i].len <= MAX_MSG_SIZE
  PROVE  MessageCount = at - 1
<1> DEFINE M == MessageCount
           N == Len(file)
<1>1. /\ N \in Nat /\ M \in 0 .. N /\ Chosen /\ DOMAIN file = 1 .. N
      /\ \A i \in 1 .. M : Readable(i)
      /\ M < N => ~ Readable(M + 1)
  BY MessageCountIs DEF Replayed, Chosen
<1>2. at \in Nat \ {0} /\ at <= N + 1
  <2>1. stats.total \in Nat /\ at = stats.total + 1 /\ at <= N + 1
    BY DEF Replayed, Counting, Stats
  <2> QED BY <2>1
<1>3. ~ Complete(at) /\ \A i \in 1 .. at - 1 : Complete(i)
  BY DEF Through
<1>4. \A i \in 1 .. N : Readable(i) <=> Complete(i)
  BY <1>1 DEF Readable
<1> HIDE DEF M, N
<1>5. ~ (M < at - 1)
  <2> SUFFICES ASSUME M < at - 1 PROVE FALSE
    OBVIOUS
  <2>1. M + 1 \in 1 .. at - 1 /\ M + 1 \in 1 .. N /\ M < N
    BY <1>1, <1>2
  <2> QED BY <1>1, <1>3, <1>4, <2>1
<1>6. ~ (M >= at)
  <2> SUFFICES ASSUME M >= at PROVE FALSE
    OBVIOUS
  <2>1. at \in 1 .. M /\ at \in 1 .. N
    BY <1>1, <1>2
  <2> QED BY <1>1, <1>3, <1>4, <2>1
<1>7. M = at - 1
  BY <1>1, <1>2, <1>5, <1>6
<1> QED BY <1>7 DEF M

\* For every file, cut or not, with messages of any type and length, every
\* pacing and split into datagrams: when no send fails and no subscription
\* comes late, what the receive loop hands to the book is what replay_all does.
THEOREM BothWaysAgree == Spec => []SameMessages
<1>1. Init => BothWays
  BY InitReplayed, InitChosen, InitServing, InitBatches, InitFollows DEF BothWays, Served
<1>2. BothWays /\ [Next]_vars => BothWays'
  <2> SUFFICES ASSUME BothWays, [Next]_vars PROVE BothWays'
    OBVIOUS
  <2>1. Replayed' /\ Chosen'
    BY NextReplayed, NextChosen DEF BothWays, Replayed
  <2>2. Serving'
    BY NextServing DEF BothWays, Served
  <2>3. Batches'
    BY NextBatches DEF BothWays, Served
  <2>4. Fresh' /\ Follows' /\ Through'
    BY <2>1, NextFresh, NextFollows, NextThrough DEF BothWays
  <2> QED BY <2>1, <2>2, <2>3, <2>4 DEF BothWays, Served
<1>3. BothWays => SameMessages
  <2> SUFFICES ASSUME BothWays, turn = "done", AllSent, cfg.directory, cfg.limit = 0, AllEarly,
                      \A i \in DOMAIN file : file[i].len <= MAX_MSG_SIZE
               PROVE  Received.applied = calls
    BY DEF SameMessages
  <2>1. state = "done" /\ Replayed /\ Chosen /\ Serving /\ Batches /\ Follows /\ Through
    BY DEF BothWays, Through, Served
  <2>2. MessageCount = at - 1
    BY <2>1, SameEnd
  <2>3. ReadFile(early)[at - 1].applied = calls
    BY <2>1 DEF Follows, Alike
  <2>4. PICK r : Filter(early, EarlyNames, r)
    BY <2>1 DEF Follows
  <2>5. Runs(ReadFile(early), [dir |-> early, applied |-> << >>], file)
    BY <2>1, <2>4, ReadFileIs DEF Start
  <2>6. Received = ReadFile(early)[MessageCount]
    BY <2>1, <2>5, ReceivedIs
  <2> QED BY <2>2, <2>3, <2>6
<1> QED BY <1>1, <1>2, <1>3, PTL DEF Spec
=============================================================================
