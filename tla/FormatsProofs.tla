--------------------------- MODULE FormatsProofs ---------------------------
(***************************************************************************)
(* Proofs about what is on disk, and about VarInts. RegionStore, for any   *)
(* region size, any coordinates and any number of saves: what a lookup     *)
(* answers, from a header that may be as old as the session, in a file     *)
(* that is being written. VarIntCodec: what VarIntCodecProofs proves of    *)
(* it. Captures: the order in which a capture is loaded, however often it  *)
(* is written. WorldChunk: that what was packed into longs of any length   *)
(* is found by its coordinates, and that the iterator returns all that it  *)
(* passes. (NBT documents and packet bodies: PayloadProofs.)               *)
(***************************************************************************)
EXTENDS Formats, SequenceTheorems, FiniteSetTheorems, WellFoundedInduction, TLAPS

Sector  == [save : Nat, part : Nat]
Saved   == [chunk : Coords, size : 1..MaxSize, tight : BOOLEAN]
Headers == [Slots -> Nat]

TypeOK == /\ saves \in Seq(Saved)
          /\ disk \in [DOMAIN disk -> Headers] /\ file \in [DOMAIN disk -> Seq(Sector)]
          /\ regions \in [DOMAIN regions -> Headers] /\ DOMAIN regions \subseteq DOMAIN disk
          /\ readAt \in [DOMAIN regions -> 0..Len(saves)]

\* The sectors of file r that the last save of a chunk before save n took, and
\* what has become of them: they lie where the header says, each holds its part
\* of that save or of a later one, and no other holds any.
Span(v, p) == p .. (p + saves[v].size - 1)
Lies(r, p, v, n) ==
    /\ p > 0
    /\ \A q \in Span(v, p) : q \in DOMAIN file[r] /\ (file[r][q].save = v \/ file[r][q].save > n)
    /\ \A q \in DOMAIN file[r] :
          file[r][q].save = v => q \in Span(v, p) /\ file[r][q].part = q - p + 1
Located(r, header, n, c) ==
    LET v == Latest(c, n) IN
    IF v = 0 THEN header[FormatSlot(c)] = Absent ELSE Lies(r, header[FormatSlot(c)], v, n)

In(r) == {c \in Coords : RegionOf(c) = r}

\* The header of a file tells where the last saves of its chunks are, and no more.
DiskInv == \A r \in DOMAIN disk :
    /\ \A c \in In(r) : Located(r, disk[r], Len(saves), c)
    /\ \A s \in Slots : disk[r][s] # Absent =>
          \E c \in In(r) : FormatSlot(c) = s /\ Latest(c, Len(saves)) > 0

\* The header that is kept tells where the last saves were when it was read.
KeptInv == \A r \in DOMAIN regions : \A c \in In(r) : Located(r, regions[r], readAt[r], c)

\* Sectors belong to saves that were made, and saves to files that there are.
SavesInv == /\ \A r \in DOMAIN disk : \A q \in DOMAIN file[r] : file[r][q].save \in 1..Len(saves)
            /\ \A v \in 1..Len(saves) : RegionOf(saves[v].chunk) \in DOMAIN disk

IInv == TypeOK /\ SavesInv /\ DiskInv /\ KeptInv

-----------------------------------------------------------------------------
\* A nonempty set of natural numbers has a least element, which Min finds, and
\* a bounded one a greatest, which Max finds.
Below == {p \in Nat \X Nat : p[1] < p[2]}

LEMMA BelowIsWellFounded == IsWellFoundedOn(Below, Nat)
<1> SUFFICES ASSUME NEW f \in [Nat -> Nat], \A n \in Nat : <<f[n + 1], f[n]>> \in Below
             PROVE  FALSE
  BY DEF IsWellFoundedOn
<1> QED BY NatLessThanWellFounded DEF OpToRel, IsWellFoundedOn, Below

\* Of the numbers that bound a set, the least is in it.
LEMMA GreatestOf ==
  ASSUME NEW S, S \subseteq Nat, S # {}, NEW n \in Nat, \A y \in S : y <= n
  PROVE  Max(S) \in S /\ \A y \in S : y <= Max(S)
<1> DEFINE T == {b \in Nat : \A y \in S : y <= b}
<1>1. PICK x \in T : \A b \in T : ~(<<b, x>> \in Below)
  <2>1. T \subseteq Nat /\ n \in T
    OBVIOUS
  <2> HIDE DEF T
  <2> QED BY <2>1, BelowIsWellFounded, WFMin
<1>2. x \in Nat /\ \A y \in S : y <= x
  OBVIOUS
<1>3. x \in S
  <2> SUFFICES ASSUME x \notin S PROVE FALSE
    OBVIOUS
  <2>1. \A y \in S : y \in Nat /\ y < x
    BY <1>2
  <2>2. PICK z : z \in S
    OBVIOUS
  <2>3. x - 1 \in Nat
    BY <1>2, <2>1, <2>2
  <2>4. \A y \in S : y <= x - 1
    BY <1>2, <2>1
  <2>5. x - 1 \in T
    BY <2>3, <2>4
  <2>6. <<x - 1, x>> \in Below
    BY <1>2, <2>3 DEF Below
  <2> QED BY <1>1, <2>5, <2>6
<1>4. \A y \in S : x >= y
  BY <1>2
<1>5. Max(S) \in S /\ \A y \in S : Max(S) >= y
  BY <1>3, <1>4, Zenon DEF Max
<1>6. Max(S) \in Nat
  BY <1>5
<1> QED BY <1>5, <1>6

LEMMA MaxIs ==
  ASSUME NEW S, S \subseteq Nat, NEW x \in S, \A y \in S : y <= x
  PROVE  Max(S) = x
<1>1. x \in Nat
  OBVIOUS
<1>2. Max(S) \in S /\ \A y \in S : y <= Max(S)
  BY <1>1, GreatestOf
<1>3. Max(S) \in Nat /\ Max(S) <= x /\ x <= Max(S)
  BY <1>2
<1> QED BY <1>1, <1>3

-----------------------------------------------------------------------------
\* Numbers in base b, and the places of a square with b by b of them.
LEMMA Divided ==
  ASSUME NEW a \in Int, NEW b \in Nat, b > 0
  PROVE  /\ a \div b \in Int
         /\ a % b \in 0..(b - 1)
         /\ a = (a \div b) * b + (a % b)
OBVIOUS

LEMMA AtLeast ==
  ASSUME NEW b \in Nat, NEW k \in Int, k >= 1
  PROVE  k * b >= b
OBVIOUS

LEMMA PlacesDiffer ==
  ASSUME NEW b \in Nat, b > 0, NEW x \in 0..(b - 1), NEW y \in Int, NEW z \in 0..(b - 1), NEW w \in Int,
         x + y * b = z + w * b
  PROVE  x = z /\ y = w
<1>1. (w - y) * b = x - z /\ (y - w) * b = z - x
  OBVIOUS
<1>2. ~(w - y >= 1)
  BY <1>1, AtLeast
<1>3. ~(y - w >= 1)
  BY <1>1, AtLeast
<1>4. y = w
  BY <1>2, <1>3
<1> QED BY <1>1, <1>4

LEMMA PlacesFit ==
  ASSUME NEW b \in Nat, b > 0, NEW x \in 0..(b - 1), NEW y \in 0..(b - 1)
  PROVE  x + y * b \in 0..(b * b - 1)
<1>1. (b - y) * b >= b
  BY AtLeast
<1>2. (b - y) * b = b * b - y * b /\ y * b \in Nat /\ b * b \in Nat
  OBVIOUS
<1> DEFINE m == y * b
           s == b * b
<1>3. s - m >= b /\ m \in Nat /\ s \in Nat
  BY <1>1, <1>2
<1> HIDE DEF m, s
<1>4. x + m \in 0..(s - 1)
  BY <1>3
<1> QED BY <1>4 DEF m, s

\* The place that local_index computes is the one the format has, on either side
\* of 0, and tells the chunk within its region.
LEMMA SlotsAre ==
  ASSUME NEW c \in Int \X Int
  PROVE  /\ RegionOf(c)[1] \in Int /\ RegionOf(c)[2] \in Int
         /\ c[1] % Side \in 0..(Side - 1) /\ c[2] % Side \in 0..(Side - 1)
         /\ c = <<RegionOf(c)[1] * Side + (c[1] % Side), RegionOf(c)[2] * Side + (c[2] % Side)>>
         /\ Slot(RegionOf(c), c) = FormatSlot(c)
         /\ FormatSlot(c) \in Slots
<1>1. Side \in Nat /\ Side > 0
  BY SideAssumption
<1>2. PICK x \in Int, y \in Int : c = <<x, y>>
  OBVIOUS
<1>3. PICK dx \in Int, mx \in 0..(Side - 1) : dx = x \div Side /\ mx = x % Side /\ x = dx * Side + mx
  BY <1>1, <1>2, Divided
<1>4. PICK dy \in Int, my \in 0..(Side - 1) : dy = y \div Side /\ my = y % Side /\ y = dy * Side + my
  BY <1>1, <1>2, Divided
<1>5. RegionOf(c) = <<dx, dy>> /\ c[1] = x /\ c[2] = y
  BY <1>2, <1>3, <1>4 DEF RegionOf
<1>6. x - dx * Side = mx /\ y - dy * Side = my
  <2> DEFINE a == dx * Side
             b == dy * Side
  <2>1. a \in Int /\ b \in Int /\ x = a + mx /\ y = b + my /\ mx \in Int /\ my \in Int
    BY <1>1, <1>3, <1>4
  <2> HIDE DEF a, b
  <2>2. x - a = mx /\ y - b = my
    BY <2>1
  <2> QED BY <2>2 DEF a, b
<1>7. Slot(RegionOf(c), c) = mx + my * Side /\ FormatSlot(c) = mx + my * Side
  <2>1. Local(RegionOf(c), c) = <<mx, my>>
    <3>1. Local(RegionOf(c), c) = <<c[1] - RegionOf(c)[1] * Side, c[2] - RegionOf(c)[2] * Side>>
      BY DEF Local
    <3>2. RegionOf(c)[1] = dx /\ RegionOf(c)[2] = dy
      BY <1>5
    <3> QED BY <1>5, <1>6, <3>1, <3>2
  <2>2. Slot(RegionOf(c), c) = mx + my * Side
    BY <2>1 DEF Slot
  <2>3. c[1] % Side = mx /\ c[2] % Side = my
    BY <1>3, <1>4, <1>5
  <2>4. FormatSlot(c) = mx + my * Side
    BY <2>3 DEF FormatSlot
  <2> QED BY <2>2, <2>4
<1>8. mx + my * Side \in Slots
  BY <1>1, PlacesFit DEF Slots
<1> QED BY <1>2, <1>3, <1>4, <1>5, <1>7, <1>8

LEMMA SlotsDiffer ==
  ASSUME NEW c \in Int \X Int, NEW d \in Int \X Int, RegionOf(c) = RegionOf(d), FormatSlot(c) = FormatSlot(d)
  PROVE  c = d
<1>1. Side \in Nat /\ Side > 0
  BY SideAssumption
<1>2. ASSUME NEW x \in 0..(Side - 1), NEW y \in 0..(Side - 1),
             NEW z \in 0..(Side - 1), NEW w \in 0..(Side - 1),
             x + y * Side = z + w * Side
      PROVE  x = z /\ y = w
  <2>1. y \in Int /\ w \in Int
    OBVIOUS
  <2> QED BY <1>1, <1>2, <2>1, PlacesDiffer
<1>3. c[1] % Side \in 0..(Side - 1) /\ c[2] % Side \in 0..(Side - 1)
  BY SlotsAre
<1>4. d[1] % Side \in 0..(Side - 1) /\ d[2] % Side \in 0..(Side - 1)
  BY SlotsAre
<1>5. (c[1] % Side) + (c[2] % Side) * Side = (d[1] % Side) + (d[2] % Side) * Side
  BY DEF FormatSlot
<1>6. c[1] % Side = d[1] % Side /\ c[2] % Side = d[2] % Side
  <2> PICK a \in 0..(Side - 1), b \in 0..(Side - 1) : a = c[1] % Side /\ b = c[2] % Side
    BY <1>3
  <2> PICK e \in 0..(Side - 1), f \in 0..(Side - 1) : e = d[1] % Side /\ f = d[2] % Side
    BY <1>4
  <2>1. a + b * Side = e + f * Side
    BY <1>5
  <2>2. a \in 0..(Side - 1) /\ b \in 0..(Side - 1) /\ e \in 0..(Side - 1) /\ f \in 0..(Side - 1)
    OBVIOUS
  <2>3. a = e /\ b = f
    BY ONLY <1>2, <2>1, <2>2
  <2> QED BY <2>3
<1> QED BY <1>6, SlotsAre

-----------------------------------------------------------------------------
\* The last save of a chunk.
LEMMA LatestIs ==
  ASSUME saves \in Seq(Saved), NEW n \in 0..Len(saves), NEW c
  PROVE  /\ Latest(c, n) \in 0..n
         /\ Latest(c, n) > 0 => saves[Latest(c, n)].chunk = c
         /\ \A v \in 1..n : saves[v].chunk = c => v <= Latest(c, n)
<1> DEFINE S == {v \in 1..n : saves[v].chunk = c} \cup {0}
<1>1. Len(saves) \in Nat /\ n \in Nat
  BY LenProperties
<1>2. S \subseteq Nat /\ S # {} /\ \A y \in S : y <= n
  BY <1>1
<1>3. Latest(c, n) = Max(S)
  BY DEF Latest
<1>4. Max(S) \in S /\ \A y \in S : y <= Max(S)
  <2> HIDE DEF S
  <2> QED BY <1>1, <1>2, GreatestOf
<1> QED BY <1>1, <1>3, <1>4

\* What a save leaves of the earlier ones, and what it adds.
LEMMA SavedAfter ==
  ASSUME saves \in Seq(Saved), NEW x \in Saved, saves' = Append(saves, x), NEW n \in Nat, n = Len(saves)
  PROVE  /\ saves' \in Seq(Saved) /\ Len(saves') = n + 1
         /\ \A v \in 1..n : saves'[v] = saves[v]
         /\ saves'[n + 1] = x
BY AppendProperties

LEMMA LatestKept ==
  ASSUME saves \in Seq(Saved), NEW x \in Saved, saves' = Append(saves, x),
         NEW d, NEW m \in 0..Len(saves)
  PROVE  Latest(d, m)' = Latest(d, m)
<1> PICK n \in Nat : n = Len(saves)
  BY LenProperties
<1>1. {v \in 1..m : saves'[v].chunk = d} = {v \in 1..m : saves[v].chunk = d}
  BY SavedAfter
<1> QED BY <1>1 DEF Latest

LEMMA LatestNext ==
  ASSUME saves \in Seq(Saved), NEW x \in Saved, saves' = Append(saves, x),
         NEW d, NEW n \in Nat, n = Len(saves), NEW m \in Nat, m = n + 1
  PROVE  Latest(d, m)' = IF d = x.chunk THEN m ELSE Latest(d, n)
<1>1. /\ \A v \in 1..n : saves'[v] = saves[v]
      /\ saves'[m] = x
  BY SavedAfter
<1> DEFINE T == {v \in 1..m : saves'[v].chunk = d} \cup {0}
<1>2. Latest(d, m)' = Max(T)
  BY DEF Latest
<1>3. CASE d = x.chunk
  <2>1. T \subseteq Nat /\ m \in T /\ \A y \in T : y <= m
    BY <1>1, <1>3
  <2> HIDE DEF T
  <2> QED BY <1>2, <1>3, <2>1, MaxIs
<1>4. CASE d # x.chunk
  <2>1. T = {v \in 1..n : saves[v].chunk = d} \cup {0}
    BY <1>1, <1>4
  <2> QED BY <1>2, <1>4, <2>1 DEF Latest
<1> QED BY <1>3, <1>4

-----------------------------------------------------------------------------
\* What a save that is the one after the first n, of size sectors from p on,
\* does to the files.
Writes(r, p, size, n) ==
    /\ DOMAIN file' = DOMAIN file
    /\ \A o \in DOMAIN file : o # r => file'[o] = file[o]
    /\ file'[r] \in Seq(Sector)
    /\ DOMAIN file'[r] = DOMAIN file[r] \cup p .. (p + size - 1)
    /\ \A q \in DOMAIN file'[r] : 
          q \in p .. (p + size - 1) => file'[r][q].save = n + 1 /\ file'[r][q].part = q - p + 1
    /\ \A q \in DOMAIN file'[r] : q \notin p .. (p + size - 1) => file'[r][q] = file[r][q]

LEMMA FileWritten ==
  ASSUME NEW D, file \in [D -> Seq(Sector)], NEW r \in D, NEW size \in 1..MaxSize, NEW n \in Nat,
         NEW p \in 1..(Len(file[r]) + 1),
         file' = [file EXCEPT ![r] = [q \in 1 .. Max({Len(@), p + size - 1}) |->
                    IF q \in p .. (p + size - 1) THEN [save |-> n + 1, part |-> q - p + 1]
                                                ELSE file[r][q]]]
  PROVE  Writes(r, p, size, n)
<1>1. PICK l \in Nat : l = Len(file[r]) /\ DOMAIN file[r] = 1..l /\ \A q \in 1..l : file[r][q] \in Sector
  <2>1. file[r] \in Seq(Sector)
    OBVIOUS
  <2> QED BY <2>1, LenProperties, ElementOfSeq
<1>2. p \in Nat /\ p >= 1 /\ p <= l + 1 /\ size \in Nat /\ size >= 1
  BY <1>1, SavesAssumption
<1>3. PICK k \in Nat : k = Max({l, p + size - 1}) /\ 1..k = 1..l \cup p .. (p + size - 1)
  <2> PICK e \in Nat : e = p + size - 1
    BY <1>2
  <2>1. ASSUME l >= e PROVE Max({l, e}) \in Nat /\ 1..Max({l, e}) = 1..l \cup p..e
    <3>1. {l, e} \subseteq Nat /\ l \in {l, e} /\ \A y \in {l, e} : y <= l
      BY <2>1
    <3>2. Max({l, e}) = l
      BY <3>1, MaxIs
    <3>3. 1..l = 1..l \cup p..e
      BY <1>2, <2>1
    <3> QED BY <3>2, <3>3
  <2>2. ASSUME l < e PROVE Max({l, e}) \in Nat /\ 1..Max({l, e}) = 1..l \cup p..e
    <3>1. {l, e} \subseteq Nat /\ e \in {l, e} /\ \A y \in {l, e} : y <= e
      BY <2>2
    <3>2. Max({l, e}) = e
      BY <3>1, MaxIs
    <3>3. 1..e = 1..l \cup p..e
      BY <1>2, <2>2
    <3> QED BY <3>2, <3>3
  <2>3. Max({l, e}) \in Nat /\ 1..Max({l, e}) = 1..l \cup p..e
    <3>1. l >= e \/ l < e
      OBVIOUS
    <3> QED BY <2>1, <2>2, <3>1
  <2> QED BY <2>3
<1> DEFINE g == [q \in 1..k |-> IF q \in p .. (p + size - 1)
                               THEN [save |-> n + 1, part |-> q - p + 1] ELSE file[r][q]]
<1>4. file' = [file EXCEPT ![r] = g]
  BY <1>1, <1>3
<1>5. ASSUME NEW q \in 1..k PROVE g[q] \in Sector
  <2>1. CASE q \in p .. (p + size - 1)
    BY <1>2, <2>1 DEF Sector
  <2>2. CASE q \notin p .. (p + size - 1)
    BY <1>1, <1>3, <2>2
  <2> QED BY <2>1, <2>2
<1>6. g \in Seq(Sector)
  <2>1. g \in [1..k -> Sector]
    BY <1>5
  <2> HIDE DEF g
  <2> QED BY <2>1, IsASeq
<1>7. DOMAIN g = 1..k /\ \A q \in 1..k : g[q] = IF q \in p .. (p + size - 1)
                                              THEN [save |-> n + 1, part |-> q - p + 1] ELSE file[r][q]
  OBVIOUS
<1> HIDE DEF g
<1>8. DOMAIN file' = DOMAIN file /\ file'[r] = g /\ \A o \in DOMAIN file : o # r => file'[o] = file[o]
  BY <1>4
<1> QED BY <1>1, <1>3, <1>6, <1>7, <1>8 DEF Writes

\* What lay somewhere m saves ago still does: the sectors that are taken from it
\* now hold a later save.
LEMMA LiesKept ==
  ASSUME NEW n \in Nat, NEW r, NEW p \in Nat, NEW size \in Nat, Writes(r, p, size, n),
         NEW o \in DOMAIN file, NEW pl, NEW m \in 0..n, NEW v \in 1..n,
         saves'[v] = saves[v], Lies(o, pl, v, m)
  PROVE  Lies(o, pl, v, m)'
<1>1. Span(v, pl)' = Span(v, pl)
  BY DEF Span
<1>2. CASE o # r
  BY <1>1, <1>2 DEF Lies, Writes
<1>3. CASE o = r
  <2>1. \A q \in Span(v, pl) : q \in DOMAIN file[r] /\ (file[r][q].save = v \/ file[r][q].save > m)
    BY <1>3 DEF Lies
  <2>2. ASSUME NEW q \in Span(v, pl)
        PROVE  q \in DOMAIN file'[r] /\ (file'[r][q].save = v \/ file'[r][q].save > m)
    <3>1. q \in DOMAIN file'[r]
      BY <2>1 DEF Writes
    <3>2. CASE q \in p .. (p + size - 1)
      <4>1. \A t \in DOMAIN file'[r] : t \in p .. (p + size - 1) => file'[r][t].save = n + 1
        BY DEF Writes
      <4>2. file'[r][q].save = n + 1
        BY ONLY <3>1, <3>2, <4>1
      <4>3. n + 1 > m
        OBVIOUS
      <4> QED BY ONLY <3>1, <4>2, <4>3
    <3>3. CASE q \notin p .. (p + size - 1)
      BY <2>1, <3>1, <3>3 DEF Writes
    <3> QED BY <3>1, <3>2, <3>3
  <2>3. ASSUME NEW q \in DOMAIN file'[r], file'[r][q].save = v
        PROVE  q \in Span(v, pl) /\ file'[r][q].part = q - pl + 1
    <3>1. q \notin p .. (p + size - 1)
      BY <2>3 DEF Writes
    <3>2. q \in DOMAIN file[r] /\ file'[r][q] = file[r][q]
      BY <3>1 DEF Writes
    <3> QED BY <1>3, <2>3, <3>2 DEF Lies
  <2>4. pl > 0
    BY DEF Lies
  <2> QED BY <1>1, <1>3, <2>2, <2>3, <2>4 DEF Lies
<1> QED BY <1>2, <1>3

\* The last save of a chunk stays where it is when another is made.
LEMMA LiesOn ==
  ASSUME NEW n \in Nat, NEW r, NEW p \in Nat, NEW size \in Nat, Writes(r, p, size, n),
         NEW o \in DOMAIN file, NEW pl, NEW v \in 1..n,
         saves'[v] = saves[v], Lies(o, pl, v, n),
         \A q \in DOMAIN file[o] : file[o][q].save \in 1..n,
         \A q \in p .. (p + size - 1) : q \in DOMAIN file[r] => file[r][q].save # v,
         NEW m \in Nat
  PROVE  Lies(o, pl, v, m)'
<1>1. Span(v, pl)' = Span(v, pl)
  BY DEF Span
<1>2. \A q \in Span(v, pl) : q \in DOMAIN file[o] /\ file[o][q].save = v
  BY DEF Lies
<1>3. CASE o # r
  BY <1>1, <1>2, <1>3 DEF Lies, Writes
<1>4. CASE o = r
  <2>1. ASSUME NEW q \in Span(v, pl) PROVE q \in DOMAIN file'[r] /\ file'[r][q].save = v
    <3>1. q \in DOMAIN file'[r]
      BY <1>2, <1>4 DEF Writes
    <3>2. q \notin p .. (p + size - 1)
      BY <1>2, <1>4
    <3> QED BY <1>2, <1>4, <3>1, <3>2 DEF Writes
  <2>2. ASSUME NEW q \in DOMAIN file'[r], file'[r][q].save = v
        PROVE  q \in Span(v, pl) /\ file'[r][q].part = q - pl + 1
    <3>1. q \notin p .. (p + size - 1)
      BY <2>2 DEF Writes
    <3>2. q \in DOMAIN file[r] /\ file'[r][q] = file[r][q]
      BY <3>1 DEF Writes
    <3> QED BY <1>4, <2>2, <3>2 DEF Lies
  <2>3. pl > 0
    BY DEF Lies
  <2> QED BY <1>1, <1>4, <2>1, <2>2, <2>3 DEF Lies
<1> QED BY <1>3, <1>4

\* The new save lies where it was written.
LEMMA LiesNew ==
  ASSUME NEW n \in Nat, NEW r, NEW p \in Nat \ {0}, NEW size \in Nat, Writes(r, p, size, n),
         NEW v, v = n + 1, saves'[v].size = size,
         \A q \in DOMAIN file[r] : file[r][q].save \in 1..n,
         NEW m \in Nat
  PROVE  Lies(r, p, v, m)'
<1>1. Span(v, p)' = p .. (p + size - 1)
  BY DEF Span
<1>2. \A q \in p .. (p + size - 1) : q \in DOMAIN file'[r] /\ file'[r][q].save = v
  BY DEF Writes
<1>3. ASSUME NEW q \in DOMAIN file'[r], file'[r][q].save = v
      PROVE  q \in p .. (p + size - 1) /\ file'[r][q].part = q - p + 1
  <2>1. q \in p .. (p + size - 1)
    <3> SUFFICES ASSUME q \notin p .. (p + size - 1) PROVE FALSE
      OBVIOUS
    <3>1. q \in DOMAIN file[r] /\ file'[r][q] = file[r][q]
      BY DEF Writes
    <3> QED BY <1>3, <3>1
  <2> QED BY <2>1 DEF Writes
<1>4. \A q \in Span(v, p)' : q \in DOMAIN file'[r] /\ (file'[r][q].save = v \/ file'[r][q].save > m)
  BY <1>1, <1>2
<1>5. \A q \in DOMAIN file'[r] : file'[r][q].save = v => q \in Span(v, p)' /\ file'[r][q].part = q - p + 1
  BY <1>1, <1>3
<1> HIDE DEF Span
<1>6. p > 0
  OBVIOUS
<1> QED BY <1>4, <1>5, <1>6 DEF Lies

-----------------------------------------------------------------------------
LEMMA ExtendedMaps ==
  ASSUME NEW T, NEW f, f \in [DOMAIN f -> T], NEW x, NEW y \in T
  PROVE  Extended(f, x, y) \in [DOMAIN f \cup {x} -> T]
BY DEF Extended

LEMMA LocatedSame ==
  ASSUME saves' = saves, NEW o, file'[o] = file[o], NEW h, NEW m, NEW d, Located(o, h, m, d)
  PROVE  Located(o, h, m, d)'
<1>1. Latest(d, m)' = Latest(d, m)
  BY DEF Latest
<1> QED BY <1>1 DEF Located, Lies, Span

LEMMA KeptSame ==
  ASSUME KeptInv, saves' = saves, regions' = regions, readAt' = readAt,
         \A o \in DOMAIN regions : file'[o] = file[o]
  PROVE  KeptInv'
<1> SUFFICES ASSUME NEW o \in DOMAIN regions, NEW c \in In(o)
             PROVE  Located(o, regions[o], readAt[o], c)'
  BY DEF KeptInv
<1> PICK h, m : h = regions[o] /\ m = readAt[o]
  OBVIOUS
<1>1. Located(o, h, m, c)
  BY DEF KeptInv
<1>2. Located(o, h, m, c)'
  BY <1>1, LocatedSame
<1>3. h = regions'[o] /\ m = readAt'[o]
  OBVIOUS
<1> QED BY <1>2, <1>3 DEF Located, Lies, Span, Latest

LEMMA InitKeeps == Init => IInv
<1> SUFFICES ASSUME Init PROVE IInv
  OBVIOUS
<1>1. TypeOK
  BY DEF Init, TypeOK
<1>2. SavesInv /\ DiskInv /\ KeptInv
  BY DEF Init, SavesInv, DiskInv, KeptInv
<1> QED BY <1>1, <1>2 DEF IInv

LEMMA CreateKeeps ==
  ASSUME IInv, NEW r, Create(r)
  PROVE  IInv'
<1> USE DEF IInv
<1>1. /\ DOMAIN disk' = DOMAIN disk \cup {r} /\ r \notin DOMAIN disk
      /\ disk'[r] = NoHeader /\ \A o \in DOMAIN disk : disk'[o] = disk[o]
  <2>1. r \notin DOMAIN disk /\ disk' = Extended(disk, r, NoHeader)
    BY DEF Create
  <2> QED BY <2>1 DEF Extended
<1>2. /\ DOMAIN file' = DOMAIN file \cup {r} /\ DOMAIN file = DOMAIN disk
      /\ file'[r] = <<>> /\ \A o \in DOMAIN disk : file'[o] = file[o]
  <2>1. DOMAIN file = DOMAIN disk
    BY DEF TypeOK
  <2>2. r \notin DOMAIN file /\ file' = Extended(file, r, <<>>)
    BY <2>1 DEF Create
  <2> QED BY <2>1, <2>2 DEF Extended
<1>3. saves' = saves /\ regions' = regions /\ readAt' = readAt
  BY DEF Create
<1>4. TypeOK'
  <2>1. NoHeader \in Headers /\ <<>> \in Seq(Sector)
    BY DEF NoHeader, Headers, Absent
  <2>2. disk' \in [DOMAIN disk' -> Headers]
    BY <1>1, <2>1, ExtendedMaps DEF TypeOK, Create
  <2>3. file' \in [DOMAIN disk' -> Seq(Sector)]
    BY <1>1, <1>2, <2>1, ExtendedMaps DEF TypeOK, Create
  <2> QED BY <1>1, <1>3, <2>2, <2>3 DEF TypeOK
<1>5. SavesInv'
  BY <1>1, <1>2, <1>3 DEF SavesInv
<1>6. DiskInv'
  <2>1. ASSUME NEW o \in DOMAIN disk, NEW c \in In(o)
        PROVE  Located(o, disk[o], Len(saves), c)'
    <3> PICK h, m : h = disk[o] /\ m = Len(saves)
      OBVIOUS
    <3>1. Located(o, h, m, c)
      BY DEF DiskInv
    <3>2. Located(o, h, m, c)'
      BY <1>2, <1>3, <3>1, LocatedSame
    <3>3. h = disk'[o] /\ m = Len(saves')
      BY <1>1, <1>3
    <3> QED BY <3>2, <3>3 DEF Located, Lies, Span, Latest
  <2>2. ASSUME NEW c \in In(r)
        PROVE  Located(r, disk[r], Len(saves), c)'
    <3>1. c \in Int \X Int /\ RegionOf(c) = r
      BY CoordsAssumption DEF In
    <3>2. FormatSlot(c) \in Slots
      BY <3>1, SlotsAre
    <3>3. Latest(c, Len(saves)) = 0
      <4> PICK n \in Nat : n = Len(saves)
        BY LenProperties DEF TypeOK
      <4>1. n \in 0..Len(saves)
        OBVIOUS
      <4>2. Latest(c, n) \in 0..n /\ (Latest(c, n) > 0 => saves[Latest(c, n)].chunk = c)
        BY <4>1, LatestIs DEF TypeOK
      <4> QED BY <1>1, <3>1, <4>2 DEF SavesInv
    <3>4. Latest(c, Len(saves))' = 0
      BY <1>3, <3>3 DEF Latest
    <3>5. disk'[r][FormatSlot(c)] = Absent
      BY <1>1, <3>2 DEF NoHeader
    <3> QED BY <3>4, <3>5 DEF Located
  <2>3. ASSUME NEW o \in DOMAIN disk, NEW s \in Slots, disk'[o][s] # Absent
        PROVE  \E c \in In(o) : FormatSlot(c) = s /\ Latest(c, Len(saves))' > 0
    <3>1. PICK c \in In(o) : FormatSlot(c) = s /\ Latest(c, Len(saves)) > 0
      BY <1>1, <2>3 DEF DiskInv
    <3>2. Latest(c, Len(saves))' = Latest(c, Len(saves))
      BY <1>3 DEF Latest
    <3> QED BY <3>1, <3>2
  <2>4. \A s \in Slots : disk'[r][s] = Absent
    BY <1>1 DEF NoHeader
  <2> QED BY <1>1, <2>1, <2>2, <2>3, <2>4 DEF DiskInv
<1>7. KeptInv'
  <2>1. \A o \in DOMAIN regions : file'[o] = file[o]
    BY <1>2 DEF TypeOK
  <2> QED BY <1>3, <2>1, KeptSame
<1> QED BY <1>4, <1>5, <1>6, <1>7

LEMMA SaveKeeps ==
  ASSUME IInv, NEW c \in Coords, NEW size \in 1..MaxSize, NEW tight \in BOOLEAN, Save(c, size, tight)
  PROVE  IInv'
<1> USE DEF IInv
<1> PICK n \in Nat : n = Len(saves)
  BY LenProperties DEF TypeOK
<1> PICK r : r = RegionOf(c)
  OBVIOUS
<1> PICK x \in Saved : x = [chunk |-> c, size |-> size, tight |-> tight]
  BY DEF Saved
<1> PICK g \in Slots : g = FormatSlot(c)
  BY SlotsAre, CoordsAssumption
<1>1. r \in DOMAIN disk /\ saves' = Append(saves, x) /\ regions' = regions /\ readAt' = readAt
  BY DEF Save
<1>2. /\ saves' \in Seq(Saved) /\ Len(saves') = n + 1
      /\ \A v \in 1..n : saves'[v] = saves[v]
      /\ saves'[n + 1] = x
  BY <1>1, SavedAfter DEF TypeOK
<1> PICK k \in Nat : k = n + 1
  OBVIOUS
<1>3. ASSUME NEW d
      PROVE  /\ \A m \in 0..n : Latest(d, m)' = Latest(d, m)
             /\ Latest(d, k)' = IF d = c THEN k ELSE Latest(d, n)
  <2>1. x.chunk = c /\ saves \in Seq(Saved)
    BY DEF TypeOK
  <2>2. ASSUME NEW m \in 0..n PROVE Latest(d, m)' = Latest(d, m)
    BY <1>1, <2>1, LatestKept
  <2>3. Latest(d, k)' = IF d = x.chunk THEN k ELSE Latest(d, n)
    <3>1. n \in Nat /\ n = Len(saves) /\ k \in Nat /\ k = n + 1 /\ x \in Saved
      OBVIOUS
    <3> QED BY ONLY <1>1, <2>1, <3>1, LatestNext
  <2> QED BY <2>1, <2>2, <2>3
<1>4. DOMAIN file = DOMAIN disk /\ file \in [DOMAIN disk -> Seq(Sector)] /\ disk \in [DOMAIN disk -> Headers]
  BY DEF TypeOK
<1>5. PICK p \in 1 .. (Len(file[r]) + 1) :
        /\ \A q \in p .. (p + size - 1) : q \in DOMAIN file[r] => Superseded(file[r][q].save)
        /\ file' = [file EXCEPT ![r] = [q \in 1 .. Max({Len(@), p + size - 1}) |->
                      IF q \in p .. (p + size - 1) THEN [save |-> n + 1, part |-> q - p + 1]
                                                  ELSE file[r][q]]]
        /\ disk' = [disk EXCEPT ![r][g] = p]
  <2>1. Len(saves') = n + 1
    BY <1>2
  <2> QED BY <2>1 DEF Save
<1>6. p \in Nat \ {0} /\ size \in Nat
  <2>1. Len(file[r]) \in Nat
    BY <1>1, <1>4, LenProperties
  <2> QED BY <2>1, SavesAssumption
<1>7. Writes(r, p, size, n)
  BY <1>1, <1>4, <1>5, FileWritten
<1>8. /\ DOMAIN disk' = DOMAIN disk /\ disk' \in [DOMAIN disk -> Headers] /\ disk'[r][g] = p
      /\ \A o \in DOMAIN disk : \A s \in Slots : o # r \/ s # g => disk'[o][s] = disk[o][s]
  BY <1>1, <1>4, <1>5, <1>6 DEF Headers
<1>9. \A o \in DOMAIN disk : \A q \in DOMAIN file[o] : file[o][q].save \in 1..n
  BY DEF SavesInv
<1>10. TypeOK'
  <2>1. DOMAIN file' = DOMAIN disk' /\ \A o \in DOMAIN file' : file'[o] \in Seq(Sector)
    BY <1>1, <1>4, <1>7, <1>8 DEF Writes
  <2>2. file' \in [DOMAIN disk' -> Seq(Sector)]
    BY <1>4, <1>5, <1>8, <2>1
  <2> QED BY <1>1, <1>2, <1>8, <2>2 DEF TypeOK
<1>11. SavesInv'
  <2>1. ASSUME NEW o \in DOMAIN disk, NEW q \in DOMAIN file'[o] PROVE file'[o][q].save \in 1 .. (n + 1)
    <3>1. CASE o # r
      <4>1. file'[o] = file[o]
        BY <1>4, <1>7, <3>1 DEF Writes
      <4> QED BY <1>9, <4>1
    <3>2. CASE o = r /\ q \in p .. (p + size - 1)
      <4>1. file'[r][q].save = n + 1
        BY <1>7, <3>2 DEF Writes
      <4> QED BY <3>2, <4>1
    <3>3. CASE o = r /\ q \notin p .. (p + size - 1)
      <4>1. q \in DOMAIN file[r] /\ file'[r][q] = file[r][q]
        BY <1>7, <3>3 DEF Writes
      <4> QED BY <1>1, <1>9, <3>3, <4>1
    <3> QED BY <3>1, <3>2, <3>3
  <2>2. ASSUME NEW v \in 1 .. (n + 1) PROVE RegionOf(saves'[v].chunk) \in DOMAIN disk
    <3>1. CASE v \in 1..n
      BY <1>2, <3>1 DEF SavesInv
    <3>2. CASE v = n + 1
      <4>1. saves'[v].chunk = c
        BY <1>2, <3>2
      <4> QED BY <1>1, <4>1
    <3> QED BY <3>1, <3>2
  <2> QED BY <1>2, <1>8, <2>1, <2>2 DEF SavesInv
<1>12. ASSUME NEW d \in Coords
       PROVE  /\ d \in Int \X Int /\ FormatSlot(d) \in Slots
              /\ d # c => RegionOf(d) # r \/ FormatSlot(d) # g
              /\ \A m \in 0..n : Latest(d, m) \in 0..m /\ (Latest(d, m) > 0 => saves[Latest(d, m)].chunk = d)
  <2>1. d \in Int \X Int /\ c \in Int \X Int
    BY CoordsAssumption
  <2>2. \A m \in 0..n : Latest(d, m) \in 0..m /\ (Latest(d, m) > 0 => saves[Latest(d, m)].chunk = d)
    BY LatestIs DEF TypeOK
  <2> QED BY <2>1, <2>2, SlotsAre, SlotsDiffer
<1>13. DiskInv'
  <2>1. ASSUME NEW o \in DOMAIN disk, NEW d \in In(o)
        PROVE  Located(o, disk[o], Len(saves), d)'
    <3>1. d \in Coords /\ RegionOf(d) = o
      BY DEF In
    <3> PICK pl, v : pl = disk'[o][FormatSlot(d)] /\ v = Latest(d, k)'
      OBVIOUS
    <3>2. v = 0 \/ Lies(o, pl, v, k)'
      <4>1. CASE d = c
        <5>1. o = r /\ pl = p /\ v = n + 1
          BY <1>3, <1>8, <3>1, <4>1
        <5>2. saves'[v].size = size
          BY <1>2, <5>1
        <5>3. \A q \in DOMAIN file[r] : file[r][q].save \in 1..n
          BY <1>1, <1>9
        <5>4. Lies(r, p, v, k)'
          BY <1>6, <1>7, <5>1, <5>2, <5>3, LiesNew
        <5> QED BY <5>1, <5>4
      <4>2. CASE d # c /\ v # 0
        <5>1. pl = disk[o][FormatSlot(d)] /\ v = Latest(d, n)
          BY <1>3, <1>8, <1>12, <3>1, <4>2
        <5>2. v \in 1..n /\ saves[v].chunk = d
          <6>1. Latest(d, n) \in 0..n /\ (Latest(d, n) > 0 => saves[Latest(d, n)].chunk = d)
            <7>1. n \in 0..n
              OBVIOUS
            <7>2. \A m \in 0..n : Latest(d, m) \in 0..m /\ (Latest(d, m) > 0 => saves[Latest(d, m)].chunk = d)
              BY ONLY <1>12, <3>1
            <7> QED BY ONLY <7>1, <7>2, Zenon
          <6>2. v # 0
            BY <4>2
          <6>3. n \in Nat
            OBVIOUS
          <6> QED BY ONLY <5>1, <6>1, <6>2, <6>3
        <5>3. Lies(o, pl, v, n)
          BY <4>2, <5>1 DEF DiskInv, Located
        <5>4. ~Superseded(v)
          BY <5>1, <5>2 DEF Superseded
        <5>5. \A q \in p .. (p + size - 1) : q \in DOMAIN file[r] => file[r][q].save # v
          BY <1>5, <5>4
        <5>6. o \in DOMAIN file /\ saves'[v] = saves[v]
          BY <1>2, <1>4, <5>2
        <5>7. \A q \in DOMAIN file[o] : file[o][q].save \in 1..n
          BY <1>9
        <5>8. p \in Nat /\ size \in Nat /\ n \in Nat /\ k \in Nat
          BY <1>6
        <5>9. Lies(o, pl, v, k)'
          BY ONLY <1>7, <5>2, <5>3, <5>5, <5>6, <5>7, <5>8, LiesOn
        <5> QED BY <5>9
      <4> QED BY <4>1, <4>2
    <3>3. v = 0 => pl = Absent
      <4>1. SUFFICES ASSUME v = 0 PROVE pl = Absent
        OBVIOUS
      <4>2. d # c /\ v = Latest(d, n)
        BY <1>3, <4>1
      <4>3. pl = disk[o][FormatSlot(d)]
        BY <1>8, <1>12, <3>1, <4>2
      <4> QED BY <4>1, <4>2, <4>3 DEF DiskInv, Located
    <3>4. v = Latest(d, Len(saves))'
      <4>1. Latest(d, k)' = Max({w \in 1..k : saves'[w].chunk = d} \cup {0})
        BY DEF Latest
      <4> QED BY <1>2, <4>1 DEF Latest
    <3>5. Lies(o, pl, v, k)' = Lies(o, disk[o][FormatSlot(d)], Latest(d, Len(saves)), Len(saves))'
      BY <1>2, <3>4 DEF Lies, Span
    <3> QED BY <3>2, <3>3, <3>4, <3>5 DEF Located
  <2>2. ASSUME NEW o \in DOMAIN disk, NEW s \in Slots, disk'[o][s] # Absent
        PROVE  \E d \in In(o) : FormatSlot(d) = s /\ Latest(d, k)' > 0
    <3>1. CASE o = r /\ s = g
      <4>1. c \in In(o) /\ FormatSlot(c) = s
        BY <3>1 DEF In
      <4>2. Latest(c, k)' = k
        BY <1>3
      <4> QED BY <4>1, <4>2
    <3>2. CASE ~(o = r /\ s = g)
      <4>1. disk[o][s] # Absent
        BY <1>8, <2>2, <3>2
      <4>2. PICK d \in In(o) : FormatSlot(d) = s /\ Latest(d, n) > 0
        BY <4>1 DEF DiskInv
      <4>3. Latest(d, k)' > 0
        BY <1>3, <4>2
      <4> QED BY <4>2, <4>3
    <3> QED BY <3>1, <3>2
  <2>3. ASSUME NEW d PROVE Latest(d, Len(saves))' = Latest(d, k)'
    BY <1>2 DEF Latest
  <2>4. ASSUME NEW o \in DOMAIN disk, NEW s \in Slots, disk'[o][s] # Absent
        PROVE  \E d \in In(o) : FormatSlot(d) = s /\ Latest(d, Len(saves))' > 0
    BY <2>2, <2>3, <2>4
  <2> QED BY <1>8, <2>1, <2>4 DEF DiskInv
<1>14. KeptInv'
  <2> SUFFICES ASSUME NEW o \in DOMAIN regions, NEW d \in In(o)
               PROVE  Located(o, regions[o], readAt[o], d)'
    BY <1>1 DEF KeptInv
  <2>1. readAt[o] \in 0..n /\ o \in DOMAIN disk /\ d \in Coords
    BY DEF TypeOK, In
  <2> PICK m \in 0..n : m = readAt[o]
    BY <2>1
  <2> PICK pl, v : pl = regions[o][FormatSlot(d)] /\ v = Latest(d, m)
    OBVIOUS
  <2>2. IF v = 0 THEN pl = Absent ELSE Lies(o, pl, v, m)
    BY DEF KeptInv, Located
  <2>3. v \in 0..n
    BY <1>12, <2>1
  <2>4. v = 0 \/ Lies(o, pl, v, m)'
    <3> SUFFICES ASSUME v # 0 PROVE Lies(o, pl, v, m)'
      OBVIOUS
    <3>1. v \in 1..n /\ Lies(o, pl, v, m) /\ saves'[v] = saves[v] /\ o \in DOMAIN file
      BY <1>2, <1>4, <2>1, <2>2, <2>3
    <3> QED BY <1>6, <1>7, <3>1, LiesKept
  <2>5. v = Latest(d, m)' /\ m = readAt'[o] /\ pl = regions'[o][FormatSlot(d)]
    BY <1>1, <1>3
  <2>6. v = Latest(d, readAt[o])'
    BY <2>5 DEF Latest
  <2>7. Lies(o, pl, v, m)' = Lies(o, regions[o][FormatSlot(d)], Latest(d, readAt[o]), readAt[o])'
    BY <2>5, <2>6 DEF Lies, Span
  <2> QED BY <2>2, <2>4, <2>5, <2>6, <2>7 DEF Located
<1> QED BY <1>10, <1>11, <1>13, <1>14

LEMMA DiskSame ==
  ASSUME SavesInv, DiskInv, disk' = disk, file' = file, saves' = saves
  PROVE  SavesInv' /\ DiskInv'
<1>1. SavesInv'
  BY DEF SavesInv
<1>2. \A c : Latest(c, Len(saves))' = Latest(c, Len(saves))
  BY DEF Latest
<1>3. ASSUME NEW o \in DOMAIN disk, NEW c \in In(o) PROVE Located(o, disk[o], Len(saves), c)'
  <2> PICK h, m : h = disk[o] /\ m = Len(saves)
    OBVIOUS
  <2>1. Located(o, h, m, c)
    BY DEF DiskInv
  <2>2. Located(o, h, m, c)'
    BY <2>1, LocatedSame
  <2> QED BY <2>2 DEF Located, Lies, Span, Latest
<1>4. ASSUME NEW o \in DOMAIN disk, NEW s \in Slots, disk[o][s] # Absent
      PROVE  \E c \in In(o) : FormatSlot(c) = s /\ Latest(c, Len(saves))' > 0
  BY <1>2, <1>4 DEF DiskInv
<1>5. DiskInv'
  BY <1>3, <1>4 DEF DiskInv
<1> QED BY <1>1, <1>5

LEMMA LookupKeeps ==
  ASSUME IInv, NEW c \in Coords, GetChunk(c)
  PROVE  IInv'
<1> USE DEF IInv
<1> PICK r : r = RegionOf(c)
  OBVIOUS
<1>1. disk' = disk /\ file' = file /\ saves' = saves
  BY DEF GetChunk
<1>2. SavesInv' /\ DiskInv'
  BY <1>1, DiskSame
<1>3. CASE r \in DOMAIN regions \/ r \notin DOMAIN disk
  <2>1. regions' = regions /\ readAt' = readAt
    BY <1>3 DEF GetChunk, Open, TypeOK
  <2>2. TypeOK'
    BY <1>1, <2>1 DEF TypeOK
  <2>3. KeptInv'
    BY <1>1, <2>1, KeptSame
  <2> QED BY <1>2, <2>2, <2>3
<1>4. CASE r \notin DOMAIN regions /\ r \in DOMAIN disk
  <2>1. /\ regions' = Extended(regions, r, disk[r])
        /\ readAt' = Extended(readAt, r, Len(saves))
    BY <1>4 DEF GetChunk, Open, TypeOK
  <2>2. /\ DOMAIN regions' = DOMAIN regions \cup {r} /\ DOMAIN readAt' = DOMAIN regions \cup {r}
        /\ regions'[r] = disk[r] /\ readAt'[r] = Len(saves)
        /\ \A o \in DOMAIN regions : regions'[o] = regions[o] /\ readAt'[o] = readAt[o]
    BY <1>4, <2>1 DEF Extended, TypeOK
  <2>3. TypeOK'
    <3>1. disk[r] \in Headers
      BY <1>4 DEF TypeOK
    <3>2. Len(saves) \in 0..Len(saves)
      BY LenProperties DEF TypeOK
    <3>3. regions' \in [DOMAIN regions' -> Headers]
      BY <2>1, <2>2, <3>1, ExtendedMaps DEF TypeOK
    <3>4. readAt' \in [DOMAIN regions' -> 0..Len(saves)]
      <4>1. readAt \in [DOMAIN readAt -> 0..Len(saves)] /\ DOMAIN readAt \cup {r} = DOMAIN regions'
        BY <2>2 DEF TypeOK
      <4> QED BY <2>1, <3>2, <4>1, ExtendedMaps
    <3> QED BY <1>1, <1>4, <2>2, <3>3, <3>4 DEF TypeOK
  <2>4. KeptInv'
    <3> SUFFICES ASSUME NEW o \in DOMAIN regions', NEW d \in In(o)
                 PROVE  Located(o, regions[o], readAt[o], d)'
      BY DEF KeptInv
    <3> PICK h, m : h = regions'[o] /\ m = readAt'[o]
      OBVIOUS
    <3>1. Located(o, h, m, d)
      <4>1. CASE o = r
        <5>1. h = disk[r] /\ m = Len(saves)
          BY <2>2, <4>1
        <5> QED BY <1>4, <4>1, <5>1 DEF DiskInv
      <4>2. CASE o # r
        <5>1. o \in DOMAIN regions /\ h = regions[o] /\ m = readAt[o]
          BY <2>2, <4>2
        <5> QED BY <5>1 DEF KeptInv
      <4> QED BY <4>1, <4>2
    <3>2. Located(o, h, m, d)'
      BY <1>1, <3>1, LocatedSame
    <3> QED BY <3>2 DEF Located, Lies, Span, Latest
  <2> QED BY <1>2, <2>3, <2>4
<1> QED BY <1>3, <1>4

LEMMA StutterKeeps == ASSUME IInv, UNCHANGED vars PROVE IInv'
<1> USE DEF IInv, vars
<1>1. TypeOK'
  BY DEF TypeOK
<1>2. SavesInv' /\ DiskInv'
  BY DiskSame
<1>3. KeptInv'
  BY KeptSame
<1> QED BY <1>1, <1>2, <1>3

LEMMA NextKeeps == ASSUME IInv, [Next]_vars PROVE IInv'
<1>1. ASSUME NEW r \in Regions, Create(r) PROVE IInv'
  BY <1>1, CreateKeeps
<1>2. ASSUME NEW c \in Coords, GetChunk(c) PROVE IInv'
  BY <1>2, LookupKeeps
<1>3. ASSUME NEW c \in Coords, NEW size \in 1..MaxSize, NEW tight \in BOOLEAN, Save(c, size, tight)
      PROVE  IInv'
  BY <1>3, SaveKeeps
<1>4. CASE UNCHANGED vars
  BY <1>4, StutterKeeps
<1> QED BY <1>1, <1>2, <1>3, <1>4 DEF Next

\* For any region size, the model of the region files, of what has been read of
\* them and of the answers stays within its types.
THEOREM TypeCorrect == Spec => []TypeOK
<1>1. IInv => TypeOK
  BY DEF IInv
<1> QED BY <1>1, InitKeeps, NextKeeps, PTL DEF Spec

-----------------------------------------------------------------------------
\* What a lookup of c may answer when the header kept is that of n saves.
Answers(c, n, answer) ==
    LET v == Latest(c, n)
    IN IF v = 0 THEN answer = NotFound
       ELSE IF ~Intact(v) THEN answer = NotFound \/ answer.version > n
       ELSE IF saves[v].tight /\ AtTheEnd(v) THEN answer = NotFound
       ELSE answer = [chunk |-> c, version |-> v]

LEMMA WholeIff ==
  ASSUME NEW a \in Nat, NEW size \in Nat, size > 0, NEW S, S \subseteq a .. (a + size - 1)
  PROVE  Cardinality(S) = size <=> S = a .. (a + size - 1)
<1> DEFINE T == a .. (a + size - 1)
<1>1. IsFiniteSet(T) /\ Cardinality(T) = size
  BY FS_Interval
<1> HIDE DEF T
<1>2. Cardinality(S) = Cardinality(T) => S = T
  BY <1>1, FS_Subset DEF T
<1> QED BY <1>1, <1>2 DEF T

\* A header that tells where the saves were, as the file is now, answers as it should.
LEMMA LoadAnswers ==
  ASSUME TypeOK, SavesInv, NEW c \in Coords, RegionOf(c) \in DOMAIN disk,
         NEW h \in Headers, NEW n \in 0..Len(saves), Located(RegionOf(c), h, n, c)
  PROVE  Answers(c, n, Load(h, c))
<1> PICK r : r = RegionOf(c)
  OBVIOUS
<1> PICK v : v = Latest(c, n)
  OBVIOUS
<1>1. Slot(r, c) = FormatSlot(c) /\ FormatSlot(c) \in Slots
  BY CoordsAssumption, SlotsAre
<1> PICK p \in Nat : p = h[FormatSlot(c)]
  BY <1>1 DEF Headers
<1>2. n \in Nat /\ v \in 0..n /\ (v > 0 => saves[v].chunk = c)
  <2>1. Len(saves) \in Nat /\ saves \in Seq(Saved)
    BY LenProperties DEF TypeOK
  <2> QED BY <2>1, LatestIs
<1>3. CASE v = 0
  <2>1. p = Absent
    BY <1>3 DEF Located
  <2>2. Load(h, c) = NotFound
    BY <1>1, <2>1 DEF Load
  <2> QED BY <1>3, <2>2 DEF Answers
<1>4. CASE v # 0
  <2> PICK f : f = file[r]
    OBVIOUS
  <2>1. f \in Seq(Sector) /\ r \in DOMAIN file
    BY DEF TypeOK
  <2> PICK k \in Nat : k = Len(f) /\ DOMAIN f = 1..k /\ \A q \in 1..k : f[q] \in Sector
    BY <2>1, LenProperties, ElementOfSeq
  <2>2. v \in Nat /\ v > 0 /\ v <= n /\ saves[v].chunk = c /\ saves[v] \in Saved
    <3>1. v \in 1..Len(saves)
      BY <1>2, <1>4, LenProperties DEF TypeOK
    <3>2. saves[v] \in Saved
      BY <3>1, ElementOfSeq DEF TypeOK
    <3> QED BY <1>2, <1>4, <3>2
  <2> PICK size \in Nat : size = saves[v].size /\ size > 0
    BY <2>2, SavesAssumption DEF Saved
  <2>3. Lies(r, p, v, n)
    BY <1>4 DEF Located
  <2>4. /\ p > 0
        /\ \A q \in p .. (p + size - 1) : q \in 1..k /\ (f[q].save = v \/ f[q].save > n)
        /\ \A q \in 1..k : f[q].save = v => q \in p .. (p + size - 1) /\ f[q].part = q - p + 1
    BY <2>3 DEF Lies, Span
  <2>5. Sectors(v) = {q \in 1..k : f[q].save = v}
    BY <2>2 DEF Sectors
  <2>6. Sectors(v) \subseteq p .. (p + size - 1)
    BY <2>4, <2>5
  <2>7. Intact(v) <=> Sectors(v) = p .. (p + size - 1)
    BY <2>6, WholeIff DEF Intact
  <2>8. Load(h, c) = ReadAt(f, p)
    BY <1>1, <2>4 DEF Load, Absent
  <2>9. p \in p .. (p + size - 1) /\ p \in 1..k /\ f[p].save \in Nat
    <3>1. p \in p .. (p + size - 1)
      OBVIOUS
    <3> QED BY <2>4, <3>1 DEF Sector
  <2>10. CASE f[p].save # v
    <3>1. ~Intact(v)
      BY <2>5, <2>7, <2>9, <2>10
    <3>2. f[p].save > n
      BY <2>4, <2>9, <2>10
    <3>3. ReadAt(f, p) = NotFound \/ ReadAt(f, p).version = f[p].save
      BY DEF ReadAt
    <3> QED BY <1>4, <2>8, <3>1, <3>2, <3>3 DEF Answers
  <2>11. CASE f[p].save = v
    <3>1. (\A q \in p .. (p + size - 1) : q \in DOMAIN f /\ f[q] = [save |-> v, part |-> q - p + 1])
            <=> Intact(v)
      <4>1. ASSUME NEW q \in 1..k, f[q].save = v PROVE f[q] = [save |-> v, part |-> q - p + 1]
        BY <2>4, <4>1 DEF Sector
      <4>2. ASSUME Intact(v)
            PROVE  \A q \in p .. (p + size - 1) : q \in 1..k /\ f[q] = [save |-> v, part |-> q - p + 1]
        BY <2>5, <2>7, <4>1, <4>2
      <4>3. ASSUME \A q \in p .. (p + size - 1) : q \in 1..k /\ f[q] = [save |-> v, part |-> q - p + 1]
            PROVE  Intact(v)
        <5>1. ASSUME NEW q \in p .. (p + size - 1) PROVE q \in Sectors(v)
          <6>1. q \in 1..k /\ f[q] = [save |-> v, part |-> q - p + 1]
            BY <4>3, Zenon
          <6>2. f[q].save = v
            BY <6>1
          <6> QED BY <2>5, <6>1, <6>2
        <5> QED BY <2>6, <2>7, <5>1
      <4> QED BY <4>2, <4>3
    <3>2. ReadAt(f, p) = IF Intact(v) /\ (saves[v].tight => p + size \in DOMAIN f)
                         THEN [chunk |-> c, version |-> v] ELSE NotFound
      <4>1. saves[v].size = size
        OBVIOUS
      <4> QED BY <2>2, <2>11, <3>1, <4>1 DEF ReadAt
    <3>3. CASE ~Intact(v)
      BY <1>4, <2>8, <3>2, <3>3 DEF Answers
    <3>4. CASE Intact(v)
      <4>1. Sectors(v) = p .. (p + size - 1)
        BY <2>7, <3>4
      <4> PICK e \in Nat : e = p + size - 1
        BY <2>4
      <4>2. e \in p..e /\ p..e \subseteq Nat /\ \A y \in p..e : y <= e
        BY <2>9
      <4>3. Max(p..e) = e
        BY <4>2, MaxIs
      <4>4. AtTheEnd(v) <=> e = k
        BY <2>2, <4>1, <4>3 DEF AtTheEnd
      <4>5. e \in 1..k
        BY <2>4, <4>2
      <4>6. p + size \in DOMAIN f <=> e # k
        <5>1. p + size = e + 1 /\ e <= k /\ e >= 1
          BY <4>5
        <5>2. DOMAIN f = 1..k /\ k \in Int /\ e \in Int
          OBVIOUS
        <5> QED BY ONLY <5>1, <5>2
      <4> QED BY <1>4, <2>8, <3>2, <3>4, <4>4, <4>6 DEF Answers
    <3> QED BY <3>3, <3>4
  <2> QED BY <2>10, <2>11
<1> QED BY <1>3, <1>4

\* The number of saves that the header had which the last lookup went by.
Opened == IF RegionOf(asked) \in DOMAIN readAt THEN readAt[RegionOf(asked)] ELSE 0

LEMMA AnswersNext ==
  ASSUME NEW c, c = asked', NEW n, n = Opened', NEW x, x = result', Answers(c, n, x)'
  PROVE  SnapshotAnswers'
<1> PICK v : v = Latest(c, n)'
  OBVIOUS
<1>1. v = Latest(asked, Opened)'
  BY DEF Latest
<1>2. Intact(v)' = Intact(Latest(asked, Opened))'
  BY <1>1 DEF Intact, Sectors
<1>3. AtTheEnd(v)' = AtTheEnd(Latest(asked, Opened))'
  BY <1>1 DEF AtTheEnd, Sectors
<1>4. /\ Latest(c, n)' = v /\ Intact(Latest(c, n))' = Intact(v)' /\ AtTheEnd(Latest(c, n))' = AtTheEnd(v)'
  BY DEF AtTheEnd, Intact, Sectors
<1> QED BY <1>1, <1>2, <1>3, <1>4 DEF SnapshotAnswers, Answers, Opened

LEMMA LookupAnswers ==
  ASSUME IInv, NEW c \in Coords, GetChunk(c)
  PROVE  SnapshotAnswers'
<1> USE DEF IInv
<1> PICK r : r = RegionOf(c)
  OBVIOUS
<1>1. file' = file /\ saves' = saves /\ asked' = c
  BY DEF GetChunk
<1>2. PICK n \in 0..Len(saves) :
        /\ n = IF r \in DOMAIN readAt' THEN readAt'[r] ELSE 0
        /\ Answers(c, n, result')
  <2>1. CASE r \in DOMAIN regions
    <3>1. regions' = regions /\ readAt' = readAt /\ DOMAIN readAt = DOMAIN regions
      BY <2>1 DEF GetChunk, Open, TypeOK
    <3>2. regions[r] \in Headers /\ readAt[r] \in 0..Len(saves) /\ r \in DOMAIN disk
      BY <2>1 DEF TypeOK
    <3>3. Located(r, regions[r], readAt[r], c)
      BY <2>1 DEF KeptInv, In
    <3>4. Answers(c, readAt[r], Load(regions[r], c))
      BY <3>2, <3>3, LoadAnswers
    <3>5. result' = Load(regions[r], c)
      BY <2>1, <3>1 DEF GetChunk
    <3> QED BY <2>1, <3>1, <3>2, <3>4, <3>5
  <2>2. CASE r \notin DOMAIN regions /\ r \in DOMAIN disk
    <3>1. /\ regions' = Extended(regions, r, disk[r])
          /\ readAt' = Extended(readAt, r, Len(saves))
      BY <2>2 DEF GetChunk, Open, TypeOK
    <3>2. r \in DOMAIN regions' /\ regions'[r] = disk[r] /\ r \in DOMAIN readAt' /\ readAt'[r] = Len(saves)
      BY <3>1 DEF Extended
    <3>3. disk[r] \in Headers /\ Len(saves) \in 0..Len(saves)
      BY <2>2, LenProperties DEF TypeOK
    <3>4. Located(r, disk[r], Len(saves), c)
      BY <2>2 DEF DiskInv, In
    <3>5. Answers(c, Len(saves), Load(disk[r], c))
      BY <2>2, <3>3, <3>4, LoadAnswers
    <3>6. result' = Load(disk[r], c)
      BY <3>2 DEF GetChunk
    <3> QED BY <3>2, <3>3, <3>5, <3>6
  <2>3. CASE r \notin DOMAIN disk
    <3>1. r \notin DOMAIN regions' /\ r \notin DOMAIN readAt'
      BY <2>3 DEF GetChunk, Open, TypeOK
    <3>2. result' = NotFound
      BY <3>1 DEF GetChunk
    <3>3. 0 \in 0..Len(saves) /\ saves \in Seq(Saved)
      BY LenProperties DEF TypeOK
    <3>4. Latest(c, 0) = 0
      BY <3>3, LatestIs
    <3> QED BY <3>1, <3>2, <3>3, <3>4 DEF Answers
  <2> QED BY <2>1, <2>2, <2>3
<1> PICK v : v = Latest(c, n)
  OBVIOUS
<1>3. /\ Latest(c, n)' = v /\ saves'[v] = saves[v]
      /\ Sectors(v)' = Sectors(v) /\ Intact(v)' = Intact(v) /\ AtTheEnd(v)' = AtTheEnd(v)
  BY <1>1 DEF Latest, Sectors, Intact, AtTheEnd
<1> PICK x : x = result'
  OBVIOUS
<1>4. Answers(c, n, x)'
  BY <1>1, <1>2, <1>3 DEF Answers
<1>5. n = Opened'
  BY <1>1, <1>2 DEF Opened
<1> QED BY <1>1, <1>4, <1>5, AnswersNext

LEMMA AnswersInductive == ASSUME IInv, SnapshotAnswers, [Next]_vars PROVE SnapshotAnswers'
<1>1. ASSUME NEW c \in Coords, GetChunk(c) PROVE SnapshotAnswers'
  BY <1>1, LookupAnswers
<1>2. ASSUME NEW r, Create(r) PROVE SnapshotAnswers'
  BY <1>2 DEF Create, SnapshotAnswers
<1>3. ASSUME NEW c, NEW size, NEW tight, Save(c, size, tight) PROVE SnapshotAnswers'
  BY <1>3 DEF Save, SnapshotAnswers
<1>4. CASE UNCHANGED vars
  <2> USE <1>4 DEF vars
  <2> PICK c, n, x : c = asked /\ n = Opened /\ x = result
    OBVIOUS
  <2>1. CASE c = <<>>
    BY <2>1 DEF SnapshotAnswers
  <2>2. CASE c # <<>>
    <3>1. Answers(c, n, x)
      BY <2>2 DEF SnapshotAnswers, Answers, Opened
    <3>2. Answers(c, n, x)' = Answers(c, n, x)
      BY DEF Answers, Latest, Intact, Sectors, AtTheEnd
    <3>3. c = asked' /\ n = Opened' /\ x = result'
      BY DEF Opened
    <3> QED BY <3>1, <3>2, <3>3, AnswersNext
  <2> QED BY <2>1, <2>2
<1> QED BY <1>1, <1>2, <1>3, <1>4 DEF Next

LEMMA Listed == IInv => HeaderIsListed
<1> SUFFICES ASSUME IInv, NEW r \in DOMAIN disk
             PROVE  ChunkCoords(r, disk[r]) = {c \in Coords : RegionOf(c) = r /\ Latest(c, Len(saves)) > 0}
  BY DEF HeaderIsListed
<1> USE DEF IInv
<1> PICK n \in Nat : n = Len(saves)
  BY LenProperties DEF TypeOK
<1> PICK h : h = disk[r]
  OBVIOUS
<1>1. Side \in Nat /\ Side > 0
  BY SideAssumption
<1>2. ASSUME NEW i \in 0 .. (Side - 1), NEW j \in 0 .. (Side - 1), h[i + j * Side] # Absent
      PROVE  \E c \in Coords : /\ RegionOf(c) = r /\ Latest(c, n) > 0
                               /\ c = <<r[1] * Side + i, r[2] * Side + j>>
  <2>1. i + j * Side \in Slots
    BY <1>1, PlacesFit DEF Slots
  <2>2. PICK c \in In(r) : FormatSlot(c) = i + j * Side /\ Latest(c, n) > 0
    BY <1>2, <2>1 DEF DiskInv
  <2>3. c \in Coords /\ RegionOf(c) = r /\ c \in Int \X Int
    BY CoordsAssumption DEF In
  <2>4. /\ c[1] % Side \in 0 .. (Side - 1) /\ c[2] % Side \in 0 .. (Side - 1)
        /\ c = <<r[1] * Side + (c[1] % Side), r[2] * Side + (c[2] % Side)>>
    BY <2>3, SlotsAre
  <2> PICK x \in 0 .. (Side - 1), y \in 0 .. (Side - 1) : x = c[1] % Side /\ y = c[2] % Side
    BY <2>4
  <2>5. x + y * Side = i + j * Side
    BY <2>2 DEF FormatSlot
  <2>6. x \in 0 .. (Side - 1) /\ y \in Int /\ i \in 0 .. (Side - 1) /\ j \in Int
    OBVIOUS
  <2>7. x = i /\ y = j
    BY ONLY <1>1, <2>5, <2>6, PlacesDiffer
  <2> QED BY <2>2, <2>3, <2>4, <2>7
<1>3. ASSUME NEW c \in Coords, RegionOf(c) = r, Latest(c, n) > 0
      PROVE  \E i \in 0 .. (Side - 1), j \in 0 .. (Side - 1) :
                /\ h[i + j * Side] # Absent
                /\ c = <<r[1] * Side + i, r[2] * Side + j>>
  <2>1. c \in Int \X Int /\ c \in In(r)
    BY <1>3, CoordsAssumption DEF In
  <2>2. Located(r, h, n, c)
    BY <2>1 DEF DiskInv
  <2>3. h[FormatSlot(c)] > 0
    BY <1>3, <2>2 DEF Located, Lies
  <2>4. /\ c[1] % Side \in 0 .. (Side - 1) /\ c[2] % Side \in 0 .. (Side - 1)
        /\ c = <<r[1] * Side + (c[1] % Side), r[2] * Side + (c[2] % Side)>>
    BY <1>3, <2>1, SlotsAre
  <2>5. h[(c[1] % Side) + (c[2] % Side) * Side] # Absent
    BY <2>3 DEF FormatSlot, Absent
  <2> QED BY <2>4, <2>5
<1>4. ASSUME NEW c
      PROVE  c \in ChunkCoords(r, h) <=> \E i \in 0 .. (Side - 1), j \in 0 .. (Side - 1) :
                /\ h[i + j * Side] # Absent
                /\ c = <<r[1] * Side + i, r[2] * Side + j>>
  <2> DEFINE Place(l) == <<r[1] * Side + l[1], r[2] * Side + l[2]>>
             L == {m \in (0 .. (Side - 1)) \X (0 .. (Side - 1)) : h[m[1] + m[2] * Side] # Absent}
  <2>1. ChunkCoords(r, h) = {Place(l) : l \in L}
    BY DEF ChunkCoords
  <2>2. ASSUME NEW i \in 0 .. (Side - 1), NEW j \in 0 .. (Side - 1)
        PROVE  /\ Place(<<i, j>>) = <<r[1] * Side + i, r[2] * Side + j>>
               /\ <<i, j>> \in L <=> h[i + j * Side] # Absent
    OBVIOUS
  <2>3. \A l \in L : \E i \in 0 .. (Side - 1), j \in 0 .. (Side - 1) : l = <<i, j>>
    OBVIOUS
  <2>4. ASSUME c \in ChunkCoords(r, h)
        PROVE  \E i \in 0 .. (Side - 1), j \in 0 .. (Side - 1) :
                  /\ h[i + j * Side] # Absent
                  /\ c = <<r[1] * Side + i, r[2] * Side + j>>
    <3> PICK l \in L : c = Place(l)
      BY <2>1, <2>4, Zenon
    <3> PICK i \in 0 .. (Side - 1), j \in 0 .. (Side - 1) : l = <<i, j>>
      BY <2>3
    <3> HIDE DEF Place, L
    <3>1. <<i, j>> \in L /\ c = Place(<<i, j>>)
      OBVIOUS
    <3> QED BY <2>2, <3>1
  <2>5. ASSUME NEW i \in 0 .. (Side - 1), NEW j \in 0 .. (Side - 1), h[i + j * Side] # Absent,
               c = <<r[1] * Side + i, r[2] * Side + j>>
        PROVE  c \in ChunkCoords(r, h)
    <3> HIDE DEF Place, L
    <3>1. <<i, j>> \in L /\ c = Place(<<i, j>>)
      BY <2>2, <2>5
    <3> QED BY <2>1, <3>1
  <2> QED BY <2>4, <2>5
<1> QED BY <1>2, <1>3, <1>4

\* A lookup answers from one state of the region file, whatever is saved after
\* it was opened, and the header of each file lists what was saved there, under
\* the coordinates that lookups find it by: for any region size and any
\* coordinates, on either side of 0 (world.rs:27, region.rs:131 and 163).
THEOREM SnapshotsAnswer == Spec => []LookupIsSnapshot
<1>1. Init => IInv /\ SnapshotAnswers
  BY InitKeeps DEF Init, SnapshotAnswers
<1>2. IInv /\ SnapshotAnswers /\ [Next]_vars => (IInv /\ SnapshotAnswers)'
  BY NextKeeps, AnswersInductive
<1>3. IInv /\ SnapshotAnswers => LookupIsSnapshot
  BY Listed DEF LookupIsSnapshot
<1> QED BY <1>1, <1>2, <1>3, PTL DEF Spec
-----------------------------------------------------------------------------
\* VarInts: what is proved of VarIntCodec holds of it here.
W == INSTANCE VarIntCodecProofs WITH pc <- v_pc, pos <- v_pos, v <- v_v

\* The functions of VarInt are the same ones.
LEMMA SameFunctions ==
  /\ V!Byte = W!Byte
  /\ \A b : V!More(b) <=> W!More(b)
  /\ \A n : V!EncodedLen(n) = W!EncodedLen(n) /\ V!Groups(n) = W!Groups(n) /\ V!ToBytes(n) = W!ToBytes(n)
  /\ \A s : V!FromBytes(s) = W!FromBytes(s)
<1>1. V!Byte = W!Byte /\ \A b : V!More(b) <=> W!More(b)
  BY DEF V!Byte, W!Byte, V!More, W!More
<1>2. \A S : V!Min(S) = W!Min(S)
  BY DEF V!Min, W!Min
<1>3. \A n : V!EncodedLen(n) = W!EncodedLen(n) /\ V!Groups(n) = W!Groups(n)
  BY <1>2 DEF V!EncodedLen, W!EncodedLen, V!Groups, W!Groups
<1>4. \A n : V!ToBytes(n) = W!ToBytes(n)
  BY <1>3 DEF V!ToBytes, W!ToBytes
<1>5. \A s : V!Ends(s) = W!Ends(s)
  BY <1>1 DEF V!Ends, W!Ends
<1>6. \A s, n : V!ValueOf(s, n) = W!ValueOf(s, n)
  BY DEF V!ValueOf, W!ValueOf
<1>7. \A s : V!FromBytes(s) = W!FromBytes(s)
  BY <1>2, <1>5, <1>6 DEF V!FromBytes, W!FromBytes
<1> QED BY <1>1, <1>3, <1>4, <1>7

\* VarIntCodecProofs' induction, told of the instance.
LEMMA CodecKeeps ==
  /\ W!Assumptions
  /\ V!Init => W!IInv
  /\ W!IInv /\ [V!Next]_(V!vars) => W!IInv'
<1>1. W!Assumptions
  BY ConstantsFit, SameFunctions
     DEF W!Assumptions, V!BaseAssumption, W!BaseAssumption, V!SizeAssumption, W!SizeAssumption,
         V!WeightAssumption, W!WeightAssumption, V!ForeignAssumption, W!ForeignAssumption
<1>2. V!Init => W!IInv
  <2>1. V!Init => W!Init
    BY DEF V!Init, W!Init
  <2> QED BY <1>1, <2>1, W!Initial
<1>3. W!IInv /\ [V!Next]_(V!vars) => W!IInv'
  <2>1. [V!Next]_(V!vars) => [W!Next]_(W!vars)
    BY DEF V!Next, V!vars, V!Write, V!Deliver, V!Exhausted, V!Read, V!More,
           W!Next, W!vars, W!Write, W!Deliver, W!Exhausted, W!Read, W!More
  <2> QED BY <1>1, <2>1, W!Inductive
<1> QED BY <1>1, <1>2, <1>3

\* Whatever bytes it meets, read says "incomplete" exactly when more could still
\* make a VarInt (varint.rs: VarInt::read, VarLong::read).
THEOREM VerdictExact == V!Spec => []VerdictIsExact
<1>1. W!IInv => VerdictIsExact
  <2>1. W!VerdictIsExact => V!VerdictIsExact
    BY DEF V!VerdictIsExact, W!VerdictIsExact, V!More, W!More
  <2> QED BY <2>1, CodecKeeps, W!Verdicts DEF VerdictIsExact
<1> QED BY <1>1, CodecKeeps, PTL DEF V!Spec

\* Every value is written in the number of bytes that both encoded_len announce,
\* and read back from them; read's loop computes FromBytes (varint.rs).
THEOREM RoundTripHolds == V!Spec => []RoundTrip
<1>1. W!IInv => RoundTrip
  <2>1. W!RoundTrip => V!RoundTrip
    BY SameFunctions DEF V!RoundTrip, W!RoundTrip
  <2> QED BY <2>1, CodecKeeps, W!RoundTrips DEF RoundTrip
<1> QED BY <1>1, CodecKeeps, PTL DEF V!Spec
-----------------------------------------------------------------------------
\* Captures: the numbers of a set in their order.  Capture counts with the
\* Cardinality of FiniteSets.
LEMMA SameCount == ASSUME NEW T PROVE C!Cardinality(T) = Cardinality(T)
BY DEF C!Cardinality, Cardinality

\* Of a finite set of numbers each place is taken.
LEMMA PlacesTaken ==
  ASSUME NEW T, T \subseteq Nat, IsFiniteSet(T)
  PROVE  \A i \in Nat : i < Cardinality(T) => \E x \in T : Cardinality({m \in T : m < x}) = i
<1> PICK n \in Nat : n = Cardinality(T)
  BY FS_CardinalityType
<1> DEFINE P == {i \in Nat : i < n => \E x \in T : Cardinality({m \in T : m < x}) = i}
<1>1. 0 \in P
  <2> SUFFICES ASSUME 0 < n PROVE \E x \in T : Cardinality({m \in T : m < x}) = 0
    OBVIOUS
  <2>1. T # {}
    BY FS_EmptySet
  <2> PICK x : x = W!Min(T)
    OBVIOUS
  <2>2. x \in T /\ \A y \in T : x <= y
    BY <2>1, W!LeastOf
  <2>3. {m \in T : m < x} = {}
    <3> SUFFICES ASSUME NEW m \in T, m < x PROVE FALSE
      OBVIOUS
    <3>1. x <= m /\ x \in Nat /\ m \in Nat
      BY <2>2
    <3> QED BY <3>1
  <2> QED BY <2>2, <2>3, FS_EmptySet
<1>2. ASSUME NEW i \in Nat, i \in P PROVE i + 1 \in P
  <2> SUFFICES ASSUME i + 1 < n PROVE \E x \in T : Cardinality({m \in T : m < x}) = i + 1
    OBVIOUS
  <2>1. PICK x \in T : Cardinality({m \in T : m < x}) = i
    BY <1>2
  <2> PICK D : D = {m \in T : m < x} \cup {x}
    OBVIOUS
  <2>2. IsFiniteSet({m \in T : m < x}) /\ x \notin {m \in T : m < x}
    <3>1. {m \in T : m < x} \in SUBSET T /\ x \in Nat
      OBVIOUS
    <3> QED BY <3>1, FS_Subset
  <2>3. IsFiniteSet(D) /\ Cardinality(D) = i + 1
    BY <2>1, <2>2, FS_AddElement
  <2>4. \A m : m \in D <=> m \in T /\ m <= x
    <3> TAKE m
    <3>1. x \in T /\ x \in Nat /\ (m \in T => m \in Nat)
      OBVIOUS
    <3>2. m \in D <=> (m \in T /\ m < x) \/ m = x
      OBVIOUS
    <3> QED BY ONLY <3>1, <3>2
  <2>5. T \ D # {}
    <3> SUFFICES ASSUME T \ D = {} PROVE FALSE
      OBVIOUS
    <3>1. D = T
      BY <2>4
    <3> QED BY <2>3, <3>1
  <2> PICK y : y = W!Min(T \ D)
    OBVIOUS
  <2>6. y \in T \ D /\ \A z \in T \ D : y <= z
    <3>1. T \ D \subseteq Nat
      OBVIOUS
    <3> QED BY <2>5, <3>1, W!LeastOf
  <2>7. ASSUME NEW m \in T PROVE m < y <=> m \in D
    <3>1. m \in Nat /\ y \in Nat /\ x \in Nat /\ ~(y <= x)
      BY <2>4, <2>6
    <3>2. m \notin D => y <= m
      BY <2>6
    <3> QED BY <2>4, <3>1, <3>2
  <2>8. {m \in T : m < y} = D
    BY <2>4, <2>7
  <2> QED BY <2>3, <2>6, <2>8
<1> HIDE DEF P
<1>3. Nat \subseteq P
  BY <1>1, <1>2, W!NatSetInduction
<1> QED BY <1>3 DEF P

\* The i-th number of a set is one of it with i - 1 below it; the numbers come
\* in order.
LEMMA NthIs ==
  ASSUME NEW T, T \subseteq Nat, IsFiniteSet(T), NEW i \in 1 .. Cardinality(T)
  PROVE  C!Nth(T, i) \in T /\ Cardinality({m \in T : m < C!Nth(T, i)}) = i - 1
<1>1. i - 1 \in Nat /\ i - 1 < Cardinality(T)
  BY FS_CardinalityType
<1>2. \E x \in T : C!Cardinality({m \in T : m < x}) = i - 1
  BY <1>1, PlacesTaken, SameCount
<1>3. C!Nth(T, i) \in T /\ C!Cardinality({m \in T : m < C!Nth(T, i)}) = i - 1
  BY <1>2, Zenon DEF C!Nth
<1> QED BY <1>3, SameCount

LEMMA NthRises ==
  ASSUME NEW T, T \subseteq Nat, IsFiniteSet(T),
         NEW i \in 1 .. Cardinality(T), NEW j \in 1 .. Cardinality(T), i < j
  PROVE  C!Nth(T, i) < C!Nth(T, j)
<1> PICK x, y : x = C!Nth(T, i) /\ y = C!Nth(T, j)
  OBVIOUS
<1>1. /\ x \in T /\ Cardinality({m \in T : m < x}) = i - 1
      /\ y \in T /\ Cardinality({m \in T : m < y}) = j - 1
  BY NthIs
<1>2. x \in Nat /\ y \in Nat
  BY <1>1
<1>3. ASSUME y <= x PROVE FALSE
  <2>1. {m \in T : m < y} \in SUBSET {m \in T : m < x}
    <3> SUFFICES ASSUME NEW m \in T, m < y PROVE m < x
      OBVIOUS
    <3>1. m \in Nat
      OBVIOUS
    <3> QED BY <1>2, <1>3, <3>1
  <2>2. IsFiniteSet({m \in T : m < x})
    <3>1. {m \in T : m < x} \in SUBSET T
      OBVIOUS
    <3> QED BY <3>1, FS_Subset
  <2>3. Cardinality({m \in T : m < y}) <= Cardinality({m \in T : m < x})
    BY <2>1, <2>2, FS_Subset
  <2> QED BY <1>1, <2>3
<1> QED BY <1>2, <1>3

-----------------------------------------------------------------------------
\* The files hold packets of this run of the proxy and of earlier ones, each
\* under the number that the counter had.
CaptureTypeOK ==
    /\ number \in Nat /\ seen \in [Conns -> Nat] /\ run \in Nat \ {0} /\ failed \in BOOLEAN
    /\ IsFiniteSet(DOMAIN files)
    /\ \A f \in DOMAIN files : /\ f.n \in Nat /\ files[f].conn \in Conns
                               /\ files[f].run \in 1..run /\ files[f].k \in Nat

\* Of one connection in one run, later packets have higher numbers; the next
\* packet will have a higher one than all of its run.
OrderInv == \A f, g \in DOMAIN files :
    files[f].run = files[g].run /\ files[f].conn = files[g].conn => (f.n < g.n <=> files[f].k < files[g].k)
NextInv == \A f \in DOMAIN files :
    files[f].run = run => f.n < number /\ files[f].k <= seen[files[f].conn]

\* A connection that saw every packet of the first run: then all files are its
\* own, and unless one could not be written they are numbered without a gap.
AloneInv == run = 1 => \A c \in Conns :
    /\ seen[c] <= number
    /\ seen[c] = number =>
          \A f \in DOMAIN files : files[f] = [run |-> 1, conn |-> c, k |-> f.n + 1]
GapInv == run = 1 /\ ~failed => {f.n : f \in DOMAIN files} = 0 .. (number - 1)

CaptureInv == /\ C!LoadsAsRelayed
              /\ c_pc # "loaded" => CaptureTypeOK /\ OrderInv /\ NextInv /\ AloneInv /\ GapInv

LEMMA CaptureInit == C!Init => CaptureInv
<1> SUFFICES ASSUME C!Init PROVE CaptureInv
  OBVIOUS
<1>1. /\ number = 0 /\ seen = [c \in Conns |-> 0] /\ run = 1 /\ DOMAIN files = {} /\ failed = FALSE
      /\ c_pc = "capture"
  BY DEF C!Init
<1>2. CaptureTypeOK
  <2>1. IsFiniteSet(DOMAIN files)
    BY <1>1, FS_EmptySet, Zenon
  <2>2. number \in Nat /\ run \in Nat \ {0} /\ failed \in BOOLEAN /\ seen \in [Conns -> Nat]
    <3>1. number \in Nat /\ run \in Nat \ {0}
      BY <1>1
    <3>2. failed \in BOOLEAN
      BY ONLY <1>1, Zenon
    <3>3. seen \in [Conns -> Nat]
      BY ONLY <1>1
    <3> QED BY <3>1, <3>2, <3>3
  <2> QED BY <1>1, <2>1, <2>2 DEF CaptureTypeOK
<1>3. OrderInv /\ NextInv /\ AloneInv /\ GapInv
  BY <1>1 DEF OrderInv, NextInv, AloneInv, GapInv
<1> QED BY <1>1, <1>2, <1>3 DEF CaptureInv, C!LoadsAsRelayed

\* A packet is written to its file, or only counted.
LEMMA DumpKeeps == ASSUME CaptureInv, NEW c \in Conns, NEW pid, C!Dump(c, pid) PROVE CaptureInv'
<1>1. /\ c_pc = "capture" /\ c_pc' = "capture" /\ run' = run /\ number' = number + 1
      /\ seen' = [seen EXCEPT ![c] = @ + 1]
  BY DEF C!Dump
<1>2. CaptureTypeOK /\ OrderInv /\ NextInv /\ AloneInv /\ GapInv
  BY <1>1 DEF CaptureInv
<1>3. /\ number \in Nat /\ run \in Nat \ {0} /\ seen[c] \in Nat /\ seen' \in [Conns -> Nat]
      /\ seen'[c] = seen[c] + 1 /\ \A d \in Conns : d # c => seen'[d] = seen[d]
  BY <1>1, <1>2 DEF CaptureTypeOK
<1> DEFINE x == [n |-> number, id |-> c, pid |-> pid]
           y == [run |-> run, conn |-> c, k |-> seen[c] + 1]
<1>4. CASE files' = files /\ failed' = TRUE
  <2>1. CaptureTypeOK'
    BY <1>1, <1>2, <1>3, <1>4 DEF CaptureTypeOK
  <2>2. OrderInv'
    BY <1>2, <1>4 DEF OrderInv
  <2>3. NextInv'
    <3> SUFFICES ASSUME NEW f \in DOMAIN files, files[f].run = run
                 PROVE  f.n < number + 1 /\ files[f].k <= seen'[files[f].conn]
      BY <1>1, <1>4 DEF NextInv
    <3>1. f.n < number /\ files[f].k <= seen[files[f].conn] /\ f.n \in Nat /\ files[f].k \in Nat
          /\ files[f].conn \in Conns /\ seen[files[f].conn] \in Nat
      BY <1>2 DEF NextInv, CaptureTypeOK
    <3>2. seen[files[f].conn] <= seen'[files[f].conn] /\ seen'[files[f].conn] \in Nat
      BY <1>3, <3>1
    <3> QED BY <1>3, <3>1, <3>2
  <2>4. AloneInv'
    <3> SUFFICES ASSUME run = 1, NEW d \in Conns
                 PROVE  /\ seen'[d] <= number + 1
                        /\ seen'[d] = number + 1 =>
                              \A f \in DOMAIN files : files[f] = [run |-> 1, conn |-> d, k |-> f.n + 1]
      BY <1>1, <1>4 DEF AloneInv
    <3>1. seen[d] <= number /\ seen[d] \in Nat
      BY <1>2 DEF AloneInv, CaptureTypeOK
    <3>2. CASE d = c
      BY <1>2, <1>3, <3>1, <3>2 DEF AloneInv
    <3>3. CASE d # c
      BY <1>3, <3>1, <3>3
    <3> QED BY <3>2, <3>3
  <2>5. GapInv'
    BY <1>4 DEF GapInv
  <2> QED BY <1>1, <2>1, <2>2, <2>3, <2>4, <2>5 DEF CaptureInv, C!LoadsAsRelayed
<1>5. CASE failed' = failed /\ files' = C!Written(x, y)
  <2>1. /\ DOMAIN files' = DOMAIN files \cup {x} /\ files'[x] = y
        /\ \A f \in DOMAIN files : f # x => files'[f] = files[f]
    BY <1>5 DEF C!Written
  <2>2. x.n = number /\ y.run = run /\ y.conn = c /\ y.k = seen[c] + 1
    OBVIOUS
  <2> HIDE DEF x, y
  <2>3. CaptureTypeOK'
    <3>1. IsFiniteSet(DOMAIN files')
      BY <1>2, <2>1, FS_AddElement DEF CaptureTypeOK
    <3>2. ASSUME NEW f \in DOMAIN files'
          PROVE  f.n \in Nat /\ files'[f].conn \in Conns /\ files'[f].run \in 1..run /\ files'[f].k \in Nat
      <4>1. CASE f = x
        <5>1. seen[c] + 1 \in Nat /\ run \in 1..run
          BY <1>3
        <5> QED BY ONLY <1>3, <2>1, <2>2, <4>1, <5>1
      <4>2. CASE f # x
        BY <1>2, <2>1, <4>2 DEF CaptureTypeOK
      <4> QED BY <4>1, <4>2
    <3>3. failed' \in BOOLEAN
      BY <1>2, <1>5 DEF CaptureTypeOK
    <3> QED BY <1>1, <1>3, <3>1, <3>2, <3>3 DEF CaptureTypeOK
  <2>4. ASSUME NEW f \in DOMAIN files, files[f].run = run
        PROVE  /\ f.n < number /\ f.n \in Nat /\ files[f].k \in Nat /\ files[f].k <= seen'[files[f].conn]
               /\ files[f].conn = c => files[f].k < seen[c] + 1
    <3>1. f.n < number /\ files[f].k <= seen[files[f].conn] /\ f.n \in Nat /\ files[f].k \in Nat
          /\ files[f].conn \in Conns /\ seen[files[f].conn] \in Nat
      BY <1>2, <2>4 DEF NextInv, CaptureTypeOK
    <3>2. seen[files[f].conn] <= seen'[files[f].conn] /\ seen'[files[f].conn] \in Nat
      BY <1>3, <3>1
    <3> QED BY <1>3, <3>1, <3>2
  <2>5. OrderInv'
    <3> SUFFICES ASSUME NEW f \in DOMAIN files', NEW g \in DOMAIN files',
                        files'[f].run = files'[g].run, files'[f].conn = files'[g].conn
                 PROVE  f.n < g.n <=> files'[f].k < files'[g].k
      BY DEF OrderInv
    <3>1. CASE f = x /\ g = x
      <4>1. f.n = g.n /\ files'[f].k = files'[g].k /\ f.n \in Nat /\ files'[f].k \in Nat
        BY <2>3, <3>1 DEF CaptureTypeOK
      <4> QED BY ONLY <4>1
    <3>2. CASE f = x /\ g # x
      <4>1. g \in DOMAIN files /\ files'[g] = files[g] /\ files[g].run = run /\ files[g].conn = c
        BY <2>1, <2>2, <3>2
      <4>2. g.n < number /\ g.n \in Nat /\ files[g].k \in Nat /\ files[g].k < seen[c] + 1
        BY <2>4, <4>1
      <4>3. f.n = number /\ files'[f].k = seen[c] + 1
        BY <2>1, <2>2, <3>2
      <4> QED BY ONLY <1>3, <4>1, <4>2, <4>3
    <3>3. CASE f # x /\ g = x
      <4>1. f \in DOMAIN files /\ files'[f] = files[f] /\ files[f].run = run /\ files[f].conn = c
        BY <2>1, <2>2, <3>3
      <4>2. f.n < number /\ f.n \in Nat /\ files[f].k \in Nat /\ files[f].k < seen[c] + 1
        BY <2>4, <4>1
      <4>3. g.n = number /\ files'[g].k = seen[c] + 1
        BY <2>1, <2>2, <3>3
      <4> QED BY ONLY <1>3, <4>1, <4>2, <4>3
    <3>4. CASE f # x /\ g # x
      <4>1. f \in DOMAIN files /\ files'[f] = files[f] /\ g \in DOMAIN files /\ files'[g] = files[g]
        BY <2>1, <3>4
      <4> QED BY <1>2, <4>1 DEF OrderInv
    <3> QED BY <3>1, <3>2, <3>3, <3>4
  <2>6. NextInv'
    <3> SUFFICES ASSUME NEW f \in DOMAIN files', files'[f].run = run
                 PROVE  f.n < number + 1 /\ files'[f].k <= seen'[files'[f].conn]
      BY <1>1 DEF NextInv
    <3>1. CASE f = x
      <4>1. f.n = number /\ files'[f].k = seen[c] + 1 /\ files'[f].conn = c
        BY <2>1, <2>2, <3>1
      <4> QED BY ONLY <1>3, <4>1
    <3>2. CASE f # x
      <4>1. f \in DOMAIN files /\ files'[f] = files[f]
        BY <2>1, <3>2
      <4>2. f.n < number /\ f.n \in Nat /\ files[f].k <= seen'[files[f].conn]
        BY <2>4, <4>1
      <4> QED BY ONLY <1>3, <4>1, <4>2
    <3> QED BY <3>1, <3>2
  <2>7. AloneInv'
    <3> SUFFICES ASSUME run = 1, NEW d \in Conns
                 PROVE  /\ seen'[d] <= number + 1
                        /\ seen'[d] = number + 1 =>
                              \A f \in DOMAIN files' : files'[f] = [run |-> 1, conn |-> d, k |-> f.n + 1]
      BY <1>1 DEF AloneInv
    <3>1. seen[d] <= number /\ seen[d] \in Nat
      BY <1>2 DEF AloneInv, CaptureTypeOK
    <3>2. CASE d = c
      <4>1. seen'[d] <= number + 1
        BY <1>3, <3>1, <3>2
      <4>2. ASSUME seen'[d] = number + 1, NEW f \in DOMAIN files'
            PROVE  files'[f] = [run |-> 1, conn |-> d, k |-> f.n + 1]
        <5>1. seen[c] = number
          BY <1>3, <3>2, <4>2
        <5>2. CASE f = x
          <6>1. files'[f] = [run |-> run, conn |-> c, k |-> number + 1] /\ f.n = number
            BY <2>1, <5>1, <5>2 DEF x, y
          <6> QED BY <3>2, <6>1
        <5>3. CASE f # x
          <6>1. f \in DOMAIN files /\ files'[f] = files[f]
            BY <2>1, <5>3
          <6> QED BY <1>2, <3>2, <5>1, <6>1 DEF AloneInv
        <5> QED BY <5>2, <5>3
      <4> QED BY <4>1, <4>2
    <3>3. CASE d # c
      BY <1>3, <3>1, <3>3
    <3> QED BY <3>2, <3>3
  <2>8. GapInv'
    <3> SUFFICES ASSUME run = 1, ~failed PROVE {f.n : f \in DOMAIN files'} = 0 .. number
      <4>1. (number + 1) - 1 = number
        BY <1>3
      <4> QED BY <1>1, <1>5, <4>1 DEF GapInv
    <3>1. {f.n : f \in DOMAIN files} = 0 .. (number - 1)
      BY <1>2 DEF GapInv
    <3>2. {f.n : f \in DOMAIN files'} = {f.n : f \in DOMAIN files} \cup {number}
      BY <2>1, <2>2
    <3>3. 0 .. number = 0 .. (number - 1) \cup {number}
      BY <1>3
    <3> QED BY <3>1, <3>2, <3>3
  <2> QED BY <1>1, <2>3, <2>5, <2>6, <2>7, <2>8 DEF CaptureInv, C!LoadsAsRelayed
<1> QED BY <1>4, <1>5 DEF C!Dump

\* A new process finds the files of the ones before it.
LEMMA RestartKeeps == ASSUME CaptureInv, C!Restart PROVE CaptureInv'
<1>1. /\ c_pc = "capture" /\ c_pc' = "capture" /\ run' = run + 1 /\ number' = 0
      /\ seen' = [c \in Conns |-> 0] /\ files' = files /\ failed' = failed
  BY DEF C!Restart
<1>2. CaptureTypeOK /\ OrderInv
  BY <1>1 DEF CaptureInv
<1>3. CaptureTypeOK'
  BY <1>1, <1>2 DEF CaptureTypeOK
<1>4. OrderInv'
  BY <1>1, <1>2 DEF OrderInv
<1>5. NextInv' /\ AloneInv' /\ GapInv'
  BY <1>1, <1>2 DEF NextInv, AloneInv, GapInv, CaptureTypeOK
<1> QED BY <1>1, <1>3, <1>4, <1>5 DEF CaptureInv, C!LoadsAsRelayed

\* What is loaded: files in the order of their numbers.
LEMMA LoadKeeps == ASSUME CaptureInv, C!BoundsAssumption, C!Load PROVE CaptureInv'
<1> DEFINE T == C!Wanted({f.n : f \in DOMAIN files})
<1>1. /\ c_pc = "capture" /\ c_pc' = "loaded" /\ UNCHANGED <<number, seen, run, files, failed>>
  BY DEF C!Load
<1>2. PICK last \in [T -> DOMAIN files] :
        /\ \A n \in T : last[n].n = n
        /\ loaded' = [i \in 1 .. C!Min({Most, C!Cardinality(T)}) |-> files[last[C!Nth(T, i)]]]
  BY DEF C!Load
<1>3. CaptureTypeOK /\ OrderInv /\ NextInv /\ AloneInv /\ GapInv
  BY <1>1 DEF CaptureInv
<1>4. T = {n \in {f.n : f \in DOMAIN files} : n >= First} /\ First \in Nat /\ Most \in Nat
  BY DEF C!Wanted, C!BoundsAssumption
<1> HIDE DEF T
<1>5. T \subseteq Nat /\ IsFiniteSet(T)
  <2>1. IsFiniteSet({f.n : f \in DOMAIN files})
    <3> DEFINE num == [f \in DOMAIN files |-> f.n]
    <3>1. num \in Surjection(DOMAIN files, {f.n : f \in DOMAIN files})
      BY DEF Surjection
    <3> QED BY <1>3, <3>1, FS_Surjection DEF CaptureTypeOK
  <2>2. T \in SUBSET {f.n : f \in DOMAIN files}
    BY <1>4
  <2> QED BY <1>3, <2>1, <2>2, FS_Subset DEF CaptureTypeOK
<1>6. PICK t \in Nat : t = Cardinality(T) /\ t = C!Cardinality(T)
  BY <1>5, FS_CardinalityType, SameCount
<1>7. PICK l \in Nat : l = C!Min({Most, t}) /\ l <= t /\ l = IF Most < t THEN Most ELSE t
  <2>1. C!Min({Most, t}) = IF Most < t THEN Most ELSE t
    <3> DEFINE z == IF Most < t THEN Most ELSE t
    <3>1. z \in {Most, t} /\ \A y \in {Most, t} : z <= y
      BY <1>4
    <3>2. \E q \in {Most, t} : \A y \in {Most, t} : q <= y
      BY <3>1
    <3>3. C!Min({Most, t}) \in {Most, t} /\ \A y \in {Most, t} : C!Min({Most, t}) <= y
      BY <3>2, Zenon DEF C!Min
    <3> QED BY <1>4, <3>3
  <2> QED BY <1>4, <2>1
<1>8. /\ DOMAIN loaded' = 1..l
      /\ \A i \in 1..l : /\ C!Nth(T, i) \in T /\ last[C!Nth(T, i)] \in DOMAIN files
                         /\ last[C!Nth(T, i)].n = C!Nth(T, i)
                         /\ loaded'[i] = files[last[C!Nth(T, i)]]
  <2>1. loaded' = [i \in 1..l |-> files[last[C!Nth(T, i)]]]
    BY <1>2, <1>6, <1>7
  <2>2. ASSUME NEW i \in 1..l PROVE C!Nth(T, i) \in T
    <3>1. i \in 1 .. Cardinality(T)
      BY <1>6, <1>7
    <3> QED BY <1>5, <3>1, NthIs
  <2> QED BY <1>2, <2>1, <2>2
<1>9. ASSUME NEW i \in DOMAIN loaded', NEW j \in DOMAIN loaded', i < j, loaded'[i].run = loaded'[j].run,
             loaded'[i].conn = loaded'[j].conn
      PROVE  loaded'[i].k < loaded'[j].k
  <2> PICK f, g : f = last[C!Nth(T, i)] /\ g = last[C!Nth(T, j)]
    OBVIOUS
  <2>1. /\ f \in DOMAIN files /\ g \in DOMAIN files /\ loaded'[i] = files[f] /\ loaded'[j] = files[g]
        /\ f.n = C!Nth(T, i) /\ g.n = C!Nth(T, j)
    BY <1>8
  <2>2. i \in 1 .. Cardinality(T) /\ j \in 1 .. Cardinality(T)
    BY <1>6, <1>7, <1>8
  <2>3. f.n < g.n
    BY <1>5, <1>9, <2>1, <2>2, NthRises
  <2> QED BY <1>3, <1>9, <2>1, <2>3 DEF OrderInv
<1>10. ASSUME NEW c \in Conns, run = 1, ~failed, seen[c] = number
       PROVE  loaded' = [i \in 1 .. C!Min({Most, C!Max({number - First, 0})}) |->
                            [run |-> 1, conn |-> c, k |-> First + i]]
  <2>1. /\ {f.n : f \in DOMAIN files} = 0 .. (number - 1) /\ number \in Nat
        /\ \A f \in DOMAIN files : files[f] = [run |-> 1, conn |-> c, k |-> f.n + 1]
    BY <1>3, <1>10 DEF GapInv, AloneInv, CaptureTypeOK
  <2>2. T = First .. (number - 1)
    <3>1. ASSUME NEW m PROVE m \in T <=> m \in First .. (number - 1)
      <4>1. m \in T <=> m \in 0 .. (number - 1) /\ m >= First
        BY <1>4, <2>1
      <4>2. First \in Nat /\ number \in Nat
        BY <1>4, <2>1
      <4> QED BY ONLY <4>1, <4>2
    <3> QED BY <3>1
  <2>3. t = IF number > First THEN number - First ELSE 0
    <3>1. t = IF First > number - 1 THEN 0 ELSE (number - 1) - First + 1
      <4>1. First \in Int /\ number - 1 \in Int
        BY <1>4, <2>1
      <4>2. Cardinality(First .. (number - 1)) = IF First > number - 1 THEN 0 ELSE (number - 1) - First + 1
        BY ONLY <4>1, FS_Interval
      <4> QED BY <1>6, <2>2, <4>2
    <3> QED BY <1>4, <2>1, <3>1
  <2>4. C!Max({number - First, 0}) = t
    <3> DEFINE z == IF number > First THEN number - First ELSE 0
    <3>1. z \in {number - First, 0} /\ \A y \in {number - First, 0} : z >= y
      BY <1>4, <2>1
    <3>2. \E q \in {number - First, 0} : \A y \in {number - First, 0} : q >= y
      BY <3>1
    <3>3. /\ C!Max({number - First, 0}) \in {number - First, 0}
          /\ \A y \in {number - First, 0} : C!Max({number - First, 0}) >= y
      BY <3>2, Zenon DEF C!Max
    <3> QED BY <1>4, <2>1, <2>3, <3>3
  <2>5. ASSUME NEW i \in 1..l PROVE loaded'[i] = [run |-> 1, conn |-> c, k |-> First + i]
    <3> PICK x : x = C!Nth(T, i)
      OBVIOUS
    <3>1. x \in T /\ last[x] \in DOMAIN files /\ last[x].n = x /\ loaded'[i] = files[last[x]]
      BY <1>8
    <3>2. Cardinality({m \in T : m < x}) = i - 1
      <4>1. i \in 1 .. Cardinality(T)
        BY <1>6, <1>7
      <4> QED BY <1>5, <4>1, NthIs
    <3>3. {m \in T : m < x} = First .. (x - 1) /\ x \in Nat /\ First <= x
      <4>1. x \in Nat /\ First <= x /\ x <= number - 1 /\ First \in Nat /\ number \in Nat
        BY <1>4, <2>1, <2>2, <3>1
      <4>2. ASSUME NEW m PROVE (m \in T /\ m < x) <=> m \in First .. (x - 1)
        BY <2>2, <4>1
      <4>3. {m \in T : m < x} = First .. (x - 1)
        BY <4>2
      <4> QED BY <4>1, <4>3
    <3>4. x - First = i - 1
      <4>1. Cardinality(First .. (x - 1)) = IF First > x - 1 THEN 0 ELSE (x - 1) - First + 1
        <5>1. First \in Int /\ x - 1 \in Int
          BY <1>4, <3>3
        <5> QED BY ONLY <5>1, FS_Interval
      <4>2. Cardinality(First .. (x - 1)) = i - 1
        BY <3>2, <3>3
      <4>3. First \in Nat /\ x \in Nat /\ First <= x /\ i \in Nat
        BY <1>4, <3>3
      <4> QED BY ONLY <4>1, <4>2, <4>3
    <3>5. x + 1 = First + i
      BY <1>4, <3>3, <3>4
    <3> QED BY <2>1, <3>1, <3>5
  <2>6. C!Min({Most, C!Max({number - First, 0})}) = l
    BY <1>7, <2>4
  <2>7. loaded' = [i \in 1..l |-> loaded'[i]]
    BY <1>2, <1>6, <1>7
  <2> QED BY <2>5, <2>6, <2>7
<1> QED BY <1>1, <1>9, <1>10 DEF CaptureInv, C!LoadsAsRelayed

LEMMA CaptureKeeps == ASSUME CaptureInv, [C!Next]_(C!vars) PROVE CaptureInv'
<1>1. CASE C!Next
  <2>1. C!BoundsAssumption
    BY ConstantsFit
  <2> QED BY <1>1, <2>1, DumpKeeps, RestartKeeps, LoadKeeps DEF C!Next
<1>2. CASE UNCHANGED C!vars
  BY <1>2 DEF C!vars, CaptureInv, C!LoadsAsRelayed, CaptureTypeOK, OrderInv, NextInv, AloneInv, GapInv
<1> QED BY <1>1, <1>2

\* Whatever captures lie in the directory, packets of one connection of one run are
\* loaded in the order they were relayed, none twice; and the capture of one
\* connection alone is loaded from its First packet on, without a gap: for any
\* number of connections, packets and runs of the proxy (server.rs:268).  Nothing
\* is said of how the packets of several connections or runs lie among each other.
THEOREM BurstInOrder == C!Spec => []LoadsAsRelayed
<1>1. CaptureInv => LoadsAsRelayed
  BY DEF CaptureInv, LoadsAsRelayed
<1> QED BY <1>1, CaptureInit, CaptureKeeps, PTL DEF C!Spec
-----------------------------------------------------------------------------
\* Chunks: the operators of WorldChunk on sets, and those the proofs above use.
LEMMA FirstOf ==
  ASSUME NEW S, S \subseteq Nat, S # {}
  PROVE  K!Min(S) \in S /\ \A y \in S : K!Min(S) <= y
BY W!LeastOf DEF K!Min, W!Min

LEMMA FirstIs ==
  ASSUME NEW S, S \subseteq Nat, NEW x \in S, \A y \in S : x <= y
  PROVE  K!Min(S) = x
BY W!MinIs DEF K!Min, W!Min

LEMMA SameNumber == \A S : K!Cardinality(S) = Cardinality(S) /\ C!Cardinality(S) = Cardinality(S)
BY DEF K!Cardinality, C!Cardinality, Cardinality

LEMMA SameNth == \A S, i : K!Nth(S, i) = C!Nth(S, i)
BY SameNumber DEF K!Nth, C!Nth

LEMMA KeptIs ==
  ASSUME NEW T, T \subseteq Nat, IsFiniteSet(T), NEW i \in 1 .. Cardinality(T)
  PROVE  K!Nth(T, i) \in T /\ Cardinality({m \in T : m < K!Nth(T, i)}) = i - 1
BY SameNth, NthIs

LEMMA KeptRises ==
  ASSUME NEW T, T \subseteq Nat, IsFiniteSet(T),
         NEW i \in 1 .. Cardinality(T), NEW j \in 1 .. Cardinality(T), i < j
  PROVE  K!Nth(T, i) < K!Nth(T, j)
BY SameNth, NthRises

\* Powers of two are positive.
LEMMA PowersArePositive ==
  ASSUME K!WidthAssumption, K!PowerAssumption
  PROVE  \A n \in 0..LongBits : Power[n] \in Nat /\ Power[n] > 0
<1> DEFINE T == {n \in Nat : n <= LongBits => Power[n] \in Nat /\ Power[n] > 0}
<1>1. 0 \in T
  BY DEF K!PowerAssumption
<1>2. ASSUME NEW n \in Nat, n \in T PROVE n + 1 \in T
  <2> SUFFICES ASSUME n + 1 <= LongBits PROVE Power[n + 1] \in Nat /\ Power[n + 1] > 0
    OBVIOUS
  <2>1. LongBits \in Nat
    BY DEF K!WidthAssumption
  <2>2. n \in 0 .. (LongBits - 1) /\ Power[n] \in Nat /\ Power[n] > 0
    BY <1>2, <2>1
  <2>3. Power[n + 1] = 2 * Power[n]
    BY <2>2 DEF K!PowerAssumption
  <2> QED BY <2>2, <2>3
<1> HIDE DEF T
<1>3. Nat \subseteq T
  BY <1>1, <1>2, W!NatSetInduction
<1> QED BY <1>3 DEF T, K!WidthAssumption

\* The function that extract_packed computes: the sum of bits from index * bits on.
IsValue(g, data, at, n) == g = [i \in 0..n |-> IF i = 0 THEN 0
    ELSE g[i - 1] + Power[i - 1] * K!Bit(data, at + i - 1)]

LEMMA ValueExists ==
  ASSUME NEW data, NEW at
  PROVE  \A n \in Nat : \E g : IsValue(g, data, at, n)
<1> DEFINE T == {n \in Nat : \E g : IsValue(g, data, at, n)}
<1>1. 0 \in T
  <2>1. IsValue([i \in 0..0 |-> 0], data, at, 0)
    BY DEF IsValue
  <2> QED BY <2>1
<1>2. ASSUME NEW n \in Nat, n \in T PROVE n + 1 \in T
  <2>1. PICK g : IsValue(g, data, at, n)
    BY <1>2
  <2> DEFINE more == Power[n] * K!Bit(data, at + (n + 1) - 1)
             h == [i \in 0..(n + 1) |-> IF i = n + 1 THEN g[n] + more ELSE g[i]]
  <2>2. ASSUME NEW i \in 0..(n + 1)
        PROVE  h[i] = IF i = 0 THEN 0 ELSE h[i - 1] + Power[i - 1] * K!Bit(data, at + i - 1)
    <3>1. CASE i = 0
      BY <3>1, <2>1 DEF IsValue
    <3>2. CASE i \in 1..n
      <4>1. h[i] = g[i] /\ h[i - 1] = g[i - 1] /\ i # 0
        BY <3>2
      <4>2. g[i] = g[i - 1] + Power[i - 1] * K!Bit(data, at + i - 1)
        BY <2>1, <3>2 DEF IsValue
      <4> QED BY <4>1, <4>2
    <3>3. CASE i = n + 1
      BY <3>3
    <3> QED BY <3>1, <3>2, <3>3
  <2> HIDE DEF h
  <2>3. h = [i \in 0..(n + 1) |-> h[i]]
    BY DEF h
  <2>4. IsValue(h, data, at, n + 1)
    BY <2>2, <2>3 DEF IsValue
  <2> QED BY <2>4
<1> HIDE DEF T
<1>3. Nat \subseteq T
  BY <1>1, <1>2, W!NatSetInduction
<1> QED BY <1>3 DEF T

LEMMA ExtractIsValue ==
  ASSUME NEW data, NEW bits \in Nat, NEW index
  PROVE  \E g : IsValue(g, data, index * bits, bits) /\ K!ExtractPacked(data, bits, index) = g[bits]
<1> DEFINE g == CHOOSE h : IsValue(h, data, index * bits, bits)
<1>1. IsValue(g, data, index * bits, bits)
  BY ValueExists, Zenon
<1>2. K!ExtractPacked(data, bits, index) = g[bits]
  BY DEF K!ExtractPacked, IsValue
<1> QED BY <1>1, <1>2

\* Where the digits of a number lie, the reader finds that number.
LEMMA FindsNumber ==
  ASSUME K!WidthAssumption, K!PowerAssumption, NEW data, NEW bits \in 0..LongBits, NEW at \in Nat,
         NEW n, K!Holds(data, bits, at, n)
  PROVE  K!ExtractPacked(data, bits, at) = n
<1>1. PICK g : IsValue(g, data, at * bits, bits) /\ K!ExtractPacked(data, bits, at) = g[bits]
  BY ExtractIsValue
<1> PICK start : start = at * bits
  OBVIOUS
<1>2. n \in Nat /\ n < Power[bits] /\ LongBits \in Nat /\ bits \in Nat /\ Power[bits] \in Nat
         /\ Power[bits] > 0
  BY PowersArePositive DEF K!Holds, K!WidthAssumption
<1>3. \A i \in 0 .. (bits - 1) : K!Bit(data, start + i) = K!Digit(n, i)
  BY DEF K!Holds
<1> DEFINE T == {i \in Nat : i <= bits => g[i] = n % Power[i]}
<1>4. 0 \in T
  <2>1. g[0] = 0
    BY <1>1, <1>2 DEF IsValue
  <2>2. n % 1 = 0
    BY <1>2
  <2> QED BY <2>1, <2>2 DEF K!PowerAssumption
<1>5. ASSUME NEW i \in Nat, i \in T PROVE i + 1 \in T
  <2> SUFFICES ASSUME i + 1 <= bits PROVE g[i + 1] = n % Power[i + 1]
    OBVIOUS
  <2>1. i + 1 \in 0..bits /\ i \in 0 .. (bits - 1) /\ i + 1 # 0 /\ (i + 1) - 1 = i
           /\ g[i] = n % Power[i]
    BY <1>2, <1>5
  <2>2. g[i + 1] = g[i] + Power[i] * K!Bit(data, start + (i + 1) - 1)
    BY <1>1, <2>1 DEF IsValue
  <2>3. start \in Int
    BY <1>2
  <2>4. start + (i + 1) - 1 = start + i
    BY <2>3
  <2>5. K!Bit(data, start + i) = (n \div Power[i]) % 2
    BY <1>3, <2>1 DEF K!Digit
  <2>6. i \in 0 .. (LongBits - 1) /\ Power[i] \in Nat /\ Power[i] > 0
    BY <1>2, <2>1, PowersArePositive
  <2>7. Power[i + 1] = 2 * Power[i]
    BY <2>6 DEF K!PowerAssumption
  <2>8. n % (2 * Power[i]) = (n % Power[i]) + ((n \div Power[i]) % 2) * Power[i]
    BY <1>2, <2>6, W!OneMoreGroup
  <2>9. (n \div Power[i]) % 2 \in Int
    BY <1>2, <2>6, W!Division
  <2> PICK x \in Int, y \in Nat : x = (n \div Power[i]) % 2 /\ y = Power[i]
    BY <2>6, <2>9
  <2>10. y * x = x * y
    OBVIOUS
  <2> QED BY <2>1, <2>2, <2>4, <2>5, <2>7, <2>8, <2>10
<1> HIDE DEF T
<1>6. bits \in T
  BY <1>2, <1>4, <1>5, W!NatSetInduction
<1>7. g[bits] = n % Power[bits]
  BY <1>2, <1>6 DEF T
<1>8. n % Power[bits] = n
  <2> PICK p \in Nat : p = Power[bits] /\ p > 0
    BY <1>2
  <2>1. n \in 0..(p - 1) /\ n = p * 0 + n
    BY <1>2
  <2> QED BY <1>2, <2>1, W!Quotient
<1> QED BY <1>1, <1>7, <1>8

\* Min of a set that has an element below all others, in the module's own words.
LEMMA BitsIs ==
  ASSUME K!WidthAssumption, K!PowerAssumption, NEW size \in Nat, size > 1, NEW w, K!WidthOf(size, w)
  PROVE  K!Bits(size) = w
<1> DEFINE S == {b \in MinBits..MaxBits : Power[b] >= size} \cup {MaxBits}
<1>1. MaxBits \in Nat /\ MinBits \in Nat /\ w \in MinBits..MaxBits /\ w \in S
  BY DEF K!WidthAssumption, K!WidthOf
<1>2. ASSUME NEW b \in S PROVE w <= b
  <2>1. CASE b = MaxBits
    BY <1>1, <2>1
  <2>2. CASE b \in MinBits..MaxBits /\ Power[b] >= size
    <3>1. ~(b < w)
      <4> SUFFICES ASSUME b < w PROVE FALSE
        OBVIOUS
      <4>1. b \in MinBits .. (w - 1)
        BY <1>1, <2>2
      <4>2. Power[b] < size
        BY <4>1 DEF K!WidthOf
      <4>3. Power[b] \in Nat
        BY <4>1, <1>1, PowersArePositive DEF K!WidthAssumption
      <4> QED BY <2>2, <4>2, <4>3
    <3> QED BY <1>1, <2>2, <3>1
  <2> QED BY <2>1, <2>2
<1>3. S \subseteq Nat
  BY <1>1
<1>4. K!Min(S) = w
  <2> HIDE DEF S
  <2> QED BY <1>1, <1>2, <1>3, FirstIs
<1>5. ~(size <= 1)
  OBVIOUS
<1> QED BY <1>4, <1>5 DEF K!Bits

\* What parse_section keeps of a section.
LEMMA Parsed ==
  ASSUME NEW sec, K!WrittenSection(sec), NEW r, r = K!ParseSection(sec)
  PROVE  /\ r.y = sec.y /\ r.cells = sec.cells /\ r.biomes = sec.biomes /\ r.regions = sec.regions
         /\ Len(r.palette) \in Nat /\ DOMAIN r.palette = 1..Len(r.palette)
         /\ \A i \in 1..Len(r.palette) : r.palette[i] # K!Unnamed
         /\ r.palette = <<>> <=> Len(r.palette) = 0
         /\ Len(r.palette) = 0 <=> sec.palette \in {K!NoPalette, <<>>}
         /\ Len(r.palette) > 0 => r.data = sec.data
<1>1. /\ sec = [y |-> sec.y, palette |-> sec.palette, data |-> sec.data, cells |-> sec.cells,
               biomes |-> sec.biomes, regions |-> sec.regions]
      /\ sec.palette \in Seq(STRING \ {K!Unnamed})
  BY DEF K!WrittenSection
<1>2. CASE sec.palette = K!NoPalette
  <2>1. r = [sec EXCEPT !.palette = <<>>, !.data = <<>>]
    BY <1>2 DEF K!ParseSection
  <2>2. r.palette = <<>> /\ r.y = sec.y /\ r.cells = sec.cells /\ r.biomes = sec.biomes
           /\ r.regions = sec.regions
    BY <1>1, <2>1
  <2>3. Len(r.palette) = 0 /\ DOMAIN r.palette = {}
    BY <2>2
  <2>4. 1..0 = {}
    OBVIOUS
  <2> QED BY <1>2, <2>2, <2>3, <2>4
<1>3. CASE sec.palette # K!NoPalette
  <2> PICK p : p = sec.palette
    OBVIOUS
  <2> PICK q : q = K!ParsePalette(p)
    OBVIOUS
  <2>1. r = [sec EXCEPT !.palette = q]
    BY <1>3 DEF K!ParseSection
  <2>2. /\ r.palette = q /\ r.y = sec.y /\ r.cells = sec.cells /\ r.biomes = sec.biomes
              /\ r.regions = sec.regions
        /\ r.data = sec.data
    BY <1>1, <2>1
  <2>3. Len(p) \in Nat /\ DOMAIN p = 1..Len(p) /\ \A i \in 1..Len(p) : p[i] # K!Unnamed
    <3>1. p \in Seq(STRING \ {K!Unnamed})
      BY <1>1
    <3> QED BY <3>1, LenProperties, ElementOfSeq
  <2>4. DOMAIN q = 1..Len(p) /\ \A i \in 1..Len(p) : q[i] # K!Unnamed
    BY <2>3 DEF K!ParsePalette, K!Air, K!Unnamed
  <2>5. Len(q) = Len(p)
    <3> DEFINE Z == {q[i] : i \in 1..Len(p)}
    <3>1. q \in [1..Len(p) -> Z]
      BY <2>4 DEF K!ParsePalette
    <3> QED BY <2>3, <3>1
  <2>6. q = <<>> <=> Len(q) = 0
    BY <2>4, <2>5
  <2>7. p = <<>> <=> Len(p) = 0
    BY <2>3
  <2>8. p \in {K!NoPalette, <<>>} <=> p = <<>>
    BY <1>3
  <2> QED BY <2>2, <2>3, <2>4, <2>5, <2>6, <2>7, <2>8
<1> QED BY <1>2, <1>3

\* get_block finds in a section whatever was written to it.
LEMMA BlockFound ==
  ASSUME K!WidthAssumption, K!PowerAssumption, NEW sec, K!WrittenSection(sec), NEW r,
         r = K!ParseSection(sec),
         NEW y \in 0 .. (Height - 1), K!CanRead(r, y)
  PROVE  IF Len(r.palette) = 0 THEN K!BlockIn(r, y) = K!Unnamed /\ sec.cells[y] = K!Air
                               ELSE K!BlockIn(r, y) = sec.cells[y] /\ sec.cells[y] # K!Unnamed
<1> PICK p, d : p = r.palette /\ d = r.data
  OBVIOUS
<1>1. /\ Len(p) \in Nat /\ DOMAIN p = 1..Len(p) /\ \A i \in 1..Len(p) : p[i] # K!Unnamed
      /\ p = <<>> <=> Len(p) = 0
      /\ Len(p) > 0 => d = sec.data
  BY Parsed
<1>2. K!WrittenBlocks(sec) /\ y \in DOMAIN sec.cells
  BY DEF K!WrittenSection, K!WrittenBlocks
<1>3. /\ p = <<>> => sec.cells[y] = K!Air
      /\ Len(p) = 1 => sec.cells[y] = p[1]
      /\ Len(p) > 1 => \E width \in MinBits..MaxBits :
            /\ K!WidthOf(Len(p), width)
            /\ \E n \in 0 .. (Len(p) - 1) :
                 sec.cells[y] = p[n + 1]
                    /\ (K!Readable(sec.data, width, y) => K!Holds(sec.data, width, y, n))
  BY <1>2 DEF K!WrittenBlocks
<1>4. ASSUME Len(p) = 0 PROVE K!BlockIn(r, y) = K!Unnamed /\ sec.cells[y] = K!Air
  <2>1. K!PaletteIndex(r, y) = 0
    BY <1>4 DEF K!PaletteIndex, K!Packed
  <2>2. K!BlockIn(r, y) = K!Unnamed
    BY <1>4, <2>1 DEF K!BlockIn
  <2> QED BY <1>1, <1>3, <1>4, <2>2
<1>5. ASSUME Len(p) = 1 PROVE K!BlockIn(r, y) = sec.cells[y] /\ sec.cells[y] # K!Unnamed
  <2>1. K!PaletteIndex(r, y) = 0
    BY <1>5 DEF K!PaletteIndex, K!Packed
  <2>2. K!BlockIn(r, y) = p[1]
    BY <1>5, <2>1 DEF K!BlockIn
  <2> QED BY <1>1, <1>3, <1>5, <2>2
<1>6. ASSUME Len(p) > 1 PROVE K!BlockIn(r, y) = sec.cells[y] /\ sec.cells[y] # K!Unnamed
  <2>1. PICK width \in MinBits..MaxBits, n \in 0 .. (Len(p) - 1) :
          /\ K!WidthOf(Len(p), width) /\ sec.cells[y] = p[n + 1]
          /\ K!Readable(sec.data, width, y) => K!Holds(sec.data, width, y, n)
    BY <1>3, <1>6
  <2>2. K!Bits(Len(p)) = width
    BY <1>1, <1>6, <2>1, BitsIs
  <2>3. d = sec.data
    BY <1>1, <1>6
  <2>4. K!Readable(d, width, y)
    BY <1>6, <2>2 DEF K!CanRead, K!Packed
  <2>5. width \in 0..LongBits /\ y \in Nat
    BY DEF K!WidthAssumption
  <2>6. K!Holds(d, width, y, n)
    BY <2>1, <2>3, <2>4
  <2>7. K!ExtractPacked(d, width, y) = n
    BY <2>5, <2>6, FindsNumber
  <2>8. K!PaletteIndex(r, y) = n
    BY <1>6, <2>2, <2>7 DEF K!PaletteIndex, K!Packed
  <2>9. K!BlockIn(r, y) = p[n + 1] /\ n + 1 \in 1..Len(p)
    BY <1>1, <2>8 DEF K!BlockIn
  <2> QED BY <1>1, <1>6, <2>1, <2>9
<1>7. IF Len(p) = 0 THEN K!BlockIn(r, y) = K!Unnamed /\ sec.cells[y] = K!Air
                   ELSE K!BlockIn(r, y) = sec.cells[y] /\ sec.cells[y] # K!Unnamed
  <2>1. \A k \in Nat : k = 0 \/ k = 1 \/ k > 1
    OBVIOUS
  <2>2. Len(p) = 0 \/ Len(p) = 1 \/ Len(p) > 1
    BY ONLY <1>1, <2>1
  <2> QED BY <2>2, <1>4, <1>5, <1>6
<1> QED BY <1>7

\* The sections that are kept, and which of those stored each of them is.
LEMMA KeptAre ==
  ASSUME K!ChunksAssumption, NEW raw \in Chunks
  PROVE  /\ DOMAIN raw \subseteq Nat /\ K!Kept(raw) \subseteq DOMAIN raw
               /\ K!Kept(raw) \subseteq Nat
         /\ IsFiniteSet(K!Kept(raw)) /\ Cardinality(K!Kept(raw)) \in Nat
         /\ DOMAIN K!FromNbt(raw) = 1 .. Cardinality(K!Kept(raw))
         /\ Len(K!FromNbt(raw)) = Cardinality(K!Kept(raw))
         /\ \A i \in 1 .. Cardinality(K!Kept(raw)) :
               /\ K!Nth(K!Kept(raw), i) \in K!Kept(raw)
               /\ K!FromNbt(raw)[i] = K!ParseSection(raw[K!Nth(K!Kept(raw), i)])
         /\ \A i \in DOMAIN raw : K!WrittenSection(raw[i])
<1> PICK kept : kept = K!Kept(raw)
  OBVIOUS
<1> PICK n : n = Cardinality(kept)
  OBVIOUS
<1>1. raw \in Seq(K!Range(raw)) /\ \A sec \in K!Range(raw) : K!WrittenSection(sec)
  BY DEF K!ChunksAssumption
<1>2. Len(raw) \in Nat /\ DOMAIN raw = 1..Len(raw)
  BY <1>1, LenProperties
<1>3. \A i \in DOMAIN raw : K!WrittenSection(raw[i])
  BY <1>1 DEF K!Range
<1>4. kept \subseteq DOMAIN raw
  BY DEF K!Kept
<1>5. DOMAIN raw \subseteq Nat
  BY <1>2
<1>6. IsFiniteSet(kept) /\ n \in Nat
  <2> PICK m \in Nat : m = Len(raw) /\ DOMAIN raw = 1..m
    BY <1>2
  <2>1. IsFiniteSet(1..m)
    <3>1. 1 \in Int /\ m \in Int
      OBVIOUS
    <3> QED BY ONLY <3>1, FS_Interval
  <2>2. kept \in SUBSET (1..m)
    BY <1>4
  <2>3. IsFiniteSet(kept)
    BY <2>1, <2>2, FS_Subset
  <2>4. Cardinality(kept) \in Nat
    BY ONLY <2>3, FS_CardinalityType
  <2> QED BY <2>3, <2>4
<1>7. K!FromNbt(raw) = [i \in 1..n |-> K!ParseSection(raw[K!Nth(kept, i)])]
  BY SameNumber DEF K!FromNbt
<1>8. ASSUME NEW i \in 1..n PROVE K!Nth(kept, i) \in kept
  BY <1>4, <1>5, <1>6, KeptIs
<1>9. Len(K!FromNbt(raw)) = n
  <2> PICK f : f = K!FromNbt(raw)
    OBVIOUS
  <2> DEFINE Z == {f[i] : i \in 1..n}
  <2>1. f \in [1..n -> Z]
    BY <1>7
  <2> QED BY <1>6, <2>1
<1>10. DOMAIN K!FromNbt(raw) = 1..n /\ \A i \in 1..n :
          K!FromNbt(raw)[i] = K!ParseSection(raw[K!Nth(kept, i)])
  BY <1>7
<1> QED BY <1>3, <1>4, <1>5, <1>6, <1>8, <1>9, <1>10

\* Each number of a set has its place in the order.
LEMMA HasPlace ==
  ASSUME NEW T, T \subseteq Nat, IsFiniteSet(T), NEW x \in T
  PROVE  \E i \in 1 .. Cardinality(T) : K!Nth(T, i) = x
<1> DEFINE D(z) == {m \in T : m < z}
<1>1. \A z : IsFiniteSet(D(z)) /\ Cardinality(D(z)) \in Nat
  <2> TAKE z
  <2>1. D(z) \in SUBSET T
    OBVIOUS
  <2> HIDE DEF D
  <2> QED BY <2>1, FS_Subset, FS_CardinalityType
<1>2. ASSUME NEW y \in T, NEW z \in T, y < z PROVE Cardinality(D(y)) < Cardinality(D(z))
  <2>1. y \in Nat /\ z \in Nat /\ \A m \in T : m \in Nat
    OBVIOUS
  <2>2. y \in D(z) /\ y \notin D(y)
    BY <1>2, <2>1
  <2>3. ASSUME NEW m \in D(y) PROVE m \in D(z)
    BY <1>2, <2>1
  <2>4. D(y) \in SUBSET D(z) /\ D(y) # D(z)
    BY <2>2, <2>3
  <2> HIDE DEF D
  <2>5. Cardinality(D(y)) <= Cardinality(D(z)) /\ Cardinality(D(y)) # Cardinality(D(z))
    BY <1>1, <2>4, FS_Subset
  <2> QED BY <1>1, <2>5
<1> PICK i : i = Cardinality(D(x)) + 1
  OBVIOUS
<1>3. i \in 1 .. Cardinality(T)
  <2>1. D(x) \in SUBSET T /\ x \notin D(x) /\ D(x) # T
    OBVIOUS
  <2>2. Cardinality(D(x)) \in Nat /\ Cardinality(T) \in Nat
    BY <1>1, FS_CardinalityType
  <2> HIDE DEF D
  <2>3. Cardinality(D(x)) <= Cardinality(T) /\ Cardinality(D(x)) # Cardinality(T)
    BY <2>1, FS_Subset
  <2> QED BY <2>2, <2>3
<1> PICK w : w = K!Nth(T, i)
  OBVIOUS
<1>4. w \in T /\ Cardinality(D(w)) = i - 1
  BY <1>3, KeptIs
<1>5. Cardinality(D(w)) = Cardinality(D(x))
  <2> HIDE DEF D
  <2> QED BY <1>1, <1>4
<1>6. w \in Nat /\ x \in Nat
  BY <1>4
<1>7. ~(w < x) /\ ~(x < w)
  <2> HIDE DEF D
  <2>1. Cardinality(D(x)) \in Nat
    BY <1>1
  <2> QED BY <1>2, <1>4, <1>5, <2>1
<1>8. w = x
  BY <1>6, <1>7
<1> QED BY <1>3, <1>8

\* World coordinates, and the section and the cell they are in.
LEMMA Coordinates ==
  ASSUME NEW h \in Nat \ {0}, NEW y \in Int, NEW at \in 0 .. (h - 1)
  PROVE  (y * h + at) \div h = y /\ (y * h + at) % h = at
<1> PICK a \in Int : a = y * h + at
  OBVIOUS
<1>1. a \div h \in Int /\ a % h \in 0 .. (h - 1) /\ a = (a \div h) * h + (a % h)
  BY Divided
<1>2. (a % h) + (a \div h) * h = at + y * h
  BY <1>1
<1> QED BY <1>1, <1>2, PlacesDiffer

\* get_section finds the first section that was stored with this y, if any.
LEMMA SectionFound ==
  ASSUME K!WidthAssumption, K!ChunksAssumption, stored \in Chunks,
         sections = K!FromNbt(stored),
         NEW y \in Int, y # K!NoY, NEW at \in 0 .. (Height - 1)
  PROVE  /\ K!StoredAt(y) = {} <=> K!SectionAt(y * Height + at) = {}
         /\ K!StoredAt(y) # {} =>
               /\ K!Min(K!StoredAt(y)) \in DOMAIN stored
               /\ stored[K!Min(K!StoredAt(y))].y = y
               /\ K!WrittenSection(stored[K!Min(K!StoredAt(y))])
               /\ sections[K!Min(K!SectionAt(y * Height + at))]
                    = K!ParseSection(stored[K!Min(K!StoredAt(y))])
<1> PICK raw : raw = stored
  OBVIOUS
<1> PICK kept : kept = K!Kept(raw)
  OBVIOUS
<1> PICK n : n = Cardinality(kept)
  OBVIOUS
<1> PICK S : S = K!StoredAt(y)
  OBVIOUS
<1> PICK R : R = K!SectionAt(y * Height + at)
  OBVIOUS
<1>1. /\ DOMAIN raw \subseteq Nat /\ kept \subseteq DOMAIN raw /\ kept \subseteq Nat
      /\ IsFiniteSet(kept) /\ n \in Nat
      /\ DOMAIN sections = 1..n
      /\ \A i \in 1..n : K!Nth(kept, i) \in kept
            /\ sections[i] = K!ParseSection(raw[K!Nth(kept, i)])
      /\ \A i \in DOMAIN raw : K!WrittenSection(raw[i])
  BY KeptAre
<1>2. (y * Height + at) \div Height = y
  BY Coordinates DEF K!WidthAssumption
<1>3. R = {i \in 1..n : sections[i].y = y}
  BY <1>1, <1>2 DEF K!SectionAt
<1>4. S = {i \in DOMAIN raw : raw[i].y = y}
  BY DEF K!StoredAt
<1>5. S \subseteq kept
  BY <1>4 DEF K!Kept
<1>6. \A i \in 1..n : sections[i].y = raw[K!Nth(kept, i)].y
  BY <1>1, Parsed
<1>7. \A i \in 1..n : i \in R <=> K!Nth(kept, i) \in S
  BY <1>1, <1>3, <1>4, <1>6
<1>8. \A x \in S : \E i \in R : K!Nth(kept, i) = x
  BY <1>1, <1>5, <1>7, HasPlace
<1>9. S = {} <=> R = {}
  <2>1. R \subseteq 1..n
    BY <1>3
  <2> QED BY <1>7, <1>8, <2>1
<1>10. ASSUME S # {}
       PROVE  /\ K!Min(S) \in DOMAIN raw /\ raw[K!Min(S)].y = y /\ K!WrittenSection(raw[K!Min(S)])
              /\ sections[K!Min(R)] = K!ParseSection(raw[K!Min(S)])
  <2> PICK a : a = K!Min(S)
    OBVIOUS
  <2> PICK j : j = K!Min(R)
    OBVIOUS
  <2>1. a \in S /\ \A x \in S : a <= x
    BY <1>1, <1>5, <1>10, FirstOf
  <2>2. j \in R /\ \A i \in R : j <= i
    <3>1. R # {} /\ R \subseteq Nat
      BY <1>3, <1>9, <1>10
    <3> QED BY <3>1, FirstOf
  <2>3. PICK i \in R : K!Nth(kept, i) = a
    BY <1>8, <2>1
  <2>4. i \in 1..n /\ j \in 1..n /\ j <= i /\ K!Nth(kept, j) \in S
    BY <1>3, <1>7, <2>2, <2>3
  <2>5. ~(j < i)
    <3> SUFFICES ASSUME j < i PROVE FALSE
      OBVIOUS
    <3>1. K!Nth(kept, j) < a
      BY <1>1, <2>3, <2>4, KeptRises
    <3>2. a <= K!Nth(kept, j) /\ a \in Nat /\ K!Nth(kept, j) \in Nat
      BY <1>1, <1>5, <2>1, <2>4
    <3> QED BY <3>1, <3>2
  <2>6. j = i
    BY <2>4, <2>5
  <2>7. sections[j] = K!ParseSection(raw[a])
    BY <1>1, <2>3, <2>4, <2>6
  <2> QED BY <1>1, <1>4, <2>1, <2>7
<1> QED BY <1>9, <1>10

Fits == K!WidthAssumption /\ K!PowerAssumption /\ K!ChunksAssumption
Stays == stored \in Chunks /\ sections = K!FromNbt(stored)

LEMMA BlocksLookedUp ==
  ASSUME Fits, Stays, NEW y \in Int, y # K!NoY, K!StoredAt(y) # {},
         NEW sec, sec = stored[K!Min(K!StoredAt(y))]
  PROVE  K!BlocksFound(sec, K!ReadAt(y))
<1>1. Height \in Nat /\ Height > 0 /\ 0 \in 0 .. (Height - 1)
  BY DEF Fits, K!WidthAssumption
<1> PICK r : r = K!ParseSection(sec)
  OBVIOUS
<1>2. K!WrittenSection(sec) /\ sec.y = y
  BY <1>1, SectionFound DEF Fits, Stays
<1>3. \A at \in 0 .. (Height - 1) :
        K!SectionAt(y * Height + at) # {} /\ sections[K!Min(K!SectionAt(y * Height + at))] = r
  BY SectionFound DEF Fits, Stays
<1>4. K!ReadAt(y) = r
  <2>1. y * Height + 0 = y * Height
    BY <1>1
  <2> QED BY <1>1, <1>3, <2>1 DEF K!ReadAt
<1>5. ASSUME NEW at \in 0 .. (Height - 1), K!CanRead(r, at)
      PROVE  /\ K!GetBlockName(sec.y * Height + at) = {sec.cells[at]} \ {K!Air}
             /\ K!GetBlock(sec.y * Height + at) = K!Unnamed <=> sec.palette \in {K!NoPalette, <<>>}
  <2> PICK g : g = K!GetBlock(y * Height + at)
    OBVIOUS
  <2>1. g = K!BlockIn(r, at)
    <3>1. (y * Height + at) % Height = at
      BY <1>1, Coordinates
    <3> QED BY <1>3, <3>1 DEF K!GetBlock
  <2>2. IF Len(r.palette) = 0 THEN g = K!Unnamed /\ sec.cells[at] = K!Air
                              ELSE g = sec.cells[at] /\ sec.cells[at] # K!Unnamed
    BY <1>2, <1>5, <2>1, BlockFound DEF Fits
  <2>3. Len(r.palette) = 0 <=> sec.palette \in {K!NoPalette, <<>>}
    BY <1>2, Parsed
  <2>4. K!GetBlockName(y * Height + at) = {g} \ {K!Air, K!Unnamed}
    BY DEF K!GetBlockName
  <2>5. {g} \ {K!Air, K!Unnamed} = {sec.cells[at]} \ {K!Air}
    BY <2>2
  <2> QED BY <1>2, <2>2, <2>3, <2>4, <2>5
<1> QED BY <1>4, <1>5 DEF K!BlocksFound

LEMMA BiomesLookedUp ==
  ASSUME Fits, NEW sec, K!WrittenSection(sec)
  PROVE  K!BiomesFound(sec, K!ParseSection(sec))
<1> PICK r : r = K!ParseSection(sec)
  OBVIOUS
<1> PICK p, d : p = sec.biomes.palette /\ d = sec.biomes.data
  OBVIOUS
<1>1. r.biomes = sec.biomes
  BY Parsed
<1> SUFFICES ASSUME Len(p) \in 2 .. Power[MinBits], NEW at \in DOMAIN sec.regions
             PROVE  K!GetBiome(r, at) = sec.regions[at]
  BY DEF K!BiomesFound
<1>2. K!Longs(d) # {} /\ at \in Nat
  BY DEF K!WrittenSection, K!WrittenBiomes
<1>3. PICK n \in 0 .. (Len(p) - 1) : sec.regions[at] = p[n + 1] /\ K!Holds(d, MinBits, at, n)
  BY DEF K!WrittenSection, K!WrittenBiomes
<1>4. MinBits \in 0..LongBits
  BY DEF Fits, K!WidthAssumption
<1>5. K!ExtractPacked(d, MinBits, at) = n
  BY <1>2, <1>3, <1>4, FindsNumber DEF Fits
<1>6. p # <<>> /\ ~(n >= Len(p))
  <2>1. Power[MinBits] \in Nat
    BY <1>4, PowersArePositive DEF Fits
  <2>2. Len(p) \in Nat /\ Len(p) > 1
    BY <2>1
  <2>3. Len(<<>>) = 0
    OBVIOUS
  <2> QED BY <2>2, <2>3
<1> QED BY <1>1, <1>2, <1>3, <1>5, <1>6 DEF K!GetBiome

LEMMA LookedUp == ASSUME Fits, Stays PROVE K!LookupFindsBlock
<1>1. Height \in Nat /\ Height > 0
  BY DEF Fits, K!WidthAssumption
<1>2. ASSUME NEW y \in -4 .. 4
      PROVE  IF K!StoredAt(y) = {} THEN K!GetBlock(y * Height) = K!Air
             ELSE LET sec == stored[K!Min(K!StoredAt(y))] IN
                  K!BlocksFound(sec, K!ReadAt(y)) /\ K!BiomesFound(sec, K!ReadAt(y))
  <2>1. y \in Int /\ y # K!NoY /\ 0 \in 0 .. (Height - 1) /\ y * Height + 0 = y * Height
    BY <1>1 DEF K!NoY
  <2>2. ASSUME K!StoredAt(y) = {} PROVE K!GetBlock(y * Height) = K!Air
    <3>1. K!SectionAt(y * Height) = {}
      BY <2>1, <2>2, SectionFound DEF Fits, Stays
    <3> QED BY <3>1 DEF K!GetBlock
  <2>3. ASSUME K!StoredAt(y) # {}, NEW sec, sec = stored[K!Min(K!StoredAt(y))]
        PROVE  K!BlocksFound(sec, K!ReadAt(y)) /\ K!BiomesFound(sec, K!ReadAt(y))
    <3>1. K!WrittenSection(sec) /\ K!ReadAt(y) = K!ParseSection(sec)
      BY <2>1, <2>3, SectionFound DEF Fits, Stays, K!ReadAt
    <3> QED BY <2>1, <2>3, <3>1, BlocksLookedUp, BiomesLookedUp
  <2> QED BY <2>2, <2>3
<1> QED BY <1>2 DEF K!LookupFindsBlock

\* The iterator stands in the section that it took last, or has none yet; what it
\* returned lies behind it, in order, and is all that it went past.
Behind(from, at) == from < iter.section \/ (from = iter.section /\ at < iter.index)
Place(o) == <<o.from, o.at, o.name>>
IterInv ==
    /\ Stays
    /\ section_idx \in 0..Len(sections)
    /\ \/ iter = K!None /\ section_idx = 0
       \/ iter \in [section : {section_idx}, index : 0..Height] /\ section_idx > 0
    /\ \E S : out \in Seq(S)
    /\ \A i \in 1..Len(out) : /\ out[i].from \in Nat /\ out[i].at \in Nat
                              /\ Behind(out[i].from, out[i].at)
    /\ \A i \in 1 .. (Len(out) - 1) :
          \/ out[i].from < out[i + 1].from
          \/ out[i].from = out[i + 1].from /\ out[i].at < out[i + 1].at
    /\ \A c \in K!Passed : K!Name(c) # K!Air => \E i \in 1..Len(out) :
                                                Place(out[i]) = <<c[1], c[2], K!Name(c)>>
    /\ k_pc = "end" => section_idx = Len(sections) /\ (iter = K!None \/ iter.index = Height)

\* Each section is one that was written.
LEMMA SectionsAre ==
  ASSUME Fits, Stays
  PROVE  /\ Len(sections) \in Nat /\ DOMAIN sections = 1..Len(sections)
         /\ \A i \in 1..Len(sections) : \E sec : K!WrittenSection(sec)
               /\ sections[i] = K!ParseSection(sec)
<1>1. DOMAIN sections = 1..Len(sections) /\ Len(sections) \in Nat
  BY KeptAre DEF Fits, Stays
<1>2. ASSUME NEW i \in 1..Len(sections)
      PROVE  \E sec : K!WrittenSection(sec) /\ sections[i] = K!ParseSection(sec)
  <2> PICK raw : raw = stored
    OBVIOUS
  <2>1. /\ K!Kept(raw) \subseteq DOMAIN raw /\ K!Nth(K!Kept(raw), i) \in K!Kept(raw)
        /\ sections[i] = K!ParseSection(raw[K!Nth(K!Kept(raw), i)])
        /\ \A k \in DOMAIN raw : K!WrittenSection(raw[k])
    BY KeptAre DEF Fits, Stays
  <2> QED BY <2>1
<1> QED BY <1>1, <1>2

\* What the iterator sees in a cell: the block that was written there, if any.
LEMMA Seen ==
  ASSUME Fits, Stays, NEW s \in 1..Len(sections), NEW y \in 0 .. (Height - 1),
         K!CanRead(sections[s], y), K!Name(<<s, y>>) # K!Air
  PROVE  K!BlockIn(sections[s], y) = K!Name(<<s, y>>)
<1>1. PICK sec : K!WrittenSection(sec) /\ sections[s] = K!ParseSection(sec)
  BY SectionsAre
<1>2. K!Name(<<s, y>>) = sec.cells[y]
  BY <1>1, Parsed DEF K!Name
<1> QED BY <1>1, <1>2, BlockFound DEF Fits

LEMMA IterInit == ASSUME Fits, K!Init PROVE IterInv
<1>1. Stays /\ section_idx = 0 /\ iter = K!None /\ out = <<>> /\ k_pc = "next"
  BY DEF K!Init, Stays
<1>2. Len(out) = 0 /\ out \in Seq({})
  BY <1>1
<1>3. Len(sections) \in Nat
  BY <1>1, SectionsAre
<1>4. K!Passed = {}
  BY <1>1, <1>3 DEF K!Passed, K!Cells, K!None
<1> QED BY <1>1, <1>2, <1>3, <1>4 DEF IterInv

\* One cell further, which held nothing that is returned.
LEMMA PassKeeps == ASSUME Fits, IterInv, K!PassAir PROVE IterInv'
<1>1. /\ Stays /\ k_pc = "next" /\ iter # K!None /\ iter.index < Height
      /\ K!CanRead(sections[iter.section], iter.index) /\ K!Here = K!Air
      /\ iter' = [iter EXCEPT !.index = @ + 1]
      /\ UNCHANGED <<stored, sections, section_idx, out, k_pc>>
  BY DEF K!PassAir, K!InSection, K!Advance, IterInv
<1> PICK s, k : s = iter.section /\ k = iter.index
  OBVIOUS
<1>2. /\ s = section_idx /\ s \in 1..Len(sections) /\ k \in 0 .. (Height - 1)
            /\ Len(sections) \in Nat
      /\ iter = [section |-> s, index |-> k] /\ Height \in Nat
  <2>1. iter \in [section : {section_idx}, index : 0..Height] /\ section_idx > 0
           /\ section_idx \in 0..Len(sections)
    BY <1>1 DEF IterInv
  <2>2. Height \in Nat /\ Len(sections) \in Nat
    BY <1>1, SectionsAre DEF Fits, K!WidthAssumption
  <2> QED BY <1>1, <2>1, <2>2
<1>3. iter' = [section |-> s, index |-> k + 1] /\ Stays'
  BY <1>1, <1>2 DEF Stays
<1>4. \A c \in K!Passed' : c \in K!Passed \/ c = <<s, k>>
  BY <1>1, <1>2, <1>3 DEF K!Passed, K!Cells
<1>5. ASSUME NEW c \in K!Passed', K!Name(c)' # K!Air
      PROVE  \E i \in 1..Len(out) : Place(out[i]) = <<c[1], c[2], K!Name(c)'>>
  <2>1. K!Name(c)' = K!Name(c)
    BY <1>1 DEF K!Name
  <2>2. c # <<s, k>>
    BY <1>1, <1>2, <1>5, <2>1, Seen DEF K!Here
  <2> QED BY <1>4, <1>5, <2>1, <2>2 DEF IterInv
<1>6. \A i \in 1..Len(out) : out[i].from \in Nat /\ out[i].at \in Nat
         /\ Behind(out[i].from, out[i].at)'
  <2> SUFFICES ASSUME NEW i \in 1..Len(out)
               PROVE  out[i].from \in Nat /\ out[i].at \in Nat
                      /\ (out[i].from < s \/ (out[i].from = s /\ out[i].at < k + 1))
    BY <1>1, <1>3 DEF Behind
  <2>1. out[i].from \in Nat /\ out[i].at \in Nat /\ (out[i].from < s \/ (out[i].from = s
           /\ out[i].at < k))
    BY <1>2 DEF IterInv, Behind
  <2> QED BY <1>2, <2>1
<1>7. iter' \in [section : {section_idx'}, index : 0..Height] /\ section_idx' > 0
  BY <1>1, <1>2, <1>3
<1> QED BY <1>1, <1>3, <1>5, <1>6, <1>7 DEF IterInv, Place

\* A cell that is returned: what is behind grows by it, at the end.
LEMMA YieldKeeps == ASSUME Fits, IterInv, K!Yield PROVE IterInv'
<1> PICK s, k : s = iter.section /\ k = iter.index
  OBVIOUS
<1> PICK o : o = [from |-> s, at |-> k, name |-> K!Here,
                  y |-> sections[section_idx + 1].y * Height + k]
  OBVIOUS
<1> PICK n : n = Len(out)
  OBVIOUS
<1>1. /\ Stays /\ k_pc = "next" /\ iter # K!None /\ iter.index < Height
      /\ K!CanRead(sections[iter.section], iter.index) /\ K!Here # K!Air
      /\ iter' = [iter EXCEPT !.index = @ + 1]
      /\ out' = Append(out, o)
      /\ UNCHANGED <<stored, sections, section_idx, k_pc>>
  BY DEF K!Yield, K!InSection, K!Advance, IterInv
<1>2. /\ s = section_idx /\ s \in 1..Len(sections) /\ k \in 0 .. (Height - 1)
            /\ Len(sections) \in Nat
      /\ iter = [section |-> s, index |-> k] /\ Height \in Nat
  <2>1. iter \in [section : {section_idx}, index : 0..Height] /\ section_idx > 0
           /\ section_idx \in 0..Len(sections)
    BY <1>1 DEF IterInv
  <2>2. Height \in Nat /\ Len(sections) \in Nat
    BY <1>1, SectionsAre DEF Fits, K!WidthAssumption
  <2> QED BY <1>1, <2>1, <2>2
<1>3. iter' = [section |-> s, index |-> k + 1] /\ Stays'
  BY <1>1, <1>2 DEF Stays
<1>4. \A c \in K!Passed' : c \in K!Passed \/ c = <<s, k>>
  BY <1>1, <1>2, <1>3 DEF K!Passed, K!Cells
<1>5. /\ n \in Nat /\ Len(out') = n + 1 /\ \E S : out' \in Seq(S)
      /\ \A i \in 1..n : out'[i] = out[i]
      /\ out'[n + 1] = o
  <2> PICK R : out \in Seq(R)
    BY DEF IterInv
  <2> PICK S : S = R \cup {o}
    OBVIOUS
  <2>1. n \in Nat /\ out \in Seq(S)
    BY SeqMonotonic
  <2>2. o \in S
    OBVIOUS
  <2> QED BY <1>1, <2>1, <2>2, AppendProperties
<1>7. o.from = s /\ o.at = k /\ o.name = K!Here
  OBVIOUS
<1>8. ASSUME NEW c \in K!Passed', K!Name(c)' # K!Air
      PROVE  \E i \in 1 .. (n + 1) : Place(out'[i]) = <<c[1], c[2], K!Name(c)'>>
  <2>1. K!Name(c)' = K!Name(c)
    BY <1>1 DEF K!Name
  <2>2. CASE c = <<s, k>>
    <3>1. K!Here = K!Name(c)
      BY <1>1, <1>2, <1>8, <2>1, <2>2, Seen DEF K!Here
    <3>2. Place(o) = <<c[1], c[2], K!Name(c)'>>
      BY <1>7, <2>1, <2>2, <3>1 DEF Place
    <3> QED BY <1>5, <3>2
  <2>3. CASE c \in K!Passed
    <3>1. PICK i \in 1..n : Place(out[i]) = <<c[1], c[2], K!Name(c)>>
      BY <1>8, <2>1, <2>3 DEF IterInv
    <3>2. i \in 1 .. (n + 1) /\ out'[i] = out[i]
      BY <1>5
    <3> QED BY <2>1, <3>1, <3>2
  <2> QED BY <1>4, <2>2, <2>3
<1>9. ASSUME NEW i \in 1..n
      PROVE  out[i].from \in Nat /\ out[i].at \in Nat /\ (out[i].from < s \/ (out[i].from = s
                /\ out[i].at < k))
  BY <1>2 DEF IterInv, Behind
<1>10. ASSUME NEW i \in 1 .. (n + 1)
       PROVE  /\ out'[i].from \in Nat /\ out'[i].at \in Nat
              /\ Behind(out[i].from, out[i].at)'
  <2>1. CASE i = n + 1
    BY <1>2, <1>3, <1>5, <1>7, <2>1 DEF Behind
  <2>2. CASE i \in 1..n
    BY <1>2, <1>3, <1>5, <1>9, <2>2 DEF Behind
  <2> QED BY <1>5, <2>1, <2>2
<1>11. ASSUME NEW i \in 1..n
       PROVE  \/ out'[i].from < out'[i + 1].from
              \/ out'[i].from = out'[i + 1].from /\ out'[i].at < out'[i + 1].at
  <2>1. CASE i = n
    BY <1>5, <1>7, <1>9, <2>1
  <2>2. CASE i \in 1 .. (n - 1)
    <3>1. i \in 1..n /\ i + 1 \in 1..n /\ out'[i] = out[i] /\ out'[i + 1] = out[i + 1]
      BY <1>5, <2>2
    <3> QED BY <2>2, <3>1 DEF IterInv
  <2> QED BY <1>5, <2>1, <2>2
<1>12. iter' \in [section : {section_idx'}, index : 0..Height] /\ section_idx' > 0
          /\ section_idx' \in 0..Len(sections')
  BY <1>1, <1>2, <1>3
<1>13. Len(out') \in Nat /\ (n + 1) - 1 = n
  BY <1>5
<1>14. /\ Stays' /\ section_idx' \in 0..Len(sections')
       /\ \/ iter' = K!None /\ section_idx' = 0
          \/ iter' \in [section : {section_idx'}, index : 0..Height] /\ section_idx' > 0
  BY <1>3, <1>12
<1>15. /\ \E S : out' \in Seq(S)
       /\ \A i \in 1..Len(out') : /\ out'[i].from \in Nat /\ out'[i].at \in Nat
                                  /\ Behind(out[i].from, out[i].at)'
  BY <1>5, <1>10, <1>13
<1>16. \A i \in 1 .. (Len(out') - 1) :
          \/ out'[i].from < out'[i + 1].from
          \/ out'[i].from = out'[i + 1].from /\ out'[i].at < out'[i + 1].at
  <2>1. Len(out') = n + 1
    BY <1>5
  <2> QED BY ONLY <2>1, <1>11, <1>13
<1>17. /\ \A c \in K!Passed' : K!Name(c)' # K!Air =>
             \E i \in 1..Len(out') : Place(out'[i]) = <<c[1], c[2], K!Name(c)'>>
       /\ k_pc' # "end"
  BY <1>1, <1>5, <1>8
<1> QED BY <1>14, <1>15, <1>16, <1>17 DEF IterInv, Place

\* The next section is taken where the one before it ends.
LEMMA TakesNext == ASSUME Fits, IterInv, K!NextSection PROVE IterInv'
<1>1. /\ Stays /\ k_pc = "next" /\ (iter = K!None \/ iter.index = Height)
            /\ section_idx < Len(sections)
      /\ iter' = [section |-> section_idx + 1, index |-> 0] /\ section_idx' = section_idx + 1
      /\ UNCHANGED <<stored, sections, out, k_pc>>
  BY DEF K!NextSection, K!Exhausted, IterInv
<1>2. Stays' /\ Height \in Nat /\ Len(sections) \in Nat /\ section_idx \in 0..Len(sections)
  BY <1>1, SectionsAre DEF Stays, Fits, K!WidthAssumption, IterInv
<1>3. /\ iter.section = section_idx
      /\ iter.index = Height \/ (section_idx = 0 /\ iter.index = 0)
  BY <1>1 DEF IterInv, K!None
<1>4. \A c \in K!Passed' : c \in K!Passed
  <2> SUFFICES ASSUME NEW c \in K!Cells,
                      c[1] < section_idx + 1 \/ (c[1] = section_idx + 1 /\ c[2] < 0)
               PROVE  c[1] < iter.section \/ (c[1] = iter.section /\ c[2] < iter.index)
    BY <1>1 DEF K!Passed, K!Cells
  <2>1. c[1] \in 1..Len(sections) /\ c[2] \in 0 .. (Height - 1)
    BY DEF K!Cells
  <2> QED BY <1>2, <1>3, <2>1
<1>5. ASSUME NEW i \in 1..Len(out)
      PROVE  out[i].from \in Nat /\ out[i].at \in Nat /\ out[i].from < section_idx + 1
  <2>1. /\ out[i].from \in Nat /\ out[i].at \in Nat
        /\ out[i].from < iter.section \/ (out[i].from = iter.section /\ out[i].at < iter.index)
    BY DEF IterInv, Behind
  <2> QED BY <1>2, <1>3, <2>1
<1>6. \A i \in 1..Len(out) : out[i].from \in Nat /\ out[i].at \in Nat
         /\ Behind(out[i].from, out[i].at)'
  BY <1>1, <1>5 DEF Behind
<1>7. /\ iter' \in [section : {section_idx'}, index : 0..Height] /\ section_idx' > 0
      /\ section_idx' \in 0..Len(sections)
  BY <1>1, <1>2
<1>8. \A c : K!Name(c)' = K!Name(c)
  BY <1>1 DEF K!Name
<1> QED BY <1>1, <1>2, <1>4, <1>6, <1>7, <1>8 DEF IterInv, Place

LEMMA StopKeeps == ASSUME Fits, IterInv,
                          K!CellPanic \/ K!YieldPanic \/ K!End \/ UNCHANGED K!vars PROVE IterInv'
<1>1. /\ UNCHANGED <<stored, sections, section_idx, iter, out>>
      /\ k_pc' = "end" => k_pc = "end" \/ (section_idx >= Len(sections)
                          /\ (iter = K!None \/ iter.index = Height))
  BY DEF K!CellPanic, K!YieldPanic, K!Panic, K!End, K!Exhausted, K!vars
<1>2. Stays' /\ K!Passed' = K!Passed /\ \A c : K!Name(c)' = K!Name(c)
  BY <1>1 DEF IterInv, Stays, K!Passed, K!Cells, K!Name
<1>3. \A i \in 1..Len(out) : Behind(out[i].from, out[i].at)' <=> Behind(out[i].from, out[i].at)
  BY <1>1 DEF Behind
<1>4. k_pc' = "end" => section_idx = Len(sections) /\ (iter = K!None \/ iter.index = Height)
  <2>1. Len(sections) \in Nat /\ section_idx \in 0..Len(sections)
    BY SectionsAre DEF IterInv
  <2> QED BY <1>1, <2>1 DEF IterInv
<1> QED BY <1>1, <1>2, <1>3, <1>4 DEF IterInv, Place

LEMMA IterKeeps == ASSUME Fits, IterInv, [K!Next]_(K!vars) PROVE IterInv'
BY PassKeeps, YieldKeeps, TakesNext, StopKeeps DEF K!Next

LEMMA AllReturned == ASSUME Fits, IterInv PROVE K!ReturnsWhatItPasses
<1>1. ASSUME k_pc = "end" PROVE K!Cells \subseteq K!Passed
  <2>1. section_idx = Len(sections) /\ (iter = K!None \/ iter.index = Height)
           /\ Len(sections) \in Nat
    BY <1>1, SectionsAre DEF IterInv
  <2>2. iter.section = Len(sections) /\ (Len(sections) = 0 \/ iter.index = Height)
    BY <2>1 DEF IterInv, K!None
  <2> SUFFICES ASSUME NEW c \in K!Cells
               PROVE  c[1] < iter.section \/ (c[1] = iter.section /\ c[2] < iter.index)
    BY DEF K!Passed
  <2>3. c[1] \in 1..Len(sections) /\ c[2] \in 0 .. (Height - 1) /\ Height \in Nat
    BY DEF K!Cells, Fits, K!WidthAssumption
  <2> QED BY <2>1, <2>2, <2>3
<1> QED BY <1>1 DEF IterInv, K!ReturnsWhatItPasses, Place

LEMMA AlwaysIter == ASSUME Fits PROVE K!Spec => []IterInv
<1>1. IterInv /\ [K!Next]_(K!vars) => IterInv'
  BY IterKeeps
<1>2. K!Init => IterInv
  BY IterInit
<1> QED BY <1>1, <1>2, PTL DEF K!Spec

\* Looked up by world coordinates, a block is what was stored there, whatever the
\* palette, the width of its indices and the y of the sections; a biome is, if its
\* palette is small enough for the least width.
\* (ChunkSection::get_block, Chunk::get_block, get_biome)
THEOREM BlocksFoundWhereStored == K!Spec => []LookupFindsBlock
<1>1. IterInv => LookupFindsBlock
  BY LookedUp, ConstantsFit DEF IterInv, Fits, LookupFindsBlock
<1> QED BY <1>1, AlwaysIter, ConstantsFit, PTL DEF Fits

\* The iterator over a chunk returns each block that it goes past, once and in
\* order, and ends behind the last one.  (BlockIter::next, ChunkBlockIter::next)
THEOREM IteratorMissesNone == K!Spec => []ReturnsWhatItPasses
<1>1. IterInv => ReturnsWhatItPasses
  BY AllReturned, ConstantsFit DEF Fits, ReturnsWhatItPasses
<1> QED BY <1>1, AlwaysIter, ConstantsFit, PTL DEF Fits
=============================================================================
