--------------------------- MODULE FramingProofs ---------------------------
(***************************************************************************)
(* Proof about Framing, for frames of any length and content, with and     *)
(* without compression, between packetless bytes of any kind, and a stream *)
(* that the network cuts anywhere: the frames handed on are those sent.    *)
(***************************************************************************)
EXTENDS Framing, SequenceTheorems, TLAPS

Assumptions == BaseAssumption /\ SizeAssumption /\ WeightAssumption /\ StreamsAssumption

\* What is proved of VarInt's functions; they are the same ones here.
I == INSTANCE VarIntCodecProofs WITH Foreign <- {}, pc <- "write", given <- 0, v <- 0,
        src <- <<>>, whole <- FALSE, pos <- 0, shift <- 0, value <- 0

\* A byte on the wire (a number: Deflate writes a length as one).
Octet == Nat

\* A piece of the stream: bytes that no frame starts with, or one frame whole,
\* and the packets the receiver is to find in it.
Piece(b, fs) ==
    /\ b \in Seq(Octet) /\ fs \in Seq(Packet)
    /\ LET p == FromBytes(b) IN
       \/ Stuck(p) /\ fs = <<>>
       \/ /\ p.is = "ok" /\ Length(p) >= 0 /\ End(p) = Len(b)
          /\ \/ PacketsIn(SubSeq(b, p.consumed + 1, Len(b)), comp) = {} /\ fs = <<>>
             \/ \E f \in Packet : /\ PacketsIn(SubSeq(b, p.consumed + 1, Len(b)), comp) = {f}
                                  /\ fs = <<f>>

\* Streams made of pieces, each with the packets in it: T holds the empty stream
\* and such as begin with a piece whose rest is in T.  (Such a set stands for the
\* recursive definition of "made of pieces".)
Begins(s, fs, b, gs, t, hs) == Piece(b, gs) /\ s = b \o t /\ fs = gs \o hs
Pieced(T) ==
    /\ T \subseteq Seq(Octet) \X Seq(Packet)
    /\ \A s \in Seq(Octet), fs \in Seq(Packet) : <<s, fs>> \in T =>
         \/ s = <<>> /\ fs = <<>>
         \/ \E b \in Seq(Octet), t \in Seq(Octet), gs \in Seq(Packet), hs \in Seq(Packet) :
               <<t, hs>> \in T /\ Begins(s, fs, b, gs, t, hs)

Entry == [raw : Seq(Byte), frames : Seq(Packet)]

TypeOK == /\ comp \in BOOLEAN
          /\ coming \in Seq(Entry) /\ \A i \in 1..Len(coming) : Sendable(coming[i], comp)
          /\ wire \in Seq(Octet) /\ buf \in Seq(Octet)
          /\ sent \in Seq(Packet) /\ got \in Seq(Packet)

\* What is in the buffer and on the wire is made of pieces, whose packets are
\* those that were sent and not handed on yet.
IInv == /\ TypeOK
        /\ \E rest, T : /\ rest \in Seq(Packet) /\ sent = got \o rest
                         /\ Pieced(T) /\ <<buf \o wire, rest>> \in T

-----------------------------------------------------------------------------
LEMMA SameFunctions ==
  /\ Byte = I!Byte
  /\ \A a : EncodedLen(a) = I!EncodedLen(a) /\ Groups(a) = I!Groups(a) /\ ToBytes(a) = I!ToBytes(a)
  /\ \A s : FromBytes(s) = I!FromBytes(s)
<1>1. Byte = I!Byte /\ \A b : More(b) <=> I!More(b)
  BY DEF Byte, I!Byte, More, I!More
<1>2. \A S : Min(S) = I!Min(S)
  BY DEF Min, I!Min
<1>3. \A a : EncodedLen(a) = I!EncodedLen(a) /\ Groups(a) = I!Groups(a)
  BY <1>2 DEF EncodedLen, I!EncodedLen, Groups, I!Groups
<1>4. \A a : ToBytes(a) = I!ToBytes(a)
  BY <1>3 DEF ToBytes, I!ToBytes
<1>5. \A s : Ends(s) = I!Ends(s)
  BY <1>1 DEF Ends, I!Ends
<1>6. \A s, n : ValueOf(s, n) = I!ValueOf(s, n)
  BY DEF ValueOf, I!ValueOf
<1>7. \A s : FromBytes(s) = I!FromBytes(s)
  BY <1>2, <1>5, <1>6 DEF FromBytes, I!FromBytes
<1> QED BY <1>1, <1>3, <1>4, <1>7

LEMMA SameAssumptions ==
  ASSUME Assumptions
  PROVE  I!BaseAssumption /\ I!SizeAssumption /\ I!WeightAssumption
BY DEF Assumptions, BaseAssumption, I!BaseAssumption, SizeAssumption, I!SizeAssumption,
       WeightAssumption, I!WeightAssumption

\* A verdict other than "incomplete" stands, whatever bytes follow.
LEMMA PrefixDecides ==
  ASSUME Assumptions, NEW s, Len(s) \in Nat, NEW t, Len(t) \in Nat, Len(t) <= Len(s),
         \A i \in 1..Len(t) : s[i] = t[i], FromBytes(t).is # "incomplete"
  PROVE  FromBytes(s) = FromBytes(t)
<1>1. I!BaseAssumption /\ I!SizeAssumption /\ I!FromBytes(t).is # "incomplete"
  BY SameAssumptions, SameFunctions
<1>2. I!FromBytes(s) = I!FromBytes(t)
  BY <1>1, I!PrefixDecides
<1> QED BY <1>2, SameFunctions

\* A sequence without what it begins with.
LEMMA CutOff ==
  ASSUME NEW s \in Seq(Octet), NEW x \in Seq(Octet)
  PROVE  SubSeq(s \o x, Len(s) + 1, Len(s \o x)) = x
<1> PICK m \in Nat : m = Len(s)
  BY LenProperties
<1> PICK n \in Nat : n = Len(x)
  BY LenProperties
<1>1. Len(s \o x) = m + n
  BY ConcatProperties
<1>2. CASE n = 0
  <2>1. x = <<>> /\ m + n < m + 1
    <3>1. x # <<>> => Len(x) \in Nat \ {0}
      BY EmptySeq, Zenon
    <3>2. m + n < m + 1
      BY <1>2
    <3> QED BY <1>2, <3>1, <3>2
  <2>2. m + 1 \in Int /\ m + n \in Int
    OBVIOUS
  <2> QED BY <1>1, <2>1, <2>2, SubSeqEmpty
<1>3. CASE n > 0
  <2>1. m + 1 \in (m + 1)..(m + n) /\ m + n \in (m + 1)..(m + n)
    BY <1>3
  <2>2. SubSeq(s \o x, m + 1, m + n) = SubSeq(x, (m + 1) - m, (m + n) - m)
    BY <2>1, SubSeqOfConcat2
  <2>3. (m + 1) - m = 1 /\ (m + n) - m = n
    OBVIOUS
  <2> QED BY <1>1, <2>2, <2>3, SubSeqFull
<1> QED BY <1>2, <1>3

\* Two halves of a sequence.
LEMMA TwoHalves ==
  ASSUME NEW s \in Seq(Octet), NEW n \in 0..Len(s)
  PROVE  /\ SubSeq(s, 1, n) \in Seq(Octet) /\ Len(SubSeq(s, 1, n)) = n
         /\ SubSeq(s, n + 1, Len(s)) \in Seq(Octet)
         /\ SubSeq(s, 1, n) \o SubSeq(s, n + 1, Len(s)) = s
<1>1. Len(s) \in Nat /\ n \in Nat /\ n <= Len(s) /\ \A i \in 1..Len(s) : s[i] \in Octet
  BY LenProperties, ElementOfSeq
<1>2. SubSeq(s, 1, n) \in Seq(Octet) /\ Len(SubSeq(s, 1, n)) = n
  <2>1. 1 \in Int /\ n \in Int /\ \A i \in 1..n : s[i] \in Octet
    BY <1>1
  <2>2. SubSeq(s, 1, n) \in Seq(Octet) /\ Len(SubSeq(s, 1, n)) = IF 1 <= n THEN n - 1 + 1 ELSE 0
    BY <2>1, SubSeqProperties
  <2> QED BY <1>1, <2>2
<1>3. SubSeq(s, n + 1, Len(s)) \in Seq(Octet)
  <2>1. n + 1 \in Int /\ Len(s) \in Int /\ \A i \in (n + 1)..Len(s) : s[i] \in Octet
    BY <1>1
  <2> QED BY <2>1, SubSeqProperties
<1>4. SubSeq(s, 1, n) \o SubSeq(s, n + 1, Len(s)) = SubSeq(s, 1, Len(s))
  <2>1. 1 \in 1..(Len(s) + 1) /\ n \in (1 - 1)..Len(s) /\ Len(s) \in n..Len(s)
    BY <1>1
  <2> QED BY <2>1, ConcatAdjacentSubSeq
<1> QED BY <1>2, <1>3, <1>4, SubSeqFull

\* A stream has one beginning of a given length.
LEMMA Cancel ==
  ASSUME NEW x \in Seq(Octet), NEW e \in Seq(Octet), NEW b \in Seq(Octet), NEW t \in Seq(Octet),
         x \o e = b \o t, Len(x) = Len(b)
  PROVE  x = b /\ e = t
<1>1. SubSeq(x \o e, Len(x) + 1, Len(x \o e)) = e
  BY CutOff
<1>2. SubSeq(b \o t, Len(b) + 1, Len(b \o t)) = t
  BY CutOff
<1>3. \A i \in 1..Len(x) : x[i] = b[i]
  <2> TAKE i \in 1..Len(x)
  <2>1. (x \o e)[i] = x[i]
    BY ConcatProperties, LenProperties
  <2>2. (b \o t)[i] = b[i]
    BY ConcatProperties, LenProperties
  <2> QED BY <2>1, <2>2
<1>4. x = b
  BY <1>3, SeqEqual
<1> QED BY <1>1, <1>2, <1>4

LEMMA Associates ==
  \A p, q, r \in Seq(Octet) : (p \o q) \o r = p \o (q \o r)
BY ConcatAssociative

LEMMA PacketsAssociate ==
  \A p, q, r \in Seq(Packet) : (p \o q) \o r = p \o (q \o r)
BY ConcatAssociative

\* What is in the buffer of a stream that begins with b, if all of b is.
LEMMA Peel ==
  ASSUME NEW c \in Seq(Octet), NEW w \in Seq(Octet), NEW b \in Seq(Octet), NEW t \in Seq(Octet),
         c \o w = b \o t, Len(b) <= Len(c)
  PROVE  /\ SubSeq(c, Len(b) + 1, Len(c)) \in Seq(Octet)
         /\ SubSeq(c, Len(b) + 1, Len(c)) \o w = t
         /\ c = b \o SubSeq(c, Len(b) + 1, Len(c))
<1> PICK n \in Nat : n = Len(b)
  BY LenProperties
<1>1. n \in 0..Len(c)
  BY LenProperties
<1>2. PICK x \in Seq(Octet) : x = SubSeq(c, 1, n)
  BY <1>1, TwoHalves
<1>3. PICK d \in Seq(Octet) : d = SubSeq(c, n + 1, Len(c))
  BY <1>1, TwoHalves
<1>4. Len(x) = n /\ x \o d = c
  BY <1>1, <1>2, <1>3, TwoHalves
<1>5. (x \o d) \o w = x \o (d \o w)
  <2>1. x \in Seq(Octet) /\ d \in Seq(Octet) /\ w \in Seq(Octet)
    BY <1>2, <1>3
  <2> QED BY ONLY <2>1, Associates
<1>6. PICK e \in Seq(Octet) : e = d \o w
  BY <1>3, ConcatProperties
<1>7. x \o e = b \o t
  BY <1>4, <1>5, <1>6
<1>8. x = b /\ e = t
  BY <1>2, <1>4, <1>6, <1>7, Cancel
<1> QED BY <1>3, <1>4, <1>6, <1>8

\* A VarInt in front of other bytes is read back.
LEMMA ReadsFirst ==
  ASSUME Assumptions, NEW a \in 0..(Size - 1), NEW x \in Seq(Octet)
  PROVE  /\ ToBytes(a) \in Seq(Byte) /\ ToBytes(a) \in Seq(Octet)
         /\ Len(ToBytes(a)) = Groups(a) /\ Groups(a) \in Nat \ {0} /\ EncodedLen(a) = Groups(a)
         /\ FromBytes(ToBytes(a) \o x) = [is |-> "ok", value |-> a, consumed |-> Groups(a)]
         /\ SubSeq(ToBytes(a) \o x, Groups(a) + 1, Len(ToBytes(a) \o x)) = x
<1> PICK s : s = ToBytes(a)
  OBVIOUS
<1> PICK g : g = Groups(a)
  OBVIOUS
<1>1. I!BaseAssumption /\ I!SizeAssumption /\ I!WeightAssumption
  BY SameAssumptions
<1>2. s \in Seq(Byte) /\ Len(s) = g
  BY <1>1, I!BytesWritten, SameFunctions
<1>3. g \in Nat /\ g > 0 /\ EncodedLen(a) = g
  <2>1. g \in 1..MaxBytes /\ EncodedLen(a) = g
    BY <1>1, I!GroupsOf, SameFunctions
  <2> QED BY <2>1 DEF Assumptions, SizeAssumption
<1>4. FromBytes(s) = [is |-> "ok", value |-> a, consumed |-> g]
  BY <1>1, I!ReadsOwn, SameFunctions
<1>5. s \in Seq(Octet)
  <2>1. Byte \subseteq Octet
    BY DEF Byte, Octet
  <2> QED BY <1>2, <2>1, SeqMonotonic
<1> PICK y : y = s \o x
  OBVIOUS
<1>6. /\ y \in Seq(Octet) /\ Len(y) = g + Len(x) /\ Len(x) \in Nat /\ Len(y) \in Nat
      /\ \A i \in 1..(g + Len(x)) : y[i] = IF i <= g THEN s[i] ELSE x[i - g]
  BY <1>2, <1>5, ConcatProperties, LenProperties
<1>7. FromBytes(y) = FromBytes(s)
  <2>1. Len(s) \in Nat /\ Len(s) <= Len(y) /\ \A i \in 1..Len(s) : y[i] = s[i]
    BY <1>2, <1>3, <1>6
  <2>2. FromBytes(s).is # "incomplete"
    BY <1>4
  <2> QED BY <1>6, <2>1, <2>2, PrefixDecides
<1>8. SubSeq(y, g + 1, Len(y)) = x
  BY <1>2, <1>5, CutOff
<1> QED BY <1>2, <1>3, <1>4, <1>5, <1>7, <1>8

-----------------------------------------------------------------------------
\* The decoder takes back what the encoder does.
LEMMA Inflated ==
  ASSUME NEW s \in Seq(Octet)
  PROVE  /\ Deflate(s) \in Seq(Octet) /\ Len(Deflate(s)) = Len(s) + 1
         /\ Inflates(Deflate(s)) /\ Inflate(Deflate(s)) = s
<1> PICK n \in Nat : n = Len(s)
  BY LenProperties
<1> PICK r : r = Reverse(s)
  OBVIOUS
<1>1. r \in Seq(Octet) /\ Len(r) = n /\ \A i \in 1..n : r[i] = s[(n - i) + 1]
  <2>1. r = [i \in 1..n |-> s[(n - i) + 1]]
    BY DEF Reverse
  <2>2. \A i \in 1..n : s[(n - i) + 1] \in Octet
    <3> TAKE i \in 1..n
    <3>1. (n - i) + 1 \in 1..Len(s)
      OBVIOUS
    <3> QED BY <3>1, ElementOfSeq
  <2> QED BY <2>1, <2>2
<1> PICK z : z = <<n>> \o r
  OBVIOUS
<1>2. /\ <<n>> \in Seq(Octet) /\ Len(<<n>>) = 1 /\ z \in Seq(Octet) /\ Len(z) = 1 + n
      /\ \A i \in 1..(1 + n) : z[i] = IF i <= 1 THEN <<n>>[i] ELSE r[i - 1]
  <2>1. <<n>> \in Seq(Octet) /\ Len(<<n>>) = 1
    BY DEF Octet
  <2> QED BY <1>1, <2>1, ConcatProperties
<1>3. z # <<>> /\ z[1] = n
  BY <1>2
<1>4. SubSeq(z, 2, n + 1) = r
  <2>1. SubSeq(<<n>> \o r, Len(<<n>>) + 1, Len(<<n>> \o r)) = r
    BY <1>1, <1>2, CutOff
  <2>2. Len(<<n>>) + 1 = 2 /\ Len(z) = n + 1
    BY <1>2
  <2> QED BY ONLY <2>1, <2>2, z = <<n>> \o r
<1>5. Reverse(r) = s
  <2>1. Reverse(r) = [i \in 1..n |-> r[(n - i) + 1]]
    BY <1>1 DEF Reverse
  <2>2. \A i \in 1..n : r[(n - i) + 1] = s[i]
    <3> TAKE i \in 1..n
    <3>1. (n - i) + 1 \in 1..n /\ (n - ((n - i) + 1)) + 1 = i
      OBVIOUS
    <3> QED BY <1>1, <3>1
  <2>3. s = [i \in 1..n |-> s[i]]
    BY LenProperties
  <2> QED BY <2>1, <2>2, <2>3
<1>6. Deflate(s) = z
  BY DEF Deflate
<1>7. Inflates(z) /\ Inflate(z) = s
  <2>1. Len(z) > z[1] /\ SubSeq(z, 2, z[1] + 1) = r
    <3>1. z[1] + 1 = n + 1 /\ Len(z) > z[1]
      BY <1>2, <1>3
    <3> QED BY ONLY <1>4, <3>1
  <2> QED BY ONLY <1>3, <1>5, <2>1 DEF Inflates, Inflate
<1> QED BY <1>2, <1>6, <1>7

\* A packet encoded is found again, alone.
LEMMA PacketFound ==
  ASSUME Assumptions, NEW f \in Packet
  PROVE  Packets(ToBytes(f.id) \o f.body) = {f}
<1> PICK id \in 0..(Size - 1) : id = f.id
  BY DEF Packet
<1> PICK body \in Seq(Octet) : body = f.body
  <2>1. Byte \subseteq Octet /\ f.body \in Seq(Byte)
    BY DEF Byte, Packet, Octet
  <2> QED BY <2>1, SeqMonotonic
<1> PICK y : y = ToBytes(id) \o body
  OBVIOUS
<1>1. /\ FromBytes(y) = [is |-> "ok", value |-> id, consumed |-> Groups(id)]
      /\ EncodedLen(id) = Groups(id) /\ SubSeq(y, Groups(id) + 1, Len(y)) = body
  BY ReadsFirst
<1>2. f = [id |-> id, body |-> body]
  BY DEF Packet
<1>3. Packets(y) = {[id |-> id, body |-> SubSeq(y, EncodedLen(id) + 1, Len(y))]}
  <2> PICK r : r = FromBytes(y)
    OBVIOUS
  <2>1. {i \in {r} : i.is = "ok"} = {r} /\ r.value = id
    BY <1>1
  <2>2. ASSUME NEW m
        PROVE  m \in Packets(y) <=> m = [id |-> r.value, body |-> SubSeq(y, EncodedLen(r.value) + 1, Len(y))]
    BY <2>1, Zenon DEF Packets
  <2> QED BY ONLY <2>1, <2>2
<1> QED BY <1>1, <1>2, <1>3

\* The length prefix found in a stream.
LEMMA PrefixFound ==
  ASSUME Assumptions, NEW s \in Seq(Octet), FromBytes(s).is = "ok"
  PROVE  FromBytes(s).consumed \in 1..Len(s) /\ Length(FromBytes(s)) \in Int
<1> PICK p : p = FromBytes(s)
  OBVIOUS
<1>1. p.value \in 0..(Size - 1) /\ p.consumed \in 1..Len(s)
  <2>1. s \in Seq(Nat) /\ I!FromBytes(s).is = "ok"
    BY SameFunctions DEF Octet
  <2>2. I!FromBytes(s).value \in 0..(Size - 1) /\ I!FromBytes(s).consumed \in 1..Len(s)
    BY <2>1, SameAssumptions, I!Found
  <2> QED BY <2>2, SameFunctions
<1>2. Size \in Nat
  BY DEF Assumptions, SizeAssumption
<1>3. Length(p) \in Int
  BY <1>1, <1>2 DEF Length, Signed
<1> QED BY <1>1, <1>3

\* What is unpacked from the data of a frame is what was packed into it.
LEMMA Repacked ==
  ASSUME Assumptions, NEW whole \in Seq(Octet), whole # <<>>, 2 * Len(whole) < Size
  PROVE  Compressed(whole) \in Seq(Octet) /\ Unpacked(Compressed(whole), TRUE) = {whole}
<1> PICK n \in Nat \ {0} : n = Len(whole)
  BY EmptySeq
<1> PICK z : z = Compressed(whole)
  OBVIOUS
<1>1. Size \in Nat \ {0} /\ n \in 0..(Size - 1) /\ 0 \in 0..(Size - 1)
  BY DEF Assumptions, SizeAssumption
<1>2. ASSUME NEW d \in Seq(Octet), NEW a \in 0..(Size - 1), z = ToBytes(a) \o d,
             \/ a = 0 /\ d = whole
             \/ a # 0 /\ Inflates(d) /\ Inflate(d) = whole
      PROVE  z \in Seq(Octet) /\ Unpacked(z, TRUE) = {whole}
  <2>1. /\ ToBytes(a) \in Seq(Octet)
        /\ FromBytes(z) = [is |-> "ok", value |-> a, consumed |-> Groups(a)]
        /\ SubSeq(z, Groups(a) + 1, Len(z)) = d
    BY <1>2, ReadsFirst
  <2> PICK r : r = FromBytes(z)
    OBVIOUS
  <2>2. r.is = "ok" /\ r.value = a /\ SubSeq(z, r.consumed + 1, Len(z)) = d
    BY <2>1
  <2>3. {x \in {r} : x.is = "ok" /\ (x.value = 0 \/ Inflates(SubSeq(z, x.consumed + 1, Len(z))))} = {r}
    BY <1>2, <2>2
  <2>4. Unpacked(z, TRUE) = {IF r.value = 0 THEN d ELSE Inflate(d)}
    <3>1. ASSUME NEW m
          PROVE  m \in Unpacked(z, TRUE) <=> m = IF r.value = 0 THEN d ELSE Inflate(d)
      BY <2>2, <2>3, Zenon DEF Unpacked
    <3> QED BY <3>1
  <2>5. z \in Seq(Octet)
    BY <1>2, <2>1, ConcatProperties
  <2> QED BY <1>2, <2>2, <2>4, <2>5
<1>3. CASE n >= Threshold
  <2>1. PICK d \in Seq(Octet) : d = Deflate(whole) /\ Inflates(d) /\ Inflate(d) = whole
    BY Inflated
  <2>2. z = ToBytes(n) \o d
    BY <1>3, <2>1 DEF Compressed
  <2> QED BY <1>1, <1>2, <2>1, <2>2
<1>4. CASE ~(n >= Threshold)
  <2>1. z = <<0>> \o whole
    BY <1>4 DEF Compressed
  <2>2. ToBytes(0) = <<0>>
    <3>1. I!ToBytes(0) = <<0>>
      BY <1>1, SameAssumptions, I!ZeroIsOneByte
    <3> QED BY <3>1, SameFunctions
  <2> QED BY <1>1, <1>2, <2>1, <2>2
<1> QED BY <1>3, <1>4

\* Behind its length, it is a whole frame.
LEMMA Framed ==
  ASSUME Assumptions, NEW inner \in Seq(Octet), 2 * Len(inner) < Size,
         NEW b, b = ToBytes(Len(inner)) \o inner, NEW p, p = FromBytes(b)
  PROVE  /\ b \in Seq(Octet) /\ p.is = "ok" /\ Length(p) >= 0 /\ End(p) = Len(b)
         /\ SubSeq(b, p.consumed + 1, Len(b)) = inner
<1> PICK n \in Nat : n = Len(inner)
  BY LenProperties
<1>1. n \in 0..(Size - 1) /\ Size \in Nat /\ ~(2 * n >= Size)
  BY DEF Assumptions, SizeAssumption
<1>2. /\ p = [is |-> "ok", value |-> n, consumed |-> Groups(n)]
      /\ Groups(n) \in Nat /\ Len(ToBytes(n)) = Groups(n)
      /\ ToBytes(n) \in Seq(Octet) /\ SubSeq(b, Groups(n) + 1, Len(b)) = inner
  BY <1>1, ReadsFirst
<1>3. b \in Seq(Octet) /\ Len(b) = Groups(n) + n
  <2> PICK w \in Seq(Octet) : w = ToBytes(n)
    BY <1>2
  <2>1. b = w \o inner /\ Len(w) = Groups(n) /\ Len(inner) = n /\ inner \in Seq(Octet)
    BY <1>2
  <2>2. w \o inner \in Seq(Octet) /\ Len(w \o inner) = Len(w) + Len(inner)
    BY ONLY <2>1, ConcatProperties
  <2> QED BY ONLY <2>1, <2>2
<1>4. Length(p) = n
  BY <1>1, <1>2 DEF Length, Signed
<1> QED BY <1>2, <1>3, <1>4 DEF End

\* A frame on the wire is a piece, with its packet in it.
LEMMA FrameIsPiece ==
  ASSUME Assumptions, comp \in BOOLEAN, NEW f \in Packet, Frameable(f, comp)
  PROVE  Piece(FramePacket(f.id, f.body, comp), <<f>>)
<1> PICK whole : whole = ToBytes(f.id) \o f.body
  OBVIOUS
<1>1. whole \in Seq(Octet) /\ whole # <<>>
  <2>1. f.id \in 0..(Size - 1) /\ f.body \in Seq(Octet)
    <3>1. Byte \subseteq Octet /\ f.body \in Seq(Byte) /\ f.id \in 0..(Size - 1)
      BY DEF Byte, Packet, Octet
    <3> QED BY <3>1, SeqMonotonic
  <2>2. ToBytes(f.id) \in Seq(Octet) /\ Len(ToBytes(f.id)) # 0
    BY <2>1, ReadsFirst
  <2>3. Len(whole) = Len(ToBytes(f.id)) + Len(f.body) /\ whole \in Seq(Octet)
    BY <2>1, <2>2, ConcatProperties
  <2>4. Len(ToBytes(f.id)) \in Nat /\ Len(f.body) \in Nat
    BY <2>1, <2>2, LenProperties
  <2>5. Len(<<>>) = 0
    OBVIOUS
  <2> QED BY <2>2, <2>3, <2>4, <2>5
<1>2. 2 * Len(whole) < Size /\ (comp => 2 * Len(Compressed(whole)) < Size)
  BY DEF Frameable
<1>3. PICK inner \in Seq(Octet) : /\ inner = IF comp THEN Compressed(whole) ELSE whole
                                 /\ Unpacked(inner, comp) = {whole}
  <2>1. CASE comp
    BY <1>1, <1>2, <2>1, Repacked
  <2>2. CASE ~comp
    BY <1>1, <2>2 DEF Unpacked
  <2> QED BY <2>1, <2>2
<1>4. 2 * Len(inner) < Size
  BY <1>2, <1>3
<1> PICK b : b = ToBytes(Len(inner)) \o inner
  OBVIOUS
<1> PICK p : p = FromBytes(b)
  OBVIOUS
<1>5. /\ b \in Seq(Octet) /\ p.is = "ok" /\ Length(p) >= 0 /\ End(p) = Len(b)
      /\ SubSeq(b, p.consumed + 1, Len(b)) = inner
  BY <1>3, <1>4, Framed
<1>6. PacketsIn(inner, comp) = {f}
  <2>1. Packets(whole) = {f}
    BY PacketFound
  <2> QED BY <1>3, <2>1 DEF PacketsIn
<1>7. FramePacket(f.id, f.body, comp) = b
  BY <1>3 DEF FramePacket, Prefixed, EncodePacket
<1>8. Piece(b, <<f>>)
  <2>1. <<f>> \in Seq(Packet)
    OBVIOUS
  <2>2. PacketsIn(SubSeq(b, p.consumed + 1, Len(b)), comp) = {f}
    BY <1>5, <1>6
  <2> QED BY ONLY <1>5, <2>1, <2>2, p = FromBytes(b), f \in Packet DEF Piece
<1> QED BY <1>7, <1>8

\* So is what stands for no packet.
LEMMA PacketlessIsPiece ==
  ASSUME Assumptions, comp \in BOOLEAN, NEW b \in Seq(Octet), Packetless(b, comp)
  PROVE  Piece(b, <<>>)
<1> PICK p : p = FromBytes(b)
  OBVIOUS
<1>1. CASE Stuck(p)
  BY <1>1 DEF Piece
<1>2. CASE ~Stuck(p)
  <2>1. /\ p.is = "ok" /\ End(p) = Len(b)
        /\ PacketsIn(SubSeq(b, p.consumed + 1, Len(b)), comp) = {}
    BY <1>2 DEF Packetless
  <2>2. Length(p) >= 0
    <3>1. Length(p) \in Int
      BY <2>1, PrefixFound
    <3> QED BY <1>2, <2>1, <3>1 DEF Stuck
  <2> QED BY <2>1, <2>2 DEF Piece
<1> QED BY <1>1, <1>2

\* What an entry puts on the wire.
LEMMA EntryIsPiece ==
  ASSUME Assumptions, comp \in BOOLEAN, NEW e \in Entry, Sendable(e, comp)
  PROVE  Piece(BytesOf(e), e.frames)
<1>1. e.raw \in Seq(Byte) /\ e.frames \in Seq(Packet)
  BY DEF Entry
<1>2. CASE e.frames = <<>> /\ Packetless(e.raw, comp)
  <2>1. e.raw \in Seq(Octet)
    <3>1. Byte \subseteq Octet
      BY DEF Byte, Octet
    <3> QED BY <1>1, <3>1, SeqMonotonic
  <2> QED BY <1>2, <2>1, PacketlessIsPiece DEF BytesOf
<1>3. CASE Len(e.frames) = 1 /\ Frameable(e.frames[1], comp)
  <2> PICK f : f = e.frames[1]
    OBVIOUS
  <2>1. f \in Packet
    BY <1>1, <1>3, ElementOfSeq
  <2>2. e.frames = <<f>> /\ e.frames # <<>>
    BY <1>1, <1>3
  <2>3. Piece(FramePacket(f.id, f.body, comp), <<f>>)
    BY <1>3, <2>1, FrameIsPiece
  <2> QED BY <2>2, <2>3 DEF BytesOf
<1> QED BY <1>2, <1>3 DEF Sendable

-----------------------------------------------------------------------------
LEMMA EmptyPair == <<<<>>, <<>>>> \in Seq(Octet) \X Seq(Packet)
<1>1. <<>> \in Seq(Octet) /\ <<>> \in Seq(Packet)
  BY EmptySeq
<1>2. \A A, B : \A a \in A, b \in B : <<a, b>> \in A \X B
  OBVIOUS
<1> QED BY <1>1, <1>2, Zenon

\* One more piece at the end of a stream made of pieces.
LEMMA OnePieceMore ==
  ASSUME NEW T, Pieced(T), NEW s \in Seq(Octet), NEW fs \in Seq(Packet), <<s, fs>> \in T,
         NEW c, NEW ks, Piece(c, ks)
  PROVE  \E U : Pieced(U) /\ <<s \o c, fs \o ks>> \in U
<1> DEFINE U == {<<p[1] \o c, p[2] \o ks>> : p \in T} \cup {<<<<>>, <<>>>>}
<1>1. c \in Seq(Octet) /\ ks \in Seq(Packet) /\ T \subseteq Seq(Octet) \X Seq(Packet)
  BY DEF Piece, Pieced
<1>2. \A x, y : <<x, y>> \in T => <<x \o c, y \o ks>> \in U
  <2> TAKE x, y
  <2> HAVE <<x, y>> \in T
  <2>1. <<x, y>>[1] = x /\ <<x, y>>[2] = y
    OBVIOUS
  <2>2. PICK p \in T : p = <<x, y>> /\ p[1] = x /\ p[2] = y
    BY <2>1
  <2>3. <<p[1] \o c, p[2] \o ks>> \in U
    BY <2>2
  <2> QED BY <2>2, <2>3
<1>3. U \subseteq Seq(Octet) \X Seq(Packet)
  <2>1. \A p \in T : p[1] \in Seq(Octet) /\ p[2] \in Seq(Packet)
    BY <1>1
  <2>2. \A x \in Seq(Octet), y \in Seq(Packet) : x \o c \in Seq(Octet) /\ y \o ks \in Seq(Packet)
    BY <1>1, ConcatProperties
  <2>3. \A p \in T : p[1] \o c \in Seq(Octet) /\ p[2] \o ks \in Seq(Packet)
    BY <2>1, <2>2, Zenon
  <2>4. <<<<>>, <<>>>> \in Seq(Octet) \X Seq(Packet)
    BY EmptyPair
  <2> SUFFICES ASSUME NEW u \in U PROVE u \in Seq(Octet) \X Seq(Packet)
    OBVIOUS
  <2>5. CASE u = <<<<>>, <<>>>>
    BY <2>4, <2>5
  <2>6. CASE u # <<<<>>, <<>>>>
    <3>1. PICK p \in T : u = <<p[1] \o c, p[2] \o ks>>
      BY <2>6
    <3> QED BY <2>3, <3>1
  <2> QED BY <2>5, <2>6
<1>4. <<<<>>, <<>>>> \in U
  OBVIOUS
<1>5. ASSUME NEW x \in Seq(Octet), NEW y \in Seq(Packet), <<x, y>> \in U
      PROVE  \/ x = <<>> /\ y = <<>>
             \/ \E b \in Seq(Octet), t \in Seq(Octet), gs \in Seq(Packet), hs \in Seq(Packet) :
                   <<t, hs>> \in U /\ Begins(x, y, b, gs, t, hs)
  <2>1. CASE x = <<>> /\ y = <<>>
    BY <2>1
  <2>2. CASE ~(x = <<>> /\ y = <<>>)
    <3>1. PICK p \in T : x = p[1] \o c /\ y = p[2] \o ks
      BY <1>5, <2>2
    <3>2. PICK r \in Seq(Octet), q \in Seq(Packet) : p = <<r, q>>
      BY <1>1
    <3>3. <<r, q>> \in T /\ x = r \o c /\ y = q \o ks
      BY <3>1, <3>2
    <3>4. CASE r = <<>> /\ q = <<>>
      <4>1. /\ <<>> \in Seq(Octet) /\ <<>> \in Seq(Packet)
            /\ <<>> \o c = c \o <<>> /\ <<>> \o ks = ks \o <<>>
        BY <1>1, EmptySeq, ConcatEmptySeq
      <4>2. Begins(x, y, c, ks, <<>>, <<>>)
        BY <3>3, <3>4, <4>1 DEF Begins
      <4> HIDE DEF U
      <4> QED BY <1>1, <1>4, <4>1, <4>2
    <3>5. CASE \E b \in Seq(Octet), t \in Seq(Octet), gs \in Seq(Packet), hs \in Seq(Packet) :
                   <<t, hs>> \in T /\ Begins(r, q, b, gs, t, hs)
      <4>1. PICK b \in Seq(Octet), t \in Seq(Octet), gs \in Seq(Packet), hs \in Seq(Packet) :
                   <<t, hs>> \in T /\ Begins(r, q, b, gs, t, hs)
        BY <3>5, Zenon
      <4>2. (b \o t) \o c = b \o (t \o c) /\ (gs \o hs) \o ks = gs \o (hs \o ks)
        <5>1. b \in Seq(Octet) /\ t \in Seq(Octet) /\ gs \in Seq(Packet) /\ hs \in Seq(Packet)
          BY <4>1
        <5>2. (b \o t) \o c = b \o (t \o c)
          BY ONLY <1>1, <5>1, Associates
        <5>3. (gs \o hs) \o ks = gs \o (hs \o ks)
          BY ONLY <1>1, <5>1, PacketsAssociate
        <5> QED BY <5>2, <5>3
      <4>3. t \o c \in Seq(Octet) /\ hs \o ks \in Seq(Packet)
        BY <1>1, <4>1, ConcatProperties
      <4>4. Begins(x, y, b, gs, t \o c, hs \o ks)
        BY <3>3, <4>1, <4>2 DEF Begins
      <4>5. <<t \o c, hs \o ks>> \in U
        BY <1>2, <4>1, Zenon
      <4> HIDE DEF U
      <4> QED BY <4>1, <4>3, <4>4, <4>5
    <3> QED BY <3>2, <3>3, <3>4, <3>5, Zenon DEF Pieced
  <2> QED BY <2>1, <2>2
<1>6. <<s \o c, fs \o ks>> \in U
  BY <1>2, Zenon
<1> HIDE DEF U
<1>7. Pieced(U)
  BY <1>3, <1>5, Zenon DEF Pieced
<1> QED BY <1>6, <1>7

\* What the pieces are depends on nothing that changes.
LEMMA PiecesStay ==
  ASSUME comp' = comp
  PROVE  \A T : Pieced(T) => Pieced(T)'
<1>1. \A b, fs : Piece(b, fs)' <=> Piece(b, fs)
  BY DEF Piece
<1>2. \A s, fs, b, gs, t, hs : Begins(s, fs, b, gs, t, hs) => Begins(s, fs, b, gs, t, hs)'
  BY <1>1, Zenon DEF Begins
<1> SUFFICES ASSUME NEW T, Pieced(T) PROVE Pieced(T)'
  OBVIOUS
<1>3. T \subseteq Seq(Octet) \X Seq(Packet)
  BY DEF Pieced
<1>4. ASSUME NEW s \in Seq(Octet), NEW fs \in Seq(Packet), <<s, fs>> \in T, ~(s = <<>> /\ fs = <<>>)
      PROVE  \E b \in Seq(Octet), t \in Seq(Octet), gs \in Seq(Packet), hs \in Seq(Packet) :
               <<t, hs>> \in T /\ Begins(s, fs, b, gs, t, hs)'
  <2>1. PICK b \in Seq(Octet), t \in Seq(Octet), gs \in Seq(Packet), hs \in Seq(Packet) :
               <<t, hs>> \in T /\ Begins(s, fs, b, gs, t, hs)
    BY <1>4, Zenon DEF Pieced
  <2> QED BY <1>2, <2>1, Zenon
<1> QED BY <1>3, <1>4, Zenon DEF Pieced

LEMMA Initial == Assumptions /\ Init => IInv
<1> SUFFICES ASSUME Assumptions, Init PROVE IInv
  OBVIOUS
<1>1. PICK e \in Streams : comp = e.comp /\ coming = e.entries
  BY DEF Init
<1>2. wire = <<>> /\ buf = <<>> /\ sent = <<>> /\ got = <<>>
  BY DEF Init
<1>3. /\ <<>> \in Seq(Octet) /\ <<>> \in Seq(Packet)
      /\ <<>> \o <<>> = <<>>
  BY EmptySeq, ConcatEmptySeq
<1>4. TypeOK
  <2>1. comp \in BOOLEAN /\ coming \in Seq(Entry) /\ \A i \in 1..Len(coming) : Sendable(coming[i], comp)
    BY <1>1, Zenon DEF Assumptions, StreamsAssumption, Entry
  <2> QED BY <1>2, <1>3, <2>1 DEF TypeOK
<1> DEFINE T == {<<<<>>, <<>>>>}
<1>5. Pieced(T)
  <2>1. T \subseteq Seq(Octet) \X Seq(Packet)
    BY EmptyPair
  <2>2. \A s, fs : <<s, fs>> \in T => s = <<>> /\ fs = <<>>
    OBVIOUS
  <2> QED BY <2>1, <2>2, Zenon DEF Pieced
<1>6. <<buf \o wire, <<>>>> \in T /\ sent = got \o <<>>
  BY <1>2, <1>3
<1> HIDE DEF T
<1> QED BY <1>3, <1>4, <1>5, <1>6 DEF IInv

LEMMA SendKeeps == Assumptions /\ IInv /\ Send => IInv'
<1> SUFFICES ASSUME Assumptions, IInv, Send PROVE IInv'
  OBVIOUS
<1>1. PICK rest, T : /\ rest \in Seq(Packet) /\ sent = got \o rest
                    /\ Pieced(T) /\ <<buf \o wire, rest>> \in T
  BY DEF IInv
<1> PICK e : e = Head(coming)
  OBVIOUS
<1> PICK c : c = BytesOf(e)
  OBVIOUS
<1>2. /\ coming # <<>> /\ comp \in BOOLEAN /\ coming \in Seq(Entry)
      /\ \A i \in 1..Len(coming) : Sendable(coming[i], comp)
      /\ wire \in Seq(Octet) /\ buf \in Seq(Octet) /\ sent \in Seq(Packet) /\ got \in Seq(Packet)
      /\ wire' = wire \o c /\ sent' = sent \o e.frames /\ coming' = Tail(coming)
      /\ comp' = comp /\ buf' = buf /\ got' = got
  BY DEF IInv, TypeOK, Send
<1>3. e \in Entry /\ Sendable(e, comp)
  <2>1. Head(coming) \in Entry /\ Head(coming) = coming[1] /\ Len(coming) \in Nat \ {0}
    BY <1>2, HeadTailProperties, EmptySeq
  <2>2. 1 \in 1..Len(coming)
    BY <2>1
  <2> QED BY <1>2, <2>1, <2>2
<1>4. Piece(c, e.frames)
  BY <1>2, <1>3, EntryIsPiece
<1>5. c \in Seq(Octet) /\ e.frames \in Seq(Packet)
  BY <1>4 DEF Piece
<1>6. PICK s \in Seq(Octet) : s = buf \o wire
  BY <1>2, ConcatProperties
<1>7. PICK U : Pieced(U) /\ <<s \o c, rest \o e.frames>> \in U
  BY <1>1, <1>4, <1>6, OnePieceMore
<1>8. s \o c = buf \o (wire \o c) /\ (got \o rest) \o e.frames = got \o (rest \o e.frames)
  <2>1. rest \in Seq(Packet) /\ s = buf \o wire
    BY <1>1, <1>6
  <2>2. (buf \o wire) \o c = buf \o (wire \o c)
    BY ONLY <1>2, <1>5, Associates
  <2>3. got \in Seq(Packet)
    BY <1>2
  <2>4. (got \o rest) \o e.frames = got \o (rest \o e.frames)
    BY ONLY <1>5, <2>1, <2>3, PacketsAssociate
  <2> QED BY <2>1, <2>2, <2>4
<1>9. rest \o e.frames \in Seq(Packet)
  BY <1>1, <1>5, ConcatProperties
<1>10. TypeOK'
  <2>1. wire \o c \in Seq(Octet) /\ sent \o e.frames \in Seq(Packet)
    BY <1>2, <1>5, ConcatProperties
  <2>2. PICK r \in Seq(Entry) : r = Tail(coming)
    BY <1>2, HeadTailProperties
  <2>3. Len(r) = Len(coming) - 1 /\ \A i \in 1..Len(r) : r[i] = coming[i + 1]
    BY <1>2, <2>2, HeadTailProperties
  <2>4. \A i \in 1..Len(r) : i + 1 \in 1..Len(coming)
    BY <1>2, <2>3, LenProperties
  <2>5. \A i \in 1..Len(r) : Sendable(r[i], comp)
    BY <1>2, <2>3, <2>4
  <2>6. \A i \in 1..Len(r) : Sendable(r[i], comp)'
    BY <1>2, <2>5 DEF Sendable, Packetless, Frameable
  <2>7. coming' = r
    BY <1>2, <2>2
  <2> QED BY <1>2, <2>1, <2>2, <2>6, <2>7 DEF TypeOK
<1>11. Pieced(U)' /\ <<buf' \o wire', rest \o e.frames>> \in U /\ sent' = got' \o (rest \o e.frames)
  <2>1. Pieced(U)'
    BY <1>2, <1>7, PiecesStay
  <2> QED BY <1>1, <1>2, <1>7, <1>8, <2>1
<1> QED BY <1>9, <1>10, <1>11 DEF IInv

LEMMA ReceiveKeeps == ASSUME Assumptions, IInv, NEW n \in 1..Len(wire), Receive(n) PROVE IInv'
<1>1. PICK rest, T : /\ rest \in Seq(Packet) /\ sent = got \o rest
                    /\ Pieced(T) /\ <<buf \o wire, rest>> \in T
  BY DEF IInv
<1>2. /\ wire \in Seq(Octet) /\ buf \in Seq(Octet)
      /\ UNCHANGED <<comp, coming, sent, got>>
      /\ buf' = buf \o SubSeq(wire, 1, n) /\ wire' = SubSeq(wire, n + 1, Len(wire))
  BY DEF IInv, TypeOK, Receive
<1> PICK x : x = SubSeq(wire, 1, n)
  OBVIOUS
<1> PICK y : y = SubSeq(wire, n + 1, Len(wire))
  OBVIOUS
<1>3. x \in Seq(Octet) /\ y \in Seq(Octet) /\ x \o y = wire
  <2>1. n \in 0..Len(wire)
    BY <1>2, LenProperties
  <2> QED BY <1>2, <2>1, TwoHalves
<1>4. buf' = buf \o x /\ wire' = y
  BY <1>2
<1>5. (buf \o x) \o y = buf \o (x \o y)
  BY ONLY <1>2, <1>3, Associates
<1>6. buf' \o wire' = buf \o wire
  BY ONLY <1>3, <1>4, <1>5
<1>7. TypeOK'
  <2>1. buf \o x \in Seq(Octet)
    BY ONLY <1>2, <1>3, ConcatProperties
  <2>2. \A e : Sendable(e, comp)' <=> Sendable(e, comp)
    BY <1>2 DEF Sendable, Packetless, Frameable
  <2> QED BY <1>2, <1>3, <1>4, <2>1, <2>2 DEF IInv, TypeOK
<1>8. Pieced(T)'
  BY <1>1, <1>2, PiecesStay
<1> QED BY <1>1, <1>2, <1>6, <1>7, <1>8 DEF IInv

\* The frame at the beginning of the buffer is the piece the stream begins with.
FirstIsPiece(rest, T, p) ==
    \E gs \in Seq(Packet), hs \in Seq(Packet), d \in Seq(Octet) :
      /\ rest = gs \o hs
      /\ d = SubSeq(buf, End(p) + 1, Len(buf)) /\ <<d \o wire, hs>> \in T
      /\ \/ Frames(p) = {} /\ gs = <<>>
         \/ \E f \in Packet : Frames(p) = {f} /\ gs = <<f>>

LEMMA FirstPiece ==
  ASSUME Assumptions, TypeOK, NEW rest \in Seq(Packet), NEW T, Pieced(T),
         <<buf \o wire, rest>> \in T, NEW p, p = FromBytes(buf), Complete(p)
  PROVE  FirstIsPiece(rest, T, p)
<1>1. buf \in Seq(Octet) /\ wire \in Seq(Octet)
  BY DEF TypeOK
<1>2. /\ p.is = "ok" /\ Length(p) >= 0 /\ Len(buf) >= End(p)
      /\ p.consumed \in 1..Len(buf) /\ Length(p) \in Int
  BY <1>1, PrefixFound DEF Complete
<1> PICK s \in Seq(Octet) : s = buf \o wire
  BY <1>1, ConcatProperties
<1>3. /\ Len(buf) \in Nat /\ Len(s) \in Nat /\ Len(buf) <= Len(s) /\ Len(s) # 0
      /\ \A i \in 1..Len(buf) : s[i] = buf[i]
  BY <1>1, <1>2, ConcatProperties, LenProperties
<1>4. FromBytes(s) = p
  BY <1>2, <1>3, PrefixDecides
<1>5. PICK b \in Seq(Octet), t \in Seq(Octet), gs \in Seq(Packet), hs \in Seq(Packet) :
        <<t, hs>> \in T /\ Begins(s, rest, b, gs, t, hs)
  <2>1. s # <<>>
    BY <1>3, EmptySeq
  <2>2. <<s, rest>> \in T
    OBVIOUS
  <2> QED BY <2>1, <2>2, Zenon DEF Pieced
<1>6. Piece(b, gs) /\ s = b \o t /\ rest = gs \o hs
  BY <1>5 DEF Begins
<1> PICK q : q = FromBytes(b)
  OBVIOUS
<1>7. q = p
  <2>1. Len(b) \in Nat /\ Len(b) <= Len(s) /\ \A i \in 1..Len(b) : s[i] = b[i]
    BY <1>5, <1>6, ConcatProperties, LenProperties
  <2>2. q.is # "incomplete"
    BY <1>6 DEF Piece, Stuck
  <2>3. FromBytes(s) = FromBytes(b)
    BY <1>3, <2>1, <2>2, PrefixDecides
  <2> QED BY <1>4, <2>3
<1>8. ~Stuck(q)
  BY <1>2, <1>7 DEF Stuck
<1> PICK raw : raw = SubSeq(b, p.consumed + 1, Len(b))
  OBVIOUS
<1>9. /\ End(p) = Len(b)
      /\ \/ PacketsIn(raw, comp) = {} /\ gs = <<>>
         \/ \E f \in Packet : PacketsIn(raw, comp) = {f} /\ gs = <<f>>
  BY <1>6, <1>7, <1>8 DEF Piece
<1>10. PICK d \in Seq(Octet) : d = SubSeq(buf, Len(b) + 1, Len(buf)) /\ d \o wire = t /\ buf = b \o d
  <2>1. buf \o wire = b \o t /\ Len(b) <= Len(buf)
    BY <1>2, <1>6, <1>9
  <2>2. b \in Seq(Octet) /\ t \in Seq(Octet)
    BY <1>5
  <2>3. /\ SubSeq(buf, Len(b) + 1, Len(buf)) \in Seq(Octet)
        /\ SubSeq(buf, Len(b) + 1, Len(buf)) \o wire = t
        /\ buf = b \o SubSeq(buf, Len(b) + 1, Len(buf))
    BY ONLY <1>1, <2>1, <2>2, Peel
  <2> QED BY ONLY <2>3
<1>11. SubSeq(buf, p.consumed + 1, Len(b)) = raw
  <2>1. Len(b) \in Nat /\ p.consumed \in Nat
    BY <1>2, <1>5, LenProperties
  <2>2. CASE p.consumed < Len(b)
    <3>1. p.consumed + 1 \in 1..Len(b) /\ Len(b) \in 1..Len(b)
      BY ONLY <2>1, <2>2
    <3>2. SubSeq(b \o d, p.consumed + 1, Len(b)) = SubSeq(b, p.consumed + 1, Len(b))
      BY <1>5, <1>10, <3>1, SubSeqOfConcat1
    <3> QED BY <1>10, <3>2
  <2>3. CASE ~(p.consumed < Len(b))
    <3>1. p.consumed + 1 \in Int /\ Len(b) \in Int /\ Len(b) < p.consumed + 1
      BY ONLY <2>1, <2>3
    <3> QED BY <3>1, SubSeqEmpty
  <2> QED BY <2>2, <2>3
<1>12. Frames(p) = PacketsIn(raw, comp)
  BY <1>9, <1>11 DEF Frames
<1> QED BY <1>5, <1>6, <1>9, <1>10, <1>12 DEF FirstIsPiece

LEMMA ReadKeeps == Assumptions /\ IInv /\ TryReadFrame => IInv'
<1> SUFFICES ASSUME Assumptions, IInv, TryReadFrame PROVE IInv'
  OBVIOUS
<1>1. PICK rest, T : /\ rest \in Seq(Packet) /\ sent = got \o rest
                    /\ Pieced(T) /\ <<buf \o wire, rest>> \in T
  BY DEF IInv
<1>2. PICK p : /\ p = FromBytes(buf)
               /\ NeedMore(p) \/ Decode(p) \/ Skip(p) \/ Panic(p)
  BY DEF TryReadFrame
<1>3. /\ TypeOK /\ UNCHANGED <<comp, coming, wire, sent>>
      /\ wire \in Seq(Octet) /\ buf \in Seq(Octet) /\ sent \in Seq(Packet) /\ got \in Seq(Packet)
  BY DEF IInv, TypeOK, TryReadFrame
<1>4. Pieced(T)'
  BY <1>1, <1>3, PiecesStay
<1>5. ASSUME buf' \in Seq(Octet), got' \in Seq(Packet) PROVE TypeOK'
  <2>1. \A e : Sendable(e, comp)' <=> Sendable(e, comp)
    BY <1>3 DEF Sendable, Packetless, Frameable
  <2> QED BY <1>3, <1>5, <2>1 DEF TypeOK
<1>6. CASE UNCHANGED <<buf, got>>
  <2>1. TypeOK' /\ buf' \o wire' = buf \o wire /\ sent' = got' \o rest
    BY <1>1, <1>3, <1>5, <1>6
  <2> QED BY <1>1, <1>4, <2>1 DEF IInv
<1>7. CASE Complete(p) /\ (Decode(p) \/ Skip(p))
  <2>1. PICK gs \in Seq(Packet), hs \in Seq(Packet), d \in Seq(Octet) :
           /\ rest = gs \o hs
           /\ d = SubSeq(buf, End(p) + 1, Len(buf)) /\ <<d \o wire, hs>> \in T
           /\ \/ Frames(p) = {} /\ gs = <<>>
              \/ \E f \in Packet : Frames(p) = {f} /\ gs = <<f>>
    <3>1. FirstIsPiece(rest, T, p)
      BY <1>1, <1>2, <1>3, <1>7, FirstPiece
    <3> QED BY <3>1 DEF FirstIsPiece
  <2>2. buf' = d
    BY <1>7, <2>1 DEF Decode, Skip
  <2>3. got' = got \o gs
    <3>1. CASE Decode(p)
      <4>1. PICK f \in Frames(p) : got' = Append(got, f)
        BY <3>1 DEF Decode
      <4>2. f \in Packet /\ gs = <<f>>
        BY <2>1, <4>1
      <4>3. Append(got, f) = got \o <<f>>
        BY <1>3, <4>2, AppendIsConcat
      <4> QED BY <4>1, <4>2, <4>3
    <3>2. CASE Skip(p)
      <4>1. gs = <<>> /\ got' = got
        BY <2>1, <3>2 DEF Skip
      <4>2. got \o <<>> = got
        BY <1>3, ConcatEmptySeq
      <4> QED BY <4>1, <4>2
    <3> QED BY <1>7, <3>1, <3>2
  <2>4. sent' = got' \o hs
    <3>1. got \in Seq(Packet) /\ gs \in Seq(Packet) /\ hs \in Seq(Packet)
      BY <1>3, <2>1
    <3>2. (got \o gs) \o hs = got \o (gs \o hs)
      BY ONLY <3>1, PacketsAssociate
    <3>3. sent' = got \o rest /\ rest = gs \o hs
      BY <1>1, <1>3, <2>1
    <3> QED BY ONLY <2>3, <3>2, <3>3
  <2>5. got' \in Seq(Packet)
    BY <1>3, <2>1, <2>3, ConcatProperties
  <2>6. TypeOK'
    BY <1>5, <2>1, <2>2, <2>5
  <2>7. <<buf' \o wire', hs>> \in T
    BY <1>3, <2>1, <2>2
  <2> QED BY <1>4, <2>1, <2>4, <2>6, <2>7 DEF IInv
<1> QED BY <1>2, <1>6, <1>7 DEF NeedMore, Panic, Decode, Skip

LEMMA Inductive == ASSUME Assumptions, IInv, [Next]_vars PROVE IInv'
<1>1. CASE UNCHANGED vars \/ Eof
  <2>1. UNCHANGED <<comp, coming, wire, buf, sent, got>>
    BY <1>1 DEF vars, Eof
  <2>2. PICK rest, T : /\ rest \in Seq(Packet) /\ sent = got \o rest
                      /\ Pieced(T) /\ <<buf \o wire, rest>> \in T
    BY DEF IInv
  <2>3. Pieced(T)'
    BY <2>1, <2>2, PiecesStay
  <2>4. TypeOK'
    <3>1. \A e : Sendable(e, comp)' <=> Sendable(e, comp)
      BY <2>1 DEF Sendable, Packetless, Frameable
    <3> QED BY <2>1, <3>1 DEF IInv, TypeOK
  <2> QED BY <2>1, <2>2, <2>3, <2>4 DEF IInv
<1>2. CASE \E n \in 1..Len(wire) : Receive(n)
  BY <1>2, ReceiveKeeps
<1> QED BY <1>1, <1>2, SendKeeps, ReadKeeps DEF Next, Receiver

\* Where no byte is left, no packet is.
LEMMA NoPieceIsEmpty ==
  ASSUME Assumptions, IInv, buf = <<>>, wire = <<>>
  PROVE  got = sent
<1>1. PICK rest, T : /\ rest \in Seq(Packet) /\ sent = got \o rest
                    /\ Pieced(T) /\ <<buf \o wire, rest>> \in T
  BY DEF IInv
<1>2. got \in Seq(Packet) /\ <<>> \in Seq(Octet) /\ buf \o wire = <<>>
  <2>1. <<>> \in Seq(Octet) /\ <<>> \o <<>> = <<>>
    BY EmptySeq, ConcatEmptySeq
  <2> QED BY <2>1 DEF IInv, TypeOK
<1>3. rest = <<>>
  <2>1. CASE \E b \in Seq(Octet), t \in Seq(Octet), gs \in Seq(Packet), hs \in Seq(Packet) :
               <<t, hs>> \in T /\ Begins(<<>>, rest, b, gs, t, hs)
    <3>1. PICK b \in Seq(Octet), t \in Seq(Octet), gs \in Seq(Packet) :
                Piece(b, gs) /\ <<>> = b \o t
      BY <2>1 DEF Begins
    <3>2. b = <<>>
      <4>1. Len(b) \in Nat /\ Len(t) \in Nat /\ Len(b) + Len(t) = Len(<<>>) /\ Len(<<>>) = 0
        BY <3>1, ConcatProperties, LenProperties
      <4> QED BY <3>1, <4>1, EmptySeq
    <3>3. FromBytes(<<>>).is = "incomplete"
      <4>1. Ends(<<>>) = {} /\ Len(<<>>) < MaxBytes
        BY DEF Ends, Assumptions, SizeAssumption
      <4> QED BY <4>1 DEF FromBytes
    <3> QED BY <3>1, <3>2, <3>3 DEF Piece, Stuck
  <2> QED BY <1>1, <1>2, <2>1, Zenon DEF Pieced
<1> QED BY <1>1, <1>2, <1>3, ConcatEmptySeq

LEMMA AllIntact == ASSUME IInv PROVE FramesIntact
<1>1. PICK rest \in Seq(Packet) : sent = got \o rest
  BY DEF IInv
<1>2. got \in Seq(Packet)
  BY DEF IInv, TypeOK
<1> QED BY <1>1, <1>2, ConcatProperties, LenProperties DEF FramesIntact

\* FramesIntact: the frames handed on are those sent, in order.
THEOREM FramesHandedOn == ASSUME Assumptions PROVE Spec => []FramesIntact
<1>1. Init => IInv
  BY Initial
<1>2. IInv /\ [Next]_vars => IInv'
  BY Inductive
<1>3. IInv => FramesIntact
  BY AllIntact
<1> QED BY <1>1, <1>2, <1>3, PTL DEF Spec
=============================================================================
