-------------------------- MODULE ConnectionProofs --------------------------
(***************************************************************************)
(* Proofs about Connection for any number of play frames and any cut of    *)
(* the stream.  Both sides follow a script: the inductive invariant says   *)
(* how far each has got, and that what is in flight is what lies between.  *)
(***************************************************************************)
EXTENDS Connection, SequenceTheorems, TLAPS

\* What a joining client sends, and what the server answers.
Script == <<"handshake", "loginStart", "loginAck", "brand", "info", "packs", "finishAck">>
Up(k) == IF k <= 7 THEN Script[k] ELSE "tick"
Answers == <<"success", "brand", "features", "knownPacks", "registry", "tags", "finish",
             IF captured THEN "burst" ELSE "playLogin">>

\* The server's phase when it has handled h frames, and the packets written by then.
PhaseAt(h) == IF h = 0 THEN "handshake" ELSE IF h <= 2 THEN "login"
              ELSE IF h <= 6 THEN "config" ELSE "play"
WrittenAt(h) == IF h <= 1 THEN 0 ELSE IF h = 2 THEN 2 ELSE IF h <= 6 THEN 7 ELSE 8

\* The client's state when it has taken c packets, and the frames sent by then,
\* those it sends on its own clock aside.
StateAt(c) == IF c = 0 THEN "login" ELSE IF c <= 6 THEN "config"
              ELSE IF c = 7 \/ captured THEN "play" ELSE "ingame"
SentAt(c) == IF c = 0 THEN 2 ELSE IF c <= 3 THEN 5 ELSE IF c <= 6 THEN 6 ELSE 7

\* Piece k of the stream behind frame h of the script.
Piece(h, k) == <<Up(h + ((k + 1) \div 2)), 1 + ((k + 1) % 2)>>
Stream(h, u) == /\ Len(buf) + Len(wire) = 2 * (u - h)
                /\ \A k \in 1..Len(buf) : buf[k] = Piece(h, k)
                /\ \A k \in 1..Len(wire) : wire[k] = Piece(h, Len(buf) + k)

\* The packets written for h frames, but for the c first.
Awaited(h, c) == /\ Len(down) = WrittenAt(h) - c
                 /\ \A k \in 1..Len(down) : down[k] = Answers[c + k]

States == {"handshake", "login", "config", "play", "ingame", "gone"}
Phases == {"handshake", "login", "config", "play", "closed"}
Bits   == Frames \X {1, 2}

TypeOK == /\ cl \in States
          /\ intent \in {1, 2}
          /\ captured \in BOOLEAN
          /\ wire \in Seq(Bits) /\ buf \in Seq(Bits)
          /\ down \in Seq(DOMAIN Decodes)
          /\ phase \in Phases
          /\ pc \in {"read", "parse"}
          /\ ticks \in Nat

\* A joining client has sent u frames, of which h are handled, and taken c of
\* the packets written for them.
Joining(h, c, u) ==
    /\ h <= u /\ c <= WrittenAt(h)
    /\ u = 0 \/ u = SentAt(c) \/ (c = 8 /\ u >= 7)
    /\ cl = "handshake" <=> u = 0 /\ cl # "gone"
    /\ cl \notin {"handshake", "gone"} => cl = StateAt(c)
    /\ phase = PhaseAt(h) \/ (phase = "closed" /\ cl = "gone")
    /\ Stream(h, u) /\ Awaited(h, c)

\* One that asks for the status sends its Handshake, which ends the task.
Asking(u) == /\ u \in {0, 1}
             /\ cl \in {"handshake", "login", "gone"}
             /\ cl = "handshake" => u = 0
             /\ phase \in {"handshake", "closed"}
             /\ phase = "handshake" => Stream(0, u)
             /\ down = <<>>

IInv == /\ TypeOK
        /\ lost = <<>>
        /\ intent = 2 => \E h, c, u \in Nat : Joining(h, c, u)
        /\ intent = 1 => \E u \in Nat : Asking(u)

-----------------------------------------------------------------------------
\* What is on disk stays there.
LEMMA Steady ==
  captured' = captured => Answers' = Answers /\ \A k \in Nat : StateAt(k)' = StateAt(k)
BY DEF Answers, StateAt

\* The frames, and the ones of the script.
LEMMA FramesAre == Frames = {"handshake", "loginStart", "loginAck", "brand", "info", "packs", "finishAck", "tick"}
BY DEF Frames, State

LEMMA ScriptIs ==
  /\ Up(1) = "handshake" /\ Up(2) = "loginStart" /\ Up(3) = "loginAck" /\ Up(4) = "brand"
  /\ Up(5) = "info" /\ Up(6) = "packs" /\ Up(7) = "finishAck"
  /\ \A k \in Nat : k > 7 => Up(k) = "tick"
  /\ \A k \in Nat \ {0} : Up(k) \in Frames
<1>1. /\ Up(1) = "handshake" /\ Up(2) = "loginStart" /\ Up(3) = "loginAck" /\ Up(4) = "brand"
      /\ Up(5) = "info" /\ Up(6) = "packs" /\ Up(7) = "finishAck"
  BY DEF Up, Script
<1>2. \A k \in Nat : k > 7 => Up(k) = "tick"
  BY DEF Up
<1>3. ASSUME NEW k \in Nat \ {0} PROVE Up(k) \in Frames
  <2>1. k \in {1, 2, 3, 4, 5, 6, 7} \/ k > 7
    OBVIOUS
  <2> QED BY <1>1, <1>2, <2>1, FramesAre
<1> QED BY <1>1, <1>2, <1>3

\* The frame that the server handles in each phase, and what the next answer is for.
LEMMA TurnsAre ==
  /\ \A h \in Nat : State[Up(h + 1)] = PhaseAt(h)
  /\ \A h \in Nat : PhaseAt(h) = "login" => Id[Up(h + 1)] = IF h = 1 THEN 0 ELSE 3
  /\ \A h \in Nat : PhaseAt(h) = "config" => (Id[Up(h + 1)] = 3 <=> h = 6)
  /\ Id[Up(1)] = 0
  /\ \A c \in 0..7 : Decodes[Answers[c + 1]] = StateAt(c) /\ Answers[c + 1] \in DOMAIN Decodes
<1>1. ASSUME NEW h \in Nat
      PROVE  /\ State[Up(h + 1)] = PhaseAt(h)
             /\ PhaseAt(h) = "login" => Id[Up(h + 1)] = IF h = 1 THEN 0 ELSE 3
             /\ PhaseAt(h) = "config" => (Id[Up(h + 1)] = 3 <=> h = 6)
  <2>1. h \in {0, 1, 2, 3, 4, 5, 6} \/ h + 1 > 7
    OBVIOUS
  <2> QED BY <2>1, ScriptIs DEF PhaseAt, State, Id
<1>2. ASSUME NEW c \in 0..7
      PROVE  Decodes[Answers[c + 1]] = StateAt(c) /\ Answers[c + 1] \in DOMAIN Decodes
  <2>1. c \in {0, 1, 2, 3, 4, 5, 6, 7}
    OBVIOUS
  <2> QED BY <2>1 DEF Decodes, Answers, StateAt
<1> QED BY <1>1, <1>2, ScriptIs DEF Id

\* The pieces of frames that go on with the script.
LEMMA PiecesOf ==
  ASSUME NEW fs \in Seq(Frames), NEW u \in Nat, \A j \in 1..Len(fs) : fs[j] = Up(u + j)
  PROVE  /\ Len(fs) \in Nat
         /\ Pieces(fs) \in Seq(Bits) /\ Len(Pieces(fs)) = 2 * Len(fs)
         /\ \A k \in 1..(2 * Len(fs)) : Pieces(fs)[k] = Piece(u, k)
<1>1. PICK m \in Nat : m = Len(fs)
  BY LenProperties
<1>2. ASSUME NEW k \in 1..(2 * m)
      PROVE  fs[(k + 1) \div 2] = Up(u + ((k + 1) \div 2)) /\ Pieces(fs)[k] \in Bits
  <2>1. (k + 1) \div 2 \in 1..m /\ (k + 1) % 2 \in 0..1
    OBVIOUS
  <2>2. fs[(k + 1) \div 2] \in Frames
    BY <1>1, <2>1, ElementOfSeq
  <2> QED BY <1>1, <2>1, <2>2 DEF Pieces, Bits
<1>3. Pieces(fs) \in [1..(2 * m) -> Bits]
  BY <1>1, <1>2 DEF Pieces
<1>4. 2 * m \in Nat
  OBVIOUS
<1>5. Pieces(fs) \in Seq(Bits)
  BY <1>3, <1>4, IsASeq
<1>6. Len(Pieces(fs)) = 2 * m
  BY <1>3, <1>4, <1>5, LenProperties
<1> QED BY <1>1, <1>2, <1>5, <1>6 DEF Pieces, Piece

\* Two pieces to a frame.
LEMMA Halves ==
  ASSUME NEW d \in Nat, NEW q \in Nat
  PROVE  (2 * d + q) \div 2 = d + (q \div 2) /\ (2 * d + q) % 2 = q % 2
OBVIOUS

\* One sequence behind another.
LEMMA Joined ==
  ASSUME NEW S, NEW s \in Seq(S), NEW t \in Seq(S)
  PROVE  /\ s \o t \in Seq(S) /\ Len(s) \in Nat /\ Len(t) \in Nat
         /\ Len(s \o t) = Len(s) + Len(t)
         /\ \A k \in 1..Len(s) : (s \o t)[k] = s[k]
         /\ \A k \in (Len(s) + 1)..(Len(s) + Len(t)) : (s \o t)[k] = t[k - Len(s)]
<1>1. Len(s) \in Nat /\ Len(t) \in Nat
  BY LenProperties
<1>2. /\ s \o t \in Seq(S) /\ Len(s \o t) = Len(s) + Len(t)
      /\ \A k \in 1..(Len(s) + Len(t)) : (s \o t)[k] = IF k <= Len(s) THEN s[k] ELSE t[k - Len(s)]
  BY ConcatProperties
<1> QED BY <1>1, <1>2

\* The client goes on with the script.
LEMMA Sends ==
  ASSUME TypeOK, NEW h \in Nat, NEW u \in Nat, h <= u, Stream(h, u), NEW fs \in Seq(Frames),
         \A j \in 1..Len(fs) : fs[j] = Up(u + j), SendUp(fs), buf' = buf,
         NEW t \in Nat, t = u + Len(fs)
  PROVE  wire' \in Seq(Bits) /\ Stream(h, t)'
<1>1. /\ Len(fs) \in Nat /\ Pieces(fs) \in Seq(Bits) /\ Len(Pieces(fs)) = 2 * Len(fs)
      /\ \A k \in 1..(2 * Len(fs)) : Pieces(fs)[k] = Piece(u, k)
  BY PiecesOf
<1>2. PICK b \in Nat, w \in Nat, m \in Nat : b = Len(buf) /\ w = Len(wire) /\ m = Len(fs)
  BY <1>1, LenProperties DEF TypeOK
<1>3. /\ wire' \in Seq(Bits) /\ Len(wire') = w + 2 * m
      /\ \A k \in 1..w : wire'[k] = wire[k]
      /\ \A k \in (w + 1)..(w + 2 * m) : wire'[k] = Pieces(fs)[k - w]
  <2> DEFINE p == Pieces(fs)
  <2>1. wire \in Seq(Bits) /\ p \in Seq(Bits) /\ Len(p) = 2 * m /\ Len(wire) = w
    BY <1>1, <1>2 DEF TypeOK
  <2>2. wire' = wire \o p
    BY DEF SendUp
  <2> HIDE DEF p
  <2>3. /\ wire \o p \in Seq(Bits) /\ Len(wire \o p) = Len(wire) + Len(p)
        /\ \A k \in 1..Len(wire) : (wire \o p)[k] = wire[k]
        /\ \A k \in (Len(wire) + 1)..(Len(wire) + Len(p)) : (wire \o p)[k] = p[k - Len(wire)]
    BY <2>1, Joined, Zenon
  <2>4. /\ wire' \in Seq(Bits) /\ Len(wire') = w + 2 * m
        /\ \A k \in 1..w : wire'[k] = wire[k]
        /\ \A k \in (w + 1)..(w + 2 * m) : wire'[k] = p[k - w]
    BY <2>1, <2>2, <2>3, Zenon
  <2> QED BY <2>4 DEF p
<1>4. b + w = 2 * (u - h) /\ \A k \in 1..w : wire[k] = Piece(h, b + k)
  BY <1>2 DEF Stream
<1>5. ASSUME NEW k \in 1..(w + 2 * m) PROVE wire'[k] = Piece(h, b + k)
  <2>1. CASE k <= w
    BY <2>1, <1>3, <1>4
  <2>2. CASE k > w
    <3>1. wire'[k] = Piece(u, k - w) /\ k - w \in 1..(2 * m)
      BY <2>2, <1>1, <1>2, <1>3
    <3>2. u + ((k - w + 1) \div 2) = h + ((b + k + 1) \div 2) /\ (k - w + 1) % 2 = (b + k + 1) % 2
      <4>1. k - w + 1 \in Nat /\ u - h \in Nat /\ b + k + 1 = 2 * (u - h) + (k - w + 1)
        BY <2>2, <1>4
      <4>2. /\ (b + k + 1) \div 2 = (u - h) + ((k - w + 1) \div 2)
            /\ (b + k + 1) % 2 = (k - w + 1) % 2
        BY <4>1, Halves
      <4>3. (k - w + 1) \div 2 \in Int
        BY <4>1
      <4> QED BY <4>2, <4>3
    <3> QED BY <3>1, <3>2 DEF Piece
  <2> QED BY <2>1, <2>2
<1>6. Stream(h, u + m)'
  <2>1. Len(buf') = b /\ Len(wire') = w + 2 * m
    BY <1>2, <1>3
  <2>2. b + (w + 2 * m) = 2 * ((u + m) - h)
    BY <1>4
  <2>3. \A k \in 1..b : buf'[k] = Piece(h, k)
    BY <1>2 DEF Stream
  <2> QED BY <1>5, <2>1, <2>2, <2>3 DEF Stream
<1> QED BY <1>2, <1>3, <1>6

\* The server takes a frame off the buffer: the next of the script.
LEMMA Consumes ==
  ASSUME TypeOK, NEW h \in Nat, NEW u \in Nat, h <= u, Stream(h, u), Complete
  PROVE  /\ h + 1 <= u /\ Frame = Up(h + 1)
         /\ SubSeq(buf, 3, Len(buf)) \in Seq(Bits)
         /\ buf' = SubSeq(buf, 3, Len(buf)) /\ wire' = wire => Stream(h + 1, u)'
<1>1. PICK b \in Nat, w \in Nat : b = Len(buf) /\ w = Len(wire)
  BY LenProperties DEF TypeOK
<1>2. b >= 2 /\ b + w = 2 * (u - h)
  BY <1>1 DEF Complete, Stream
<1>3. /\ buf[1] = Piece(h, 1)
      /\ \A k \in 1..b : buf[k] = Piece(h, k)
      /\ \A k \in 1..w : wire[k] = Piece(h, b + k)
  BY <1>1, <1>2 DEF Stream
<1>4. \A k \in 1..(b + w) : Piece(h, k + 2) = Piece(h + 1, k)
  <2> TAKE k \in 1..(b + w)
  <2>1. h + ((k + 2 + 1) \div 2) = (h + 1) + ((k + 1) \div 2) /\ (k + 2 + 1) % 2 = (k + 1) % 2
    OBVIOUS
  <2> QED BY <2>1 DEF Piece
<1>5. /\ SubSeq(buf, 3, b) \in Seq(Bits) /\ Len(SubSeq(buf, 3, b)) = b - 2
      /\ \A k \in 1..(b - 2) : SubSeq(buf, 3, b)[k] = buf[k + 2]
  BY <1>1, <1>2, SubSeqProperties DEF TypeOK
<1>6. ASSUME buf' = SubSeq(buf, 3, b), wire' = wire PROVE Stream(h + 1, u)'
  <2>1. \A k \in 1..(b - 2) : buf'[k] = Piece(h + 1, k)
    BY <1>2, <1>3, <1>4, <1>5, <1>6
  <2>2. \A k \in 1..w : wire'[k] = Piece(h + 1, (b - 2) + k)
    <3> TAKE k \in 1..w
    <3>1. (b - 2) + k \in 1..(b + w) /\ (b - 2) + k + 2 = b + k
      BY <1>2
    <3> QED BY <1>3, <1>4, <1>6, <3>1
  <2>3. Len(buf') = b - 2 /\ Len(wire') = w /\ (b - 2) + w = 2 * (u - (h + 1))
    BY <1>1, <1>2, <1>5, <1>6
  <2> QED BY <2>1, <2>2, <2>3 DEF Stream
<1>7. h + 1 <= u
  BY <1>2
<1>8. Frame = Up(h + 1)
  <2>1. h + ((1 + 1) \div 2) = h + 1
    OBVIOUS
  <2> QED BY <1>3, <2>1 DEF Frame, Piece
<1> QED BY <1>1, <1>5, <1>6, <1>7, <1>8

\* read_buf moves pieces from the wire to the buffer.
LEMMA Reads ==
  ASSUME TypeOK, NEW n \in 1..Len(wire), buf' = buf \o SubSeq(wire, 1, n),
         wire' = SubSeq(wire, n + 1, Len(wire))
  PROVE  /\ buf' \in Seq(Bits) /\ wire' \in Seq(Bits)
         /\ \A h, u \in Nat : Stream(h, u) => Stream(h, u)'
<1>1. PICK b \in Nat, w \in Nat : b = Len(buf) /\ w = Len(wire)
  BY LenProperties DEF TypeOK
<1>2. n \in 1..w
  BY <1>1
<1>3. /\ SubSeq(wire, 1, n) \in Seq(Bits) /\ Len(SubSeq(wire, 1, n)) = n
      /\ \A k \in 1..n : SubSeq(wire, 1, n)[k] = wire[k]
  BY <1>1, <1>2, SubSeqProperties DEF TypeOK
<1>4. /\ wire' \in Seq(Bits) /\ Len(wire') = w - n
      /\ \A k \in 1..(w - n) : wire'[k] = wire[n + k]
  <2>1. n + 1 \in 1..(w + 1) /\ w \in (n + 1) - 1 .. w
    BY <1>2
  <2>2. /\ wire' \in Seq(Bits)
        /\ Len(wire') = IF n + 1 <= w THEN w - (n + 1) + 1 ELSE 0
        /\ \A k \in 1..(w - (n + 1) + 1) : wire'[k] = wire[(n + 1) + k - 1]
    BY <1>1, <2>1, SubSeqProperties DEF TypeOK
  <2>3. Len(wire') = w - n
    BY <1>2, <2>2
  <2>4. ASSUME NEW k \in 1..(w - n) PROVE wire'[k] = wire[n + k]
    <3>1. k \in 1..(w - (n + 1) + 1) /\ (n + 1) + k - 1 = n + k
      BY <1>2
    <3>2. wire'[k] = wire[(n + 1) + k - 1]
      BY <2>2, <3>1
    <3> QED BY <3>1, <3>2
  <2> QED BY <2>2, <2>3, <2>4
<1>5. /\ buf' \in Seq(Bits) /\ Len(buf') = b + n
      /\ \A k \in 1..(b + n) : buf'[k] = IF k <= b THEN buf[k] ELSE wire[k - b]
  <2> PICK s \in Seq(Bits) : s = SubSeq(wire, 1, n)
    BY <1>3
  <2>1. buf' = buf \o s /\ buf \in Seq(Bits) /\ Len(buf) = b /\ Len(s) = n
    BY <1>1, <1>3 DEF TypeOK
  <2>2. \A k \in 1..n : s[k] = wire[k]
    BY <1>3
  <2>3. /\ buf' \in Seq(Bits) /\ Len(buf') = b + n
        /\ \A k \in 1..(b + n) : buf'[k] = IF k <= b THEN buf[k] ELSE s[k - b]
    BY ONLY <2>1, ConcatProperties
  <2>4. ASSUME NEW k \in 1..(b + n) PROVE buf'[k] = IF k <= b THEN buf[k] ELSE wire[k - b]
    <3>1. ~(k <= b) => k - b \in 1..n
      OBVIOUS
    <3>2. ~(k <= b) => s[k - b] = wire[k - b]
      BY ONLY <2>2, <3>1
    <3> QED BY ONLY <2>3, <3>2
  <2> QED BY ONLY <2>3, <2>4
<1>6. ASSUME NEW h \in Nat, NEW u \in Nat, Stream(h, u) PROVE Stream(h, u)'
  <2>1. /\ b + w = 2 * (u - h) /\ \A k \in 1..b : buf[k] = Piece(h, k)
        /\ \A k \in 1..w : wire[k] = Piece(h, b + k)
    BY <1>1, <1>6 DEF Stream
  <2>2. \A k \in 1..(b + n) : buf'[k] = Piece(h, k)
    <3> TAKE k \in 1..(b + n)
    <3>1. CASE k <= b
      <4>1. k \in 1..b /\ buf'[k] = buf[k]
        BY <3>1, <1>5
      <4> QED BY <4>1, <2>1
    <3>2. CASE k > b
      <4>1. k - b \in 1..w /\ b + (k - b) = k
        BY <3>2, <1>2
      <4>2. buf'[k] = wire[k - b]
        <5>1. k \in 1..(b + n) /\ ~(k <= b)
          BY <3>2
        <5>2. buf'[k] = IF k <= b THEN buf[k] ELSE wire[k - b]
          BY ONLY <1>5, <5>1, Zenon
        <5> QED BY ONLY <5>1, <5>2
      <4>3. wire[k - b] = Piece(h, b + (k - b))
        BY <4>1, <2>1
      <4> QED BY <4>1, <4>2, <4>3
    <3>3. k <= b \/ k > b
      OBVIOUS
    <3> QED BY <3>1, <3>2, <3>3
  <2>3. \A k \in 1..(w - n) : wire'[k] = Piece(h, (b + n) + k)
    <3> TAKE k \in 1..(w - n)
    <3>1. n + k \in 1..w /\ b + (n + k) = (b + n) + k
      BY <1>2
    <3> QED BY <3>1, <1>4, <2>1
  <2>4. (b + n) + (w - n) = 2 * (u - h)
    BY <1>2, <2>1
  <2> QED BY <1>4, <1>5, <2>2, <2>3, <2>4 DEF Stream
<1> QED BY <1>4, <1>5, <1>6

\* The server writes what the frame it handles calls for.
LEMMA Writes ==
  ASSUME TypeOK, NEW h \in Nat, NEW c \in Nat, c <= WrittenAt(h), Awaited(h, c),
         NEW ps \in Seq(DOMAIN Decodes), WrittenAt(h + 1) = WrittenAt(h) + Len(ps),
         \A j \in 1..Len(ps) : ps[j] = Answers[WrittenAt(h) + j], Reply(ps), captured' = captured
  PROVE  down' \in Seq(DOMAIN Decodes) /\ c <= WrittenAt(h + 1) /\ Awaited(h + 1, c)'
<1>1. PICK w \in Nat, n \in Nat : w = WrittenAt(h) /\ n = Len(ps)
  BY LenProperties DEF WrittenAt
<1> PICK d \in Nat : d = w - c
  BY <1>1
<1>2. Len(down) = d /\ \A k \in 1..d : down[k] = Answers[c + k]
  BY <1>1 DEF Awaited
<1>3. /\ down' \in Seq(DOMAIN Decodes) /\ Len(down') = d + n
      /\ \A k \in 1..d : down'[k] = down[k]
      /\ \A k \in (d + 1)..(d + n) : down'[k] = ps[k - d]
  <2>1. down \in Seq(DOMAIN Decodes) /\ down' = down \o ps
    BY DEF TypeOK, Reply
  <2>2. /\ down \o ps \in Seq(DOMAIN Decodes) /\ Len(down \o ps) = Len(down) + Len(ps)
        /\ \A k \in 1..Len(down) : (down \o ps)[k] = down[k]
        /\ \A k \in (Len(down) + 1)..(Len(down) + Len(ps)) : (down \o ps)[k] = ps[k - Len(down)]
    BY <2>1, Joined, Zenon
  <2> QED BY <1>1, <1>2, <2>1, <2>2, Zenon
<1>4. ASSUME NEW k \in 1..(d + n) PROVE down'[k] = Answers[c + k]
  <2>1. CASE k <= d
    BY <2>1, <1>2, <1>3
  <2>2. CASE k > d
    <3>1. k - d \in 1..n /\ w + (k - d) = c + k
      BY <2>2
    <3>2. ps[k - d] = Answers[w + (k - d)]
      BY <3>1, <1>1
    <3>3. down'[k] = ps[k - d]
      BY <2>2, <1>3
    <3> QED BY <3>1, <3>2, <3>3
  <2> QED BY <2>1, <2>2
<1>5. d + n = WrittenAt(h + 1) - c
  BY <1>1
<1>6. c <= WrittenAt(h + 1)
  BY <1>1
<1>7. Answers' = Answers
  BY Steady
<1> QED BY <1>3, <1>4, <1>5, <1>6, <1>7 DEF Awaited

\* The shapes that a packet sequence of the code has.
LEMMA SeqsOf ==
  ASSUME NEW S, NEW a \in S, NEW b \in S, NEW c \in S, NEW d \in S, NEW e \in S
  PROVE  /\ <<a>> \in Seq(S) /\ Len(<<a>>) = 1
         /\ <<a, b>> \in Seq(S) /\ Len(<<a, b>>) = 2
         /\ <<a, b, c>> \in Seq(S) /\ Len(<<a, b, c>>) = 3
         /\ <<a, b, c, d, e>> \in Seq(S) /\ Len(<<a, b, c, d, e>>) = 5
OBVIOUS

-----------------------------------------------------------------------------
\* The invariant holds before the first byte.
LEMMA Initial == Init => IInv
<1> SUFFICES ASSUME Init PROVE IInv
  OBVIOUS
<1>1. TypeOK
  BY DEF Init, TypeOK, States, Phases
<1>2. Stream(0, 0) /\ Awaited(0, 0)
  BY DEF Init, Stream, Awaited, WrittenAt
<1>3. Joining(0, 0, 0) /\ Asking(0)
  BY <1>2 DEF Init, Joining, Asking, PhaseAt, WrittenAt
<1> QED BY <1>1, <1>3 DEF Init, IInv

\* The client opens the connection.
LEMMA OpenKeeps == IInv /\ Open => IInv'
<1> SUFFICES ASSUME IInv, Open PROVE IInv'
  OBVIOUS
<1> DEFINE fs == IF intent = 2 THEN <<"handshake", "loginStart">> ELSE <<"handshake">>
<1>1. /\ TypeOK /\ lost = <<>> /\ cl = "handshake" /\ cl' = "login" /\ SendUp(fs)
      /\ UNCHANGED <<intent, captured, down, phase, pc, buf, lost, ticks>>
  BY DEF IInv, Open
<1>2. fs \in Seq(Frames) /\ Len(fs) = (IF intent = 2 THEN 2 ELSE 1)
      /\ \A j \in 1..Len(fs) : fs[j] = Up(0 + j)
  <2>1. "handshake" \in Frames /\ "loginStart" \in Frames
    BY FramesAre
  <2>2. <<"handshake", "loginStart">> \in Seq(Frames) /\ <<"handshake">> \in Seq(Frames)
    BY <2>1, SeqsOf
  <2> QED BY <2>2, ScriptIs
<1>3. CASE intent = 2
  <2>1. PICK h \in Nat, c \in Nat, u \in Nat : Joining(h, c, u)
    BY <1>3 DEF IInv
  <2>2. u = 0 /\ h = 0 /\ c = 0 /\ Stream(0, 0) /\ Awaited(0, 0) /\ phase = "handshake"
    BY <1>1, <2>1 DEF Joining, WrittenAt, PhaseAt
  <2>3. wire' \in Seq(Bits) /\ Stream(0, 2)'
    <3>1. 0 \in Nat /\ 2 \in Nat /\ 0 <= 0 /\ 2 = 0 + Len(fs)
      BY <1>2, <1>3
    <3> HIDE DEF fs
    <3> QED BY <1>1, <1>2, <2>2, <3>1, Sends, Zenon
  <2>4. Joining(0, 0, 2)'
    BY <1>1, <2>2, <2>3 DEF Joining, Awaited, Answers, PhaseAt, StateAt, SentAt, WrittenAt
  <2> QED BY <1>1, <1>3, <2>3, <2>4 DEF IInv, TypeOK, States
<1>4. CASE intent = 1
  <2>1. PICK u \in Nat : Asking(u)
    BY <1>4 DEF IInv
  <2>2. wire' \in Seq(Bits)
    <3>1. Pieces(fs) \in Seq(Bits)
      <4> HIDE DEF fs
      <4> QED BY <1>2, PiecesOf
    <3> QED BY <1>1, <3>1, ConcatProperties DEF TypeOK, SendUp
  <2>3. Asking(1)'
    <3>1. CASE phase = "handshake"
      <4>1. Stream(0, 0)
        BY <1>1, <2>1, <3>1 DEF Asking
      <4>2. Stream(0, 1)'
        <5>1. 0 \in Nat /\ 1 \in Nat /\ 0 <= 0 /\ 1 = 0 + Len(fs)
          BY <1>2, <1>4
        <5> HIDE DEF fs
        <5> QED BY <1>1, <1>2, <4>1, <5>1, Sends, Zenon
      <4> QED BY <1>1, <2>1, <3>1, <4>2 DEF Asking
    <3>2. CASE phase # "handshake"
      BY <1>1, <2>1, <3>2 DEF Asking
    <3> QED BY <3>1, <3>2
  <2> QED BY <1>1, <1>4, <2>2, <2>3 DEF IInv, TypeOK, States
<1> QED BY <1>1, <1>3, <1>4 DEF TypeOK

\* What the client finds next, and when it is the joining one.
LEMMA TakesInTurn ==
  ASSUME IInv, Take
  PROVE  /\ intent = 2
         /\ \E h, c, u \in Nat :
               /\ Joining(h, c, u) /\ c <= 7 /\ c + 1 <= WrittenAt(h)
               /\ u = SentAt(c) /\ u # 0 /\ cl = StateAt(c)
               /\ Head(down) = Answers[c + 1]
               /\ Tail(down) \in Seq(DOMAIN Decodes)
               /\ down' = Tail(down) => Awaited(h, c + 1)'
<1>1. TypeOK /\ cl # "gone" /\ down # <<>>
  BY DEF IInv, Take
<1>2. intent = 2
  BY <1>1 DEF IInv, TypeOK, Asking
<1>3. PICK h \in Nat, c \in Nat, u \in Nat : Joining(h, c, u)
  BY <1>2 DEF IInv
<1>4. PICK d \in Nat : d = Len(down)
  BY <1>1, LenProperties DEF TypeOK
<1>5. d # 0 /\ Head(down) = down[1] /\ Tail(down) \in Seq(DOMAIN Decodes) /\ Len(Tail(down)) = d - 1
      /\ \A k \in 1..(d - 1) : Tail(down)[k] = down[k + 1]
  BY <1>1, <1>4, HeadTailProperties, EmptySeq DEF TypeOK
<1>6. d = WrittenAt(h) - c /\ \A k \in 1..d : down[k] = Answers[c + k]
  BY <1>3, <1>4 DEF Joining, Awaited
<1>7. WrittenAt(h) \in 0..8 /\ c + 1 <= WrittenAt(h) /\ c <= 7 /\ h >= 2
  BY <1>5, <1>6 DEF WrittenAt
<1>8. u # 0 /\ u = SentAt(c) /\ cl = StateAt(c)
  BY <1>1, <1>3, <1>7 DEF Joining
<1>9. ASSUME down' = Tail(down) PROVE Awaited(h, c + 1)'
  <2>1. \A k \in 1..(d - 1) : down'[k] = Answers[(c + 1) + k]
    <3> TAKE k \in 1..(d - 1)
    <3>1. k + 1 \in 1..d /\ c + (k + 1) = (c + 1) + k
      OBVIOUS
    <3> QED BY <1>5, <1>6, <1>9, <3>1
  <2>2. Len(down') = d - 1
    BY <1>5, <1>9
  <2>3. d - 1 = WrittenAt(h) - (c + 1)
    BY <1>6, <1>7
  <2>4. Answers' = Answers
    BY Steady DEF Take
  <2> QED BY <2>1, <2>2, <2>3, <2>4 DEF Awaited
<1>10. Head(down) = Answers[c + 1]
  <2>1. 1 \in 1..d
    BY <1>5
  <2> QED BY <2>1, <1>5, <1>6, Zenon
<1> QED BY <1>2, <1>3, <1>5, <1>7, <1>8, <1>9, <1>10

\* The client takes a packet.
LEMMA TakeKeeps == IInv /\ Take => IInv'
<1> SUFFICES ASSUME IInv, Take PROVE IInv'
  OBVIOUS
<1>1. PICK h \in Nat, c \in Nat, u \in Nat :
               /\ Joining(h, c, u) /\ c <= 7 /\ c + 1 <= WrittenAt(h)
               /\ u = SentAt(c) /\ u # 0 /\ cl = StateAt(c)
               /\ Head(down) = Answers[c + 1]
               /\ Tail(down) \in Seq(DOMAIN Decodes)
               /\ down' = Tail(down) => Awaited(h, c + 1)'
  BY TakesInTurn
<1>2. /\ TypeOK /\ lost = <<>> /\ intent = 2 /\ cl # "gone" /\ down' = Tail(down)
      /\ UNCHANGED <<intent, captured, phase, pc, buf, lost, ticks>>
  BY TakesInTurn DEF IInv, Take
<1>3. /\ Head(down) = "success" => cl' = "config" /\ SendUp(<<"loginAck", "brand", "info">>)
      /\ Head(down) = "knownPacks" => cl' = cl /\ SendUp(<<"packs">>)
      /\ Head(down) = "finish" => cl' = "play" /\ SendUp(<<"finishAck">>)
      /\ Head(down) = "playLogin" => cl' = "ingame" /\ wire' = wire
      /\ Head(down) \notin {"success", "knownPacks", "finish", "playLogin"} => cl' = cl /\ wire' = wire
  BY DEF Take
<1>4. Stream(h, u) /\ h <= u /\ (phase = PhaseAt(h) \/ (phase = "closed" /\ cl = "gone"))
  BY <1>1 DEF Joining
<1>5. SUFFICES ASSUME NEW t \in Nat, wire' \in Seq(Bits), Stream(h, t)', u <= t, t = SentAt(c + 1),
                      cl' = StateAt(c + 1)
               PROVE  IInv'
  <2>1. c \in {0, 1, 2, 3, 4, 5, 6, 7}
    BY <1>1
  <2>2. wire' = wire => wire' \in Seq(Bits) /\ Stream(h, u)'
    BY <1>2, <1>4 DEF TypeOK, Stream
  <2>3. CASE c = 0
    <3>1. SendUp(<<"loginAck", "brand", "info">>) /\ cl' = "config" /\ u = 2
      BY <1>1, <1>3, <2>3 DEF Answers, SentAt
    <3> DEFINE fs == <<"loginAck", "brand", "info">>
    <3>2. fs \in Seq(Frames) /\ Len(fs) = 3 /\ \A j \in 1..Len(fs) : fs[j] = Up(u + j)
      BY <3>1, SeqsOf, FramesAre, ScriptIs
    <3>3. 5 \in Nat /\ 5 = u + Len(fs)
      BY <3>1, <3>2
    <3>4. SendUp(fs) /\ buf' = buf
      BY <1>2, <3>1
    <3> HIDE DEF fs
    <3>5. wire' \in Seq(Bits) /\ Stream(h, 5)'
      BY <1>2, <1>4, <3>2, <3>3, <3>4, Sends, Zenon
    <3> QED BY <1>5, <2>3, <3>1, <3>5 DEF SentAt, StateAt
  <2>4. CASE c = 3
    <3>1. SendUp(<<"packs">>) /\ cl' = cl /\ u = 5
      BY <1>1, <1>3, <2>4 DEF Answers, SentAt
    <3> DEFINE fs == <<"packs">>
    <3>2. fs \in Seq(Frames) /\ Len(fs) = 1 /\ \A j \in 1..Len(fs) : fs[j] = Up(u + j)
      BY <3>1, SeqsOf, FramesAre, ScriptIs
    <3>3. 6 \in Nat /\ 6 = u + Len(fs)
      BY <3>1, <3>2
    <3>4. SendUp(fs) /\ buf' = buf
      BY <1>2, <3>1
    <3> HIDE DEF fs
    <3>5. wire' \in Seq(Bits) /\ Stream(h, 6)'
      BY <1>2, <1>4, <3>2, <3>3, <3>4, Sends, Zenon
    <3> QED BY <1>1, <1>5, <2>4, <3>1, <3>5 DEF SentAt, StateAt
  <2>5. CASE c = 6
    <3>1. SendUp(<<"finishAck">>) /\ cl' = "play" /\ u = 6
      BY <1>1, <1>3, <2>5 DEF Answers, SentAt
    <3> DEFINE fs == <<"finishAck">>
    <3>2. fs \in Seq(Frames) /\ Len(fs) = 1 /\ \A j \in 1..Len(fs) : fs[j] = Up(u + j)
      BY <3>1, SeqsOf, FramesAre, ScriptIs
    <3>3. 7 \in Nat /\ 7 = u + Len(fs)
      BY <3>1, <3>2
    <3>4. SendUp(fs) /\ buf' = buf
      BY <1>2, <3>1
    <3> HIDE DEF fs
    <3>5. wire' \in Seq(Bits) /\ Stream(h, 7)'
      BY <1>2, <1>4, <3>2, <3>3, <3>4, Sends, Zenon
    <3> QED BY <1>5, <2>5, <3>1, <3>5 DEF SentAt, StateAt
  <2>6. CASE c = 7
    BY <1>1, <1>3, <1>5, <2>2, <2>6 DEF Answers, SentAt, StateAt
  <2>7. CASE c \in {1, 2, 4, 5}
    BY <1>1, <1>3, <1>5, <2>2, <2>7 DEF Answers, SentAt, StateAt
  <2> QED BY <2>1, <2>3, <2>4, <2>5, <2>6, <2>7
<1>6. Joining(h, c + 1, t)'
  <2>1. c + 1 <= WrittenAt(h) /\ h <= t /\ t # 0 /\ cl' \notin {"handshake", "gone"}
    BY <1>1, <1>4, <1>5 DEF StateAt, SentAt
  <2>2. StateAt(c + 1)' = StateAt(c + 1)
    BY <1>2, Steady
  <2> QED BY <1>1, <1>2, <1>4, <1>5, <2>1, <2>2 DEF Joining
<1>7. TypeOK'
  <2>1. cl' \in States
    BY <1>1, <1>5 DEF States, StateAt
  <2> QED BY <1>1, <1>2, <1>5, <2>1 DEF TypeOK
<1>8. \E a, b, e \in Nat : Joining(a, b, e)'
  BY <1>6
<1> QED BY <1>2, <1>7, <1>8 DEF IInv

\* A play frame: the client has taken every answer.
LEMMA TickKeeps == IInv /\ Tick => IInv'
<1> SUFFICES ASSUME IInv, Tick PROVE IInv'
  OBVIOUS
<1> DEFINE fs == <<"tick">>
<1>1. /\ TypeOK /\ lost = <<>> /\ cl = "ingame" /\ SendUp(fs) /\ ticks' = ticks + 1
      /\ UNCHANGED <<cl, intent, captured, down, phase, pc, buf, lost>>
  BY DEF IInv, Tick
<1>2. intent = 2
  BY <1>1 DEF IInv, TypeOK, Asking
<1>3. PICK h \in Nat, c \in Nat, u \in Nat : Joining(h, c, u)
  BY <1>2 DEF IInv
<1>4. c = 8 /\ u >= 7 /\ h <= u /\ Stream(h, u)
  <2>1. cl = StateAt(c) /\ c <= WrittenAt(h) /\ h <= u /\ Stream(h, u)
    BY <1>1, <1>3 DEF Joining
  <2>2. WrittenAt(h) <= 8
    BY DEF WrittenAt
  <2>3. c = 8
    BY <1>1, <2>1, <2>2 DEF StateAt, WrittenAt
  <2>4. u # 0 /\ (u = 0 \/ u = SentAt(c) \/ (c = 8 /\ u >= 7))
    BY <1>1, <1>3 DEF Joining
  <2>5. SentAt(8) = 7
    BY DEF SentAt
  <2> QED BY <2>1, <2>3, <2>4, <2>5
<1>5. fs \in Seq(Frames) /\ Len(fs) = 1 /\ \A j \in 1..Len(fs) : fs[j] = Up(u + j)
  BY <1>4, SeqsOf, FramesAre, ScriptIs
<1>6. PICK t \in Nat : t = u + 1 /\ t = u + Len(fs)
  BY <1>5
<1> HIDE DEF fs
<1>7. wire' \in Seq(Bits) /\ Stream(h, t)'
  BY <1>1, <1>4, <1>5, <1>6, Sends, Zenon
<1>8. Joining(h, c, t)'
  <2>1. h <= t /\ t >= 7 /\ t # 0
    BY <1>4, <1>6
  <2>2. /\ cl' = cl /\ phase' = phase /\ down' = down /\ cl = "ingame"
        /\ c <= WrittenAt(h) /\ cl = StateAt(c) /\ Awaited(h, c)
        /\ phase = PhaseAt(h) \/ (phase = "closed" /\ cl = "gone")
    BY <1>1, <1>3 DEF Joining
  <2>3. Awaited(h, c)' /\ StateAt(c)' = StateAt(c)
    BY <1>1, <2>2, Steady DEF Awaited
  <2> QED BY <1>4, <1>7, <2>1, <2>2, <2>3 DEF Joining
<1>9. TypeOK'
  BY <1>1, <1>7 DEF TypeOK
<1>10. \E a, b, e \in Nat : Joining(a, b, e)'
  BY <1>8
<1> QED BY <1>1, <1>2, <1>9, <1>10 DEF IInv

\* The client quits; or the server's task ends, once the client has gone.
LEMMA EndKeeps ==
  ASSUME IInv, cl' = "gone" \/ (cl' = cl /\ cl = "gone"),
         phase' = phase \/ (phase' = "closed" /\ cl' = "gone"),
         UNCHANGED <<intent, captured, wire, down, pc, buf, lost, ticks>>
  PROVE  IInv'
<1>1. TypeOK'
  BY DEF IInv, TypeOK, States, Phases
<1>2. cl' = "gone"
  OBVIOUS
<1>3. ASSUME intent = 2 PROVE \E h, c, u \in Nat : Joining(h, c, u)'
  <2>1. PICK h \in Nat, c \in Nat, u \in Nat : Joining(h, c, u)
    BY <1>3 DEF IInv
  <2>2. Joining(h, c, u)'
    BY <1>2, <2>1 DEF Joining, Stream, Awaited, Answers, StateAt
  <2> QED BY <2>2
<1>4. ASSUME intent = 1 PROVE \E u \in Nat : Asking(u)'
  <2>1. PICK u \in Nat : Asking(u)
    BY <1>4 DEF IInv
  <2>2. Asking(u)'
    BY <1>2, <2>1 DEF Asking, Stream
  <2> QED BY <2>2
<1> QED BY <1>1, <1>3, <1>4 DEF IInv

\* The server reads, or finds no whole frame to handle.
LEMMA ReadKeeps == IInv /\ (Read \/ NeedMore) => IInv'
<1> SUFFICES ASSUME IInv, Read \/ NeedMore PROVE IInv'
  OBVIOUS
<1>1. TypeOK /\ lost = <<>> /\ UNCHANGED <<cl, intent, captured, ticks, down, phase, lost>>
  BY DEF IInv, Read, NeedMore, client
<1>2. /\ buf' \in Seq(Bits) /\ wire' \in Seq(Bits) /\ pc' \in {"read", "parse"}
      /\ \A h, u \in Nat : Stream(h, u) => Stream(h, u)'
  <2>1. CASE Read
    <3>1. PICK n \in 1..Len(wire) : buf' = buf \o SubSeq(wire, 1, n) /\ wire' = SubSeq(wire, n + 1, Len(wire))
      BY <2>1 DEF Read
    <3>2. /\ buf' \in Seq(Bits) /\ wire' \in Seq(Bits)
          /\ \A h, u \in Nat : Stream(h, u) => Stream(h, u)'
      BY <1>1, <3>1, Reads
    <3> QED BY <2>1, <3>2 DEF Read
  <2>2. CASE NeedMore
    BY <1>1, <2>2 DEF NeedMore, TypeOK, Stream
  <2> QED BY <2>1, <2>2
<1>3. TypeOK'
  BY <1>1, <1>2 DEF TypeOK
<1>4. ASSUME intent = 2 PROVE \E h, c, u \in Nat : Joining(h, c, u)'
  <2>1. PICK h \in Nat, c \in Nat, u \in Nat : Joining(h, c, u)
    BY <1>4 DEF IInv
  <2>2. Stream(h, u)'
    BY <1>2, <2>1 DEF Joining
  <2>3. Joining(h, c, u)'
    BY <1>1, <2>1, <2>2, Steady DEF Joining, Awaited
  <2> QED BY <2>3
<1>5. ASSUME intent = 1 PROVE \E u \in Nat : Asking(u)'
  <2>1. PICK u \in Nat : Asking(u)
    BY <1>5 DEF IInv
  <2>2. phase = "handshake" => Stream(0, u)'
    BY <1>2, <2>1 DEF Asking
  <2>3. Asking(u)'
    BY <1>1, <2>1, <2>2 DEF Asking
  <2> QED BY <2>3
<1> QED BY <1>1, <1>3, <1>4, <1>5 DEF IInv

\* A frame the server handles is the next of the script, in the phase it is for,
\* and the client has taken no answer that is not written.
LEMMA HandlesInTurn ==
  ASSUME IInv, Complete, phase # "closed", intent = 2
  PROVE  \E h, c, u \in Nat :
            /\ Joining(h, c, u) /\ h + 1 <= u /\ Frame = Up(h + 1) /\ phase = PhaseAt(h)
            /\ SubSeq(buf, 3, Len(buf)) \in Seq(Bits)
            /\ buf' = SubSeq(buf, 3, Len(buf)) /\ wire' = wire => Stream(h + 1, u)'
<1>1. TypeOK
  BY DEF IInv
<1>2. PICK h \in Nat, c \in Nat, u \in Nat : Joining(h, c, u)
  BY DEF IInv
<1>3. h <= u /\ Stream(h, u) /\ phase = PhaseAt(h)
  BY <1>2 DEF Joining
<1>4. /\ h + 1 <= u /\ Frame = Up(h + 1)
      /\ SubSeq(buf, 3, Len(buf)) \in Seq(Bits)
      /\ buf' = SubSeq(buf, 3, Len(buf)) /\ wire' = wire => Stream(h + 1, u)'
  BY <1>1, <1>3, Consumes
<1> QED BY <1>2, <1>3, <1>4

\* The server of a client that asks for the status handles its Handshake only.
LEMMA OnlyHandshake == IInv /\ intent # 2 /\ phase # "closed" => phase = "handshake"
BY DEF IInv, TypeOK, Asking

\* A frame is handled without an answer, the phase being kept or the next one.
LEMMA PassKeeps ==
  ASSUME IInv, intent = 2, NEW ph, ConsumeIn(ph), UNCHANGED <<pc, down, lost>>, phase # "closed",
         \A h \in Nat : phase = PhaseAt(h) /\ Frame = Up(h + 1) =>
             phase' = PhaseAt(h + 1) /\ WrittenAt(h + 1) = WrittenAt(h)
  PROVE  IInv'
<1>1. /\ TypeOK /\ lost = <<>> /\ Complete /\ buf' = SubSeq(buf, 3, Len(buf)) /\ wire' = wire
      /\ UNCHANGED <<cl, intent, captured, ticks, pc, down, lost>>
  BY DEF IInv, ConsumeIn, client
<1>2. PICK h \in Nat, c \in Nat, u \in Nat :
            /\ Joining(h, c, u) /\ h + 1 <= u /\ Frame = Up(h + 1) /\ phase = PhaseAt(h)
            /\ SubSeq(buf, 3, Len(buf)) \in Seq(Bits)
            /\ buf' = SubSeq(buf, 3, Len(buf)) /\ wire' = wire => Stream(h + 1, u)'
  BY <1>1, HandlesInTurn
<1>3. phase' = PhaseAt(h + 1) /\ WrittenAt(h + 1) = WrittenAt(h)
  BY <1>2
<1>4. Awaited(h + 1, c)'
  BY <1>1, <1>2, <1>3, Steady DEF Joining, Awaited
<1>5. Joining(h + 1, c, u)'
  BY <1>1, <1>2, <1>3, <1>4, Steady DEF Joining
<1>6. TypeOK'
  BY <1>1, <1>2, <1>3 DEF TypeOK, Phases, PhaseAt
<1>7. \E a, b, e \in Nat : Joining(a, b, e)'
  BY <1>5
<1> QED BY <1>1, <1>6, <1>7 DEF IInv

\* A frame is handled with an answer.
LEMMA AnswerKeeps ==
  ASSUME IInv, intent = 2, NEW ph, ConsumeIn(ph), UNCHANGED <<pc, lost>>, phase # "closed",
         NEW ps \in Seq(DOMAIN Decodes), Reply(ps),
         \A h \in Nat : phase = PhaseAt(h) /\ Frame = Up(h + 1) =>
             /\ phase' = PhaseAt(h + 1) /\ WrittenAt(h + 1) = WrittenAt(h) + Len(ps)
             /\ \A j \in 1..Len(ps) : ps[j] = Answers[WrittenAt(h) + j]
  PROVE  IInv'
<1>1. /\ TypeOK /\ lost = <<>> /\ Complete /\ buf' = SubSeq(buf, 3, Len(buf)) /\ wire' = wire
      /\ UNCHANGED <<cl, intent, captured, ticks, pc, lost>>
  BY DEF IInv, ConsumeIn, client
<1>2. PICK h \in Nat, c \in Nat, u \in Nat :
            /\ Joining(h, c, u) /\ h + 1 <= u /\ Frame = Up(h + 1) /\ phase = PhaseAt(h)
            /\ SubSeq(buf, 3, Len(buf)) \in Seq(Bits)
            /\ buf' = SubSeq(buf, 3, Len(buf)) /\ wire' = wire => Stream(h + 1, u)'
  BY <1>1, HandlesInTurn
<1>3. /\ phase' = PhaseAt(h + 1) /\ WrittenAt(h + 1) = WrittenAt(h) + Len(ps)
      /\ \A j \in 1..Len(ps) : ps[j] = Answers[WrittenAt(h) + j]
  BY <1>2
<1>4. c <= WrittenAt(h) /\ Awaited(h, c)
  BY <1>2 DEF Joining
<1>5. down' \in Seq(DOMAIN Decodes) /\ c <= WrittenAt(h + 1) /\ Awaited(h + 1, c)'
  BY <1>1, <1>3, <1>4, Writes
<1>6. Joining(h + 1, c, u)'
  BY <1>1, <1>2, <1>3, <1>5, Steady DEF Joining
<1>7. TypeOK'
  BY <1>1, <1>2, <1>3, <1>5 DEF TypeOK, Phases, PhaseAt
<1>8. \E a, b, e \in Nat : Joining(a, b, e)'
  BY <1>6
<1> QED BY <1>1, <1>7, <1>8 DEF IInv

\* The frames of the handshake and the login, each with what it is answered by.
LEMMA HandshakeKeeps == IInv /\ HandleHandshake => IInv'
<1> SUFFICES ASSUME IInv, HandleHandshake PROVE IInv'
  OBVIOUS
<1>1. /\ ConsumeIn("handshake") /\ phase = "handshake" /\ Complete
      /\ phase' = (IF Id[Frame] = 0 /\ intent = 2 THEN "login" ELSE "closed")
      /\ UNCHANGED <<pc, down, lost>>
  BY DEF HandleHandshake, ConsumeIn
<1>2. CASE intent = 2
  <2>1. ASSUME NEW h \in Nat, phase = PhaseAt(h), Frame = Up(h + 1)
        PROVE  phase' = PhaseAt(h + 1) /\ WrittenAt(h + 1) = WrittenAt(h)
    <3>1. h = 0
      BY <1>1, <2>1 DEF PhaseAt
    <3>2. Id[Frame] = 0
      BY <2>1, <3>1, TurnsAre
    <3> QED BY <1>1, <1>2, <3>1, <3>2 DEF PhaseAt, WrittenAt
  <2>2. phase # "closed"
    BY <1>1
  <2> QED BY <1>1, <1>2, <2>1, <2>2, PassKeeps
<1>3. CASE intent = 1
  <2>1. PICK u \in Nat : Asking(u)
    BY <1>3 DEF IInv
  <2>2. /\ phase' = "closed" /\ TypeOK /\ lost = <<>> /\ wire' = wire /\ buf' = SubSeq(buf, 3, Len(buf))
        /\ UNCHANGED <<cl, intent, captured, ticks, pc, down, lost>>
    BY <1>1, <1>3 DEF IInv, ConsumeIn, client
  <2>3. Asking(u)'
    BY <2>1, <2>2 DEF Asking
  <2>4. SubSeq(buf, 3, Len(buf)) \in Seq(Bits)
    BY <1>1, <2>1, <2>2, Consumes DEF Asking
  <2>5. TypeOK'
    BY <2>2, <2>4 DEF TypeOK, Phases
  <2> QED BY <1>3, <2>2, <2>3, <2>5 DEF IInv
<1> QED BY <1>2, <1>3 DEF IInv, TypeOK

\* LoginStart, answered by LoginSuccess and the brand.
LEMMA LoginStartKeeps == IInv /\ HandleLoginStart => IInv'
<1> SUFFICES ASSUME IInv, HandleLoginStart PROVE IInv'
  OBVIOUS
<1> DEFINE ps == <<"success", "brand">>
<1>1. /\ ConsumeIn("login") /\ phase = "login" /\ phase # "closed" /\ Id[Frame] = 0 /\ Reply(ps)
      /\ phase' = phase /\ UNCHANGED <<pc, lost>>
  BY DEF HandleLoginStart, ConsumeIn
<1>2. intent = 2
  BY <1>1, OnlyHandshake
<1>3. ps \in Seq(DOMAIN Decodes) /\ Len(ps) = 2
  <2>1. "success" \in DOMAIN Decodes /\ "brand" \in DOMAIN Decodes
    BY DEF Decodes
  <2> QED BY <2>1, SeqsOf
<1>4. ASSUME NEW h \in Nat, phase = PhaseAt(h), Frame = Up(h + 1)
      PROVE  /\ phase' = PhaseAt(h + 1) /\ WrittenAt(h + 1) = WrittenAt(h) + Len(ps)
             /\ \A j \in 1..Len(ps) : ps[j] = Answers[WrittenAt(h) + j]
  <2>1. h = 1
    <3>1. PhaseAt(h) = "login"
      BY <1>1, <1>4
    <3>2. Id[Up(h + 1)] = IF h = 1 THEN 0 ELSE 3
      BY <3>1, TurnsAre
    <3> QED BY <1>1, <1>4, <3>2
  <2> QED BY <1>1, <1>3, <2>1 DEF PhaseAt, WrittenAt, Answers
<1> HIDE DEF ps
<1> QED BY <1>1, <1>2, <1>3, <1>4, AnswerKeeps

\* LoginAcknowledged, answered by the registries.
LEMMA LoginAckKeeps == IInv /\ HandleLoginAck => IInv'
<1> SUFFICES ASSUME IInv, HandleLoginAck PROVE IInv'
  OBVIOUS
<1> DEFINE ps == <<"features", "knownPacks", "registry", "tags", "finish">>
<1>1. /\ ConsumeIn("login") /\ phase = "login" /\ phase # "closed" /\ Id[Frame] = 3 /\ Reply(ps)
      /\ phase' = "config" /\ UNCHANGED <<pc, lost>>
  BY DEF HandleLoginAck, ConsumeIn
<1>2. intent = 2
  BY <1>1, OnlyHandshake
<1>3. ps \in Seq(DOMAIN Decodes) /\ Len(ps) = 5
  <2>1. /\ "features" \in DOMAIN Decodes /\ "knownPacks" \in DOMAIN Decodes /\ "registry" \in DOMAIN Decodes
        /\ "tags" \in DOMAIN Decodes /\ "finish" \in DOMAIN Decodes
    BY DEF Decodes
  <2> QED BY <2>1, SeqsOf
<1>4. ASSUME NEW h \in Nat, phase = PhaseAt(h), Frame = Up(h + 1)
      PROVE  /\ phase' = PhaseAt(h + 1) /\ WrittenAt(h + 1) = WrittenAt(h) + Len(ps)
             /\ \A j \in 1..Len(ps) : ps[j] = Answers[WrittenAt(h) + j]
  <2>1. h = 2
    <3>1. PhaseAt(h) = "login"
      BY <1>1, <1>4
    <3>2. Id[Up(h + 1)] = IF h = 1 THEN 0 ELSE 3
      BY <3>1, TurnsAre
    <3>3. h # 1 /\ h \in {1, 2}
      BY <1>1, <1>4, <3>1, <3>2 DEF PhaseAt
    <3> QED BY <3>3
  <2>2. PhaseAt(3) = "config" /\ WrittenAt(2) = 2 /\ WrittenAt(3) = 7
    BY DEF PhaseAt, WrittenAt
  <2>3. \A j \in 1..5 : ps[j] = Answers[2 + j]
    <3> TAKE j \in 1..5
    <3>1. j \in {1, 2, 3, 4, 5}
      OBVIOUS
    <3> QED BY <3>1 DEF Answers
  <2> QED BY <1>1, <1>3, <2>1, <2>2, <2>3
<1> HIDE DEF ps
<1> QED BY <1>1, <1>2, <1>3, <1>4, AnswerKeeps

\* The configuration frames that are only logged, and those of the play loop.
LEMMA OthersKeep == IInv /\ (HandleConfigOther \/ HandlePlay) => IInv'
<1> SUFFICES ASSUME IInv, HandleConfigOther \/ HandlePlay PROVE IInv'
  OBVIOUS
<1>1. PICK ph \in {"config", "play"} :
        /\ ConsumeIn(ph) /\ phase = ph /\ phase' = phase /\ UNCHANGED <<pc, down, lost>>
        /\ ph = "config" => Id[Frame] # 3
  BY DEF HandleConfigOther, HandlePlay, ConsumeIn
<1>2. intent = 2
  BY <1>1, OnlyHandshake
<1>3. ASSUME NEW h \in Nat, phase = PhaseAt(h), Frame = Up(h + 1)
      PROVE  phase' = PhaseAt(h + 1) /\ WrittenAt(h + 1) = WrittenAt(h)
  <2>1. CASE ph = "config"
    <3>1. PhaseAt(h) = "config" /\ Id[Up(h + 1)] # 3
      BY <1>1, <1>3, <2>1
    <3>2. h # 6
      BY <3>1, TurnsAre
    <3>3. h \in {3, 4, 5}
      BY <3>1, <3>2 DEF PhaseAt
    <3> QED BY <1>1, <2>1, <3>3 DEF PhaseAt, WrittenAt
  <2>2. CASE ph = "play"
    <3>1. PhaseAt(h) = "play"
      BY <1>1, <1>3, <2>2
    <3>2. h >= 7
      BY <3>1 DEF PhaseAt
    <3> QED BY <1>1, <2>2, <3>2 DEF PhaseAt, WrittenAt
  <2> QED BY <2>1, <2>2
<1>4. phase # "closed"
  BY <1>1
<1> QED BY <1>1, <1>2, <1>3, <1>4, PassKeeps

\* The switch to the play loop: the client waits for the opening, so the
\* acknowledgement is the last it has sent and the buffer holds nothing else.
LEMMA FinishKeeps == IInv /\ HandleFinish => IInv'
<1> SUFFICES ASSUME IInv, HandleFinish PROVE IInv'
  OBVIOUS
<1> DEFINE ps == <<Opening>>
<1>1. /\ TypeOK /\ phase = "config" /\ phase # "closed" /\ Complete /\ Id[Frame] = 3 /\ phase' = "play"
      /\ lost' = SubSeq(buf, 3, Len(buf)) /\ buf' = <<>> /\ Reply(ps) /\ pc' = "read"
      /\ wire' = wire /\ UNCHANGED <<cl, intent, captured, ticks>>
  BY DEF IInv, HandleFinish, client, Reply
<1>2. intent = 2
  BY <1>1, OnlyHandshake
<1>3. PICK h \in Nat, c \in Nat, u \in Nat :
            Joining(h, c, u) /\ h + 1 <= u /\ Frame = Up(h + 1) /\ phase = PhaseAt(h)
  BY <1>1, <1>2, HandlesInTurn
<1>4. h = 6
  BY <1>1, <1>3, TurnsAre
<1>5. WrittenAt(6) = 7 /\ WrittenAt(7) = 8 /\ PhaseAt(7) = "play"
  BY DEF WrittenAt, PhaseAt
<1>6. c <= 7 /\ u = 7
  <2>1. c <= 7 /\ u # 0 /\ u >= 7 /\ (u = 0 \/ u = SentAt(c) \/ (c = 8 /\ u >= 7))
    BY <1>3, <1>4, <1>5 DEF Joining
  <2> QED BY <2>1 DEF SentAt
<1>7. Len(buf) = 2 /\ Len(wire) = 0
  <2>1. PICK b \in Nat, w \in Nat : b = Len(buf) /\ w = Len(wire)
    BY <1>1, LenProperties DEF TypeOK
  <2>2. b + w = 2
    BY <1>3, <1>4, <1>6, <2>1 DEF Joining, Stream
  <2>3. b >= 2
    BY <1>1, <2>1 DEF Complete
  <2> QED BY <2>1, <2>2, <2>3
<1>8. lost' = <<>>
  <2>1. lost' = SubSeq(buf, 3, 2)
    BY <1>1, <1>7
  <2>2. SubSeq(buf, 3, 2) \in Seq(Bits) /\ Len(SubSeq(buf, 3, 2)) = 0
    BY SubSeqProperties, <1>1 DEF TypeOK
  <2> QED BY <2>1, <2>2, EmptySeq
<1>9. Stream(7, 7)'
  <2>1. Len(buf') = 0 /\ Len(wire') = 0
    BY <1>1, <1>7
  <2> QED BY <2>1 DEF Stream
<1>10. ps \in Seq(DOMAIN Decodes) /\ Len(ps) = 1 /\ \A j \in 1..Len(ps) : ps[j] = Answers[WrittenAt(h) + j]
  <2>1. Opening \in DOMAIN Decodes /\ Opening = Answers[8]
    BY DEF Decodes, Opening, Answers
  <2>2. ps \in Seq(DOMAIN Decodes) /\ Len(ps) = 1
    BY <2>1, SeqsOf
  <2>3. ps[1] = Answers[7 + 1]
    BY <2>1
  <2> QED BY <1>4, <1>5, <2>2, <2>3
<1> HIDE DEF ps
<1>11. c <= WrittenAt(h) /\ Awaited(h, c)
  BY <1>3 DEF Joining
<1>12. down' \in Seq(DOMAIN Decodes) /\ c <= WrittenAt(h + 1) /\ Awaited(h + 1, c)'
  <2>1. WrittenAt(h + 1) = WrittenAt(h) + Len(ps)
    BY <1>4, <1>5, <1>10
  <2> QED BY <1>1, <1>10, <1>11, <2>1, Writes
<1>13. Awaited(7, c)'
  <2>1. h + 1 = 7
    BY <1>4
  <2> QED BY <1>12, <2>1
<1>14. Joining(7, c, 7)'
  <2>1. /\ 7 = SentAt(c) /\ cl' = cl /\ cl # "handshake"
        /\ cl \notin {"handshake", "gone"} => cl = StateAt(c)
    BY <1>1, <1>3, <1>6 DEF Joining
  <2>2. StateAt(c)' = StateAt(c)
    BY <1>1, Steady
  <2> QED BY <1>1, <1>5, <1>6, <1>9, <1>13, <2>1, <2>2 DEF Joining
<1>15. TypeOK'
  BY <1>1, <1>12 DEF TypeOK, Phases
<1>16. \E a, b, e \in Nat : Joining(a, b, e)'
  BY <1>6, <1>14
<1> QED BY <1>1, <1>2, <1>8, <1>15, <1>16 DEF IInv

\* Nothing happens.
LEMMA IdleKeeps == IInv /\ UNCHANGED vars => IInv'
<1> SUFFICES ASSUME IInv, UNCHANGED vars PROVE IInv'
  OBVIOUS
<1>1. UNCHANGED <<cl, intent, captured, wire, down, phase, pc, buf, lost, ticks>>
  BY DEF vars
<1>2. TypeOK'
  BY <1>1 DEF IInv, TypeOK
<1>3. ASSUME intent = 2 PROVE \E h, c, u \in Nat : Joining(h, c, u)'
  <2>1. PICK h \in Nat, c \in Nat, u \in Nat : Joining(h, c, u)
    BY <1>3 DEF IInv
  <2>2. Joining(h, c, u)'
    BY <1>1, <2>1 DEF Joining, Stream, Awaited, Answers, StateAt
  <2> QED BY <2>2
<1>4. ASSUME intent = 1 PROVE \E u \in Nat : Asking(u)'
  <2>1. PICK u \in Nat : Asking(u)
    BY <1>4 DEF IInv
  <2>2. Asking(u)'
    BY <1>1, <2>1 DEF Asking, Stream
  <2> QED BY <2>2
<1> QED BY <1>1, <1>2, <1>3, <1>4 DEF IInv

\* Every step of the client and of the server keeps the invariant.
LEMMA Step == IInv /\ [Next]_vars => IInv'
<1> SUFFICES ASSUME IInv, [Next]_vars PROVE IInv'
  OBVIOUS
<1>1. CASE Open
  BY <1>1, OpenKeeps
<1>2. CASE Take
  BY <1>2, TakeKeeps
<1>3. CASE Tick
  BY <1>3, TickKeeps
<1>4. CASE Quit
  BY <1>4, EndKeeps DEF Quit
<1>5. CASE Eof \/ Broken
  BY <1>5, EndKeeps DEF Eof, Broken, client
<1>6. CASE Read \/ NeedMore
  BY <1>6, ReadKeeps
<1>7. CASE HandleHandshake
  BY <1>7, HandshakeKeeps
<1>8. CASE HandleLoginStart
  BY <1>8, LoginStartKeeps
<1>9. CASE HandleLoginAck
  BY <1>9, LoginAckKeeps
<1>10. CASE HandleFinish
  BY <1>10, FinishKeeps
<1>11. CASE HandleConfigOther \/ HandlePlay
  BY <1>11, OthersKeep
<1>12. CASE UNCHANGED vars
  BY <1>12, IdleKeeps
<1> QED BY <1>1, <1>2, <1>3, <1>4, <1>5, <1>6, <1>7, <1>8, <1>9, <1>10, <1>11, <1>12 DEF Next, Server

\* The invariant implies the properties.
LEMMA InItsState == IInv => ReadInItsState
<1> SUFFICES ASSUME IInv, pc = "parse", Complete, phase # "closed" PROVE State[Frame] = phase
  BY DEF ReadInItsState
<1>1. CASE intent = 2
  <2>1. PICK h \in Nat : Frame = Up(h + 1) /\ phase = PhaseAt(h)
    BY <1>1, HandlesInTurn
  <2> QED BY <2>1, TurnsAre
<1>2. CASE intent = 1
  <2>1. PICK u \in Nat : Asking(u)
    BY <1>2 DEF IInv
  <2>2. TypeOK /\ phase = "handshake" /\ Stream(0, u) /\ 0 <= u
    BY <2>1 DEF IInv, Asking
  <2>3. Frame = Up(0 + 1)
    BY <2>2, Consumes
  <2> QED BY <2>2, <2>3, ScriptIs DEF State
<1> QED BY <1>1, <1>2 DEF IInv, TypeOK

\* What the client finds next is the answer its script waits for.
LEMMA Decodable == IInv => DecodableOnArrival
<1> SUFFICES ASSUME IInv, down # <<>>, cl \notin {"handshake", "gone"} PROVE Decodes[Head(down)] = cl
  BY DEF DecodableOnArrival
<1>1. TypeOK /\ intent = 2
  BY DEF IInv, TypeOK, Asking
<1>2. PICK h \in Nat, c \in Nat, u \in Nat : Joining(h, c, u)
  BY <1>1 DEF IInv
<1>3. PICK d \in Nat : d = Len(down)
  BY <1>1, LenProperties DEF TypeOK
<1>4. d # 0 /\ Head(down) = down[1]
  BY <1>1, <1>3, HeadTailProperties, EmptySeq DEF TypeOK
<1>5. cl = StateAt(c) /\ d = WrittenAt(h) - c /\ down[1] = Answers[c + 1]
  BY <1>2, <1>3, <1>4 DEF Joining, Awaited
<1>6. c \in 0..7
  BY <1>4, <1>5 DEF WrittenAt
<1> QED BY <1>4, <1>5, <1>6, TurnsAre

-----------------------------------------------------------------------------
\* Every variable keeps to the values of its type.
THEOREM TypeCorrect == Spec => []TypeOK
<1>1. IInv => TypeOK
  BY DEF IInv
<1> QED BY Initial, Step, <1>1, PTL DEF Spec

\* handle_connection interprets each frame in the state its client sent it in,
\* for any cut of the stream and any number of play frames.
THEOREM FramesReadInTheirState == Spec => []ReadInItsState
BY Initial, Step, InItsState, PTL DEF Spec

\* What the server writes is decodable in the state in which the client finds it.
THEOREM AnswersDecodable == Spec => []DecodableOnArrival
BY Initial, Step, Decodable, PTL DEF Spec

\* run_play_phase starts with an empty buffer and misses nothing by it.
THEOREM SwitchLosesNothing == Spec => []NothingLostAtSwitch
<1>1. IInv => NothingLostAtSwitch
  BY DEF IInv, NothingLostAtSwitch
<1> QED BY Initial, Step, <1>1, PTL DEF Spec
=============================================================================
