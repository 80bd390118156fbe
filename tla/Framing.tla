------------------------------ MODULE Framing ------------------------------
(***************************************************************************)
(* Frames over a TCP stream: encode_packet / frame_packet at the sender,   *)
(* read_buf and the loop over try_read_frame(_compressed) at the receiver  *)
(* (mc-proto/src/packet.rs, mc-proxy/src/config_handler.rs).  The network  *)
(* cuts the stream anywhere.  A frame is [id, body]; a peer may also send  *)
(* raw bytes.  No caller turns compression on; both ends have it.          *)
(***************************************************************************)
EXTENDS VarInt, SequencesExt

\* What a peer may send: [comp, entries], where an entry [raw, frames] is one
\* frame, or raw bytes that stand for none.
CONSTANTS Streams,
          Threshold   \* 256: the size from which frame_packet compresses

\* flate2's zlib, as far as its callers can tell: an inverse pair that changes
\* every byte sequence and refuses a cut one.
Deflate(s)  == <<Len(s)>> \o Reverse(s)
Inflates(z) == z # <<>> /\ Len(z) > z[1]
Inflate(z)  == Reverse(SubSeq(z, 2, z[1] + 1))

Prefixed(inner) == ToBytes(Len(inner)) \o inner
EncodePacket(id, body) == Prefixed(ToBytes(id) \o body)
Compressed(whole) == IF Len(whole) >= Threshold THEN ToBytes(Len(whole)) \o Deflate(whole)
                     ELSE <<0>> \o whole
FramePacket(id, body, compression) ==
    IF compression THEN Prefixed(Compressed(ToBytes(id) \o body)) ELSE EncodePacket(id, body)

\* Of the length prefix p of what is in the buffer: as a usize, a negative length
\* is past every end.
Length(p) == Signed(p.value)
End(p)    == p.consumed + Length(p)
\* More bytes do not help.
Stuck(p)  == p.is = "toolarge" \/ (p.is = "ok" /\ Length(p) < 0)

\* The data of a frame, decompressed: at most one element.
Unpacked(raw, compression) ==
    LET data(len) == SubSeq(raw, len.consumed + 1, Len(raw))
        fit == {len \in {FromBytes(raw)} : /\ len.is = "ok"
                                           /\ len.value = 0 \/ Inflates(data(len))}
    IN IF ~compression THEN {raw}
       ELSE {IF len.value = 0 THEN data(len) ELSE Inflate(data(len)) : len \in fit}

\* The packet in it, if it has an id.  That is stepped over by the length it
\* would be encoded in, not the one it was read from.
Packets(inner) ==
    {[id |-> id.value, body |-> SubSeq(inner, EncodedLen(id.value) + 1, Len(inner))] :
        id \in {i \in {FromBytes(inner)} : i.is = "ok"}}

PacketsIn(raw, compression) == UNION {Packets(inner) : inner \in Unpacked(raw, compression)}

\* A peer sends frames whose length is an i32, or bytes that are no frame: one
\* that has no packet in it, or those that no frame starts with.
Packet == [id : 0 .. (Size - 1), body : Seq(Byte)]
Frameable(f, compression) ==
    LET whole == ToBytes(f.id) \o f.body
    IN  /\ 2 * Len(whole) < Size
        /\ compression => 2 * Len(Compressed(whole)) < Size
Packetless(raw, compression) ==
    LET p == FromBytes(raw)
    IN  \/ Stuck(p)
        \/ /\ p.is = "ok" /\ End(p) = Len(raw)
           /\ PacketsIn(SubSeq(raw, p.consumed + 1, Len(raw)), compression) = {}
Sendable(entry, compression) ==
    \/ entry.frames = <<>> /\ Packetless(entry.raw, compression)
    \/ Len(entry.frames) = 1 /\ Frameable(entry.frames[1], compression)

StreamsAssumption == \A s \in Streams :
    /\ s.comp \in BOOLEAN
    /\ s.entries \in Seq([raw : Seq(Byte), frames : Seq(Packet)])
    /\ \A i \in 1..Len(s.entries) : Sendable(s.entries[i], s.comp)

VARIABLES strict,   \* try_read_frame, which reports a bad id; or its twin
          comp,     \* both ends compress (fixed; the twin only)
          coming,   \* entries the peer has still to send
          wire,     \* bytes sent and not delivered yet
          buf,      \* the receiver's BytesMut
          pc,       \* "read" (awaiting read_buf), "decode", "failed", "eof"
          stalled,  \* history: what it last took for missing data was no packet
          sent, got \* the frames sent, and those handed to a handler

vars == <<strict, comp, coming, wire, buf, pc, stalled, sent, got>>

Init == /\ \E s \in Streams : comp = s.comp /\ coming = s.entries
        /\ strict \in BOOLEAN /\ (comp => ~strict)
        /\ wire = <<>> /\ buf = <<>>
        /\ pc = "read" /\ stalled = FALSE
        /\ sent = <<>> /\ got = <<>>

BytesOf(entry) == IF entry.frames = <<>> THEN entry.raw
                ELSE FramePacket(entry.frames[1].id, entry.frames[1].body, comp)

Send == /\ coming # <<>>
        /\ wire' = wire \o BytesOf(Head(coming))
        /\ sent' = sent \o Head(coming).frames
        /\ coming' = Tail(coming)
        /\ UNCHANGED <<strict, comp, buf, pc, stalled, got>>

\* read_buf: any part of what is on the wire.
Receive(n) == /\ pc = "read"
              /\ n \in 1..Len(wire)
              /\ buf' = buf \o SubSeq(wire, 1, n)
              /\ wire' = SubSeq(wire, n + 1, Len(wire))
              /\ pc' = "decode" /\ stalled' = FALSE
              /\ UNCHANGED <<strict, comp, coming, sent, got>>

\* The peer has closed: read_buf returns 0.
Eof == /\ pc = "read" /\ coming = <<>> /\ wire = <<>>
       /\ pc' = "eof"
       /\ UNCHANGED <<strict, comp, coming, wire, buf, stalled, sent, got>>

\* Of the length prefix p = FromBytes(buf): the frame is there; or adding the
\* bytes of the prefix wraps a negative length round, and split_to panics.
Complete(p) == p.is = "ok" /\ Length(p) >= 0 /\ Len(buf) >= End(p)
Wraps(p) == p.is = "ok" /\ Length(p) < 0 /\ End(p) >= 0
Frames(p) == PacketsIn(SubSeq(buf, p.consumed + 1, End(p)), comp)

\* Seeded fault: a frame cut by the network is thrown away.
NeedMoreDrop(p) == /\ ~Complete(p) /\ ~Wraps(p)
                   /\ pc' = "read"
                   /\ buf' = <<>>
                   /\ UNCHANGED <<stalled, got>>

\* None: the loop is left for more bytes; none help if the length is bad.
NeedMore(p) == /\ ~Complete(p) /\ ~Wraps(p)
               /\ pc' = "read"
               /\ UNCHANGED <<buf, stalled, got>>

\* Seeded fault: the length prefix stays in the buffer.
DecodeKeep(p) == /\ Complete(p)
                 /\ \E f \in Frames(p) : got' = Append(got, f)
                 /\ buf' = SubSeq(buf, End(p), Len(buf))
                 /\ UNCHANGED <<pc, stalled>>

\* Some: the loop handles the frame and comes back.
Decode(p) == /\ Complete(p)
             /\ \E f \in Frames(p) : got' = Append(got, f)
             /\ buf' = SubSeq(buf, End(p) + 1, Len(buf))
             /\ UNCHANGED <<pc, stalled>>

\* A complete frame without an id, or with data that cannot be inflated, is
\* consumed; one caller fails, the other one takes the None for "not enough
\* data" and goes back to reading.
Skip(p) == /\ Complete(p) /\ Frames(p) = {}
           /\ buf' = SubSeq(buf, End(p) + 1, Len(buf))
           /\ pc' = IF strict THEN "failed" ELSE "read"
           /\ stalled' = ~strict
           /\ UNCHANGED got

\* The task that called it is gone.
Panic(p) == /\ Wraps(p)
            /\ pc' = "failed"
            /\ UNCHANGED <<buf, stalled, got>>

TryReadFrame == /\ pc = "decode"
                /\ \E p \in {FromBytes(buf)} : NeedMore(p) \/ Decode(p) \/ Skip(p) \/ Panic(p)
                /\ UNCHANGED <<strict, comp, coming, wire, sent>>

Receiver == Eof \/ TryReadFrame \/ \E n \in 1..Len(wire) : Receive(n)
Next == Send \/ Receiver

\* The peer sends what it has, and the task reads whenever it can.
Fairness == WF_vars(Send) /\ WF_vars(Receiver)
Spec == Init /\ [][Next]_vars /\ Fairness
-----------------------------------------------------------------------------
\* However the stream is cut, the frames handed on are those sent, in order.
FramesIntact == /\ Len(got) <= Len(sent)
                /\ \A i \in 1..Len(got) : got[i] = sent[i]

\* Nothing is kept back: the loop gets to the end of the stream, and then every
\* frame was handed on; or it has failed, or is stuck, on bytes that no frame
\* starts with; or the stream ended while the frames behind one that holds no
\* packet waited for more of it (WaitsForData).
AllHandedOn == <>(\/ pc = "failed"
                  \/ /\ pc = "eof"
                     /\ Stuck(FromBytes(buf)) \/ stalled \/ (got = sent /\ buf = <<>>))

\* config_handler.rs:116: "Returns (packet_id, body_bytes) or None if not enough
\* data": while a task waits for more, no complete frame is in its buffer.
WaitsForData == pc = "read" => ~Complete(FromBytes(buf))
=============================================================================
