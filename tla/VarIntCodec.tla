---------------------------- MODULE VarIntCodec ----------------------------
(***************************************************************************)
(* The loops of VarInt::write and VarInt::read (mc-core/src/varint.rs),    *)
(* one byte per step.  The reader is given what write produced, of which   *)
(* the network may have delivered a prefix only, or bytes of any origin.   *)
(***************************************************************************)
EXTENDS VarInt

CONSTANT Foreign   \* byte sequences that no write produced

ForeignAssumption == Foreign \subseteq Seq(Byte)

VARIABLES pc,      \* "write", "wire", "read", "ok", "incomplete", "toolarge"
          given,   \* the value written; Size for foreign bytes
          v,       \* what write has still to emit
          src,     \* the bytes written, then those the reader is given
          whole,   \* the reader is given all of them
          pos,     \* bytes taken by read
          shift,   \* groups shifted: the code's shift is 7 times this
          value    \* read's accumulator

vars == <<pc, given, v, src, whole, pos, shift, value>>

Init == /\ pos = 0 /\ shift = 0 /\ value = 0
        /\ \/ /\ pc = "write"
              /\ given \in 0 .. (Size - 1)
              /\ v = given
              /\ src = <<>>
              /\ whole = FALSE
           \/ /\ pc = "read"
              /\ given = Size
              /\ v = 0
              /\ src \in Foreign
              /\ whole = TRUE

\* One iteration of write.
Write == /\ pc = "write"
         /\ LET rest == v \div Base IN
            /\ src' = Append(src, IF rest # 0 THEN (v % Base) + Base ELSE v % Base)
            /\ v' = rest
            /\ pc' = IF rest = 0 THEN "wire" ELSE "write"
         /\ UNCHANGED <<given, whole, pos, shift, value>>

\* The reader finds the first n bytes in its buffer.
Deliver(n) == /\ pc = "wire"
              /\ src' = SubSeq(src, 1, n)
              /\ whole' = (n = Len(src))
              /\ pc' = "read"
              /\ UNCHANGED <<given, v, pos, shift, value>>

Exhausted == /\ pc = "read"
             /\ pos = Len(src)
             /\ pc' = "incomplete"
             /\ UNCHANGED <<given, v, src, whole, pos, shift, value>>

\* Seeded fault: the limit is tested one group late.
ReadLate == /\ pc = "read"
            /\ pos < Len(src)
            /\ pos' = pos + 1
            /\ value' = (value + (src[pos'] % Base) * Weight[shift]) % Size
            /\ IF More(src[pos'])
                 THEN /\ shift' = shift + 1
                      /\ pc' = IF shift' > MaxBytes THEN "toolarge" ELSE "read"
                 ELSE pc' = "ok" /\ UNCHANGED shift
            /\ UNCHANGED <<given, v, src, whole>>

\* One iteration of read that finds a byte.
Read == /\ pc = "read"
        /\ pos < Len(src)
        /\ pos' = pos + 1
        /\ value' = (value + (src[pos'] % Base) * Weight[shift]) % Size
        /\ IF More(src[pos'])
             THEN /\ shift' = shift + 1
                  /\ pc' = IF shift' >= MaxBytes THEN "toolarge" ELSE "read"
             ELSE pc' = "ok" /\ UNCHANGED shift
        /\ UNCHANGED <<given, v, src, whole>>

Next == \/ Write \/ Exhausted \/ Read
        \/ \E n \in 0..Len(src) : Deliver(n)

Spec == Init /\ [][Next]_vars
-----------------------------------------------------------------------------
\* A value is written in as many bytes as both encoded_len announce (the frame
\* code steps over a packet id by that number), and given all of them, read
\* returns the value and consumes every one.  Whatever it is given, its loop
\* computes what FromBytes says, which Framing is built on.
RoundTrip ==
    /\ pc = "wire" => Len(src) = EncodedLen(given) /\ Len(src) = Groups(given) /\ src = ToBytes(given)
    /\ pc \in {"ok", "incomplete", "toolarge"} =>
          LET r == FromBytes(src) IN
          /\ r.is = pc
          /\ pc = "ok" => r.value = value /\ r.consumed = pos
          /\ whole /\ given < Size => pc = "ok" /\ value = given /\ pos = Len(src)

\* read says "incomplete" exactly when more bytes could still make a VarInt:
\* the framing code waits for the network then.
VerdictIsExact ==
    /\ pc = "incomplete" => pos = Len(src) /\ pos < MaxBytes /\ \A i \in 1..pos : More(src[i])
    /\ pc = "toolarge"   => pos = MaxBytes /\ \A i \in 1..pos : More(src[i])
    /\ pc = "ok"         => /\ pos \in 1..MaxBytes
                            /\ ~More(src[pos])
                            /\ \A i \in 1 .. (pos - 1) : More(src[i])
=============================================================================
