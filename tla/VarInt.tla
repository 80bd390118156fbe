------------------------------- MODULE VarInt -------------------------------
(***************************************************************************)
(* VarInt and VarLong (mc-core/src/varint.rs): a number in groups of low   *)
(* bits first, each in a byte whose high bit says that another follows.    *)
(* A byte is a number below 2 * Base; values are the unsigned view that    *)
(* the code shifts (self.0 as u32), so i32 and u32 are not told apart.     *)
(***************************************************************************)
EXTENDS Integers, Sequences, FiniteSetsExt

CONSTANTS Base,      \* 128: values of a group, and the continuation bit
          MaxBytes,  \* 5 (VarInt), 10 (VarLong)
          Size,      \* 2^32, 2^64: number of values
          Weight     \* Weight[n] = Base^n: what shifting by n groups multiplies by

BaseAssumption == Base \in Nat /\ Base > 1
SizeAssumption == /\ MaxBytes \in Nat \ {0}
                  /\ Size \in Nat \ {0}
WeightAssumption == /\ Weight \in [0..MaxBytes -> Nat]
                    /\ Weight[0] = 1
                    /\ \A n \in 1..MaxBytes : Weight[n] = Base * Weight[n - 1]
                    /\ Size <= Weight[MaxBytes]

Byte == 0 .. (2 * Base - 1)
More(b) == b >= Base                  \* b & 0x80 != 0

\* Seeded fault: the limits are off by one.
EncodedLenOver(v) == Min({n \in 1..MaxBytes : v <= Weight[n]} \cup {MaxBytes})

\* VarInt::encoded_len: the first limit the value is below, or the last length.
EncodedLen(v) == Min({n \in 1..MaxBytes : v < Weight[n]} \cup {MaxBytes})

\* VarLong::encoded_len: groups until nothing is left.
Groups(v) == Min({n \in 1..MaxBytes : v \div Weight[n] = 0})

\* to_bytes: one byte per group, all but the last with the continuation bit.
ToBytes(v) == [i \in 1..Groups(v) |->
    ((v \div Weight[i - 1]) % Base) + (IF i < Groups(v) THEN Base ELSE 0)]

\* The i32 that the unsigned view is of.
Signed(v) == IF 2 * v >= Size THEN v - Size ELSE v

\* from_bytes: the bytes up to the first without continuation bit, of which
\* there are at most MaxBytes; bits shifted out at the top are dropped.
Ends(src) == {n \in 1..Len(src) : n <= MaxBytes /\ ~More(src[n])}

ValueOf(src, n) ==
    LET sum[i \in 0..n] ==
            IF i = 0 THEN 0 ELSE sum[i - 1] + (src[i] % Base) * Weight[i - 1]
    IN sum[n] % Size

FromBytes(src) ==
    IF Ends(src) # {} THEN [is |-> "ok", value |-> ValueOf(src, Min(Ends(src))),
                            consumed |-> Min(Ends(src))]
    ELSE [is |-> IF Len(src) < MaxBytes THEN "incomplete" ELSE "toolarge"]
=============================================================================
