----------------------------- MODULE PacketBody -----------------------------
(***************************************************************************)
(* A reader at work on the body of a packet.  What it does where the body  *)
(* is too short is its own: it fails, panics, makes do, or ignores it.     *)
(***************************************************************************)
EXTENDS PacketLayout

CONSTANTS Inputs,   \* what may be read: see input
          Layouts   \* the formats that are read: see IsLayout

\* The format.  A layout is what is left for a reader: its operations, the fields
\* that these take, and the units that the fields are written in.  It is sound, or
\* ends with a length below 0.
Written(op, f) == \/ /\ op.op \in {"number", "oneof", "count", "option"}
                     /\ f.is \in {"varint", "fixed"} /\ Len(f.data) = 1
                     /\ op.op = "count" => f.data[1] >= 0
                  \/ op.op = "bytes" /\ f.is \in {"varint", "fixed"} /\ Len(f.data) = op.n
                  \/ op.op = "string" /\ f.is = "string"
                  \/ op.op = "rest" /\ f.is = "data"

Operations == UNION {Range(l.ops) : l \in Layouts}

\* Layout r is what layout l leaves after its first operation.
Leaves(l, r) ==
    LET op == Head(l.ops)
        f  == Head(l.fields)
    IN /\ r.reader = l.reader /\ r.sound = l.sound
       /\ \/ /\ op.op = "atleast" /\ op.n <= Len(l.body)
             /\ r.ops = Tail(l.ops) /\ r.fields = l.fields /\ r.body = l.body
          \/ /\ l.fields # <<>> /\ Written(op, f)
             /\ More(op, f.data[1]) \in Seq(Operations)
             /\ r.ops = More(op, f.data[1]) \o Tail(l.ops)
             /\ r.fields = Tail(l.fields) /\ l.body = Units(f) \o r.body
       /\ r.ops # <<>> =>
             /\ Head(r.ops).op = "rest" => op.op = "option" /\ f.data = <<1>>
             /\ op.op = "rest" => Head(r.ops).n > 0 /\ Head(r.ops).short = "err" /\ r.fields # <<>>

\* Operations that only some readers have: see PacketLayout.
Suits(op, l) ==
    /\ Last(l.reader).op = "oneof" => Last(l.ops) = Last(l.reader)
    /\ op.op = "oneof" => op = Last(l.reader) /\ Len(l.ops) = 1
    /\ op.op = "rest" => l.reader = ReadRegistryData
    /\ op.short = "zero" => op = Lenient /\ op \in Range(l.reader)

\* The shape of fields and operations.
Fields == [is : {"varint", "string", "fixed", "data"}, data : Seq(Int)]
OperationsAssumption == \A op \in Operations :
    /\ op.op \in {"number", "oneof", "bytes", "rest", "atleast", "string", "count", "option"}
    /\ op.n \in Nat
    /\ op.op \notin {"bytes", "rest", "atleast"} => op.n = 1
    /\ op.op = "rest" => op.n = 0
    /\ op.short \in {"err", "panic", "ignored", "zero"}

\* A layout is read to its end, or leaves another one, or stops at a length below 0.
IsLayout(l) ==
    /\ l.ops \in Seq(Operations) /\ l.fields \in Seq(Fields) /\ l.body \in Seq(Int)
    /\ IF l.ops = <<>> THEN l.sound /\ l.fields = <<>> /\ l.body = <<>>
       ELSE /\ Suits(Head(l.ops), l)
            /\ \/ \E r \in Layouts : Leaves(l, r)
               \/ /\ ~l.sound /\ Head(l.ops).op \in {"string", "count"}
                  /\ l.body # <<>> /\ Head(l.body) < 0
LayoutsAssumption == OperationsAssumption /\ \A l \in Layouts : IsLayout(l)

\* What is read is all of a sound layout, or a part of one, or of one that is not.
BodiesAssumption == \A i \in Inputs :
    /\ i.body \in Seq(Int)
    /\ i.reader # <<>> /\ Head(i.reader).op # "rest"
    /\ \E l \in Layouts :
          /\ l.reader = i.reader /\ l.ops = i.reader
          /\ Len(i.body) <= Len(l.body) /\ \A k \in 1..Len(i.body) : i.body[k] = l.body[k]
          /\ IF i.whole THEN l.sound /\ l.fields = i.fields /\ Len(i.body) = Len(l.body)
             ELSE l.sound => Len(i.body) < Len(l.body)

VARIABLES input,  \* [reader, fields, body, whole]: the reader, the fields written,
                  \* and the body it is given, with all of them or not
          todo,   \* what it has still to read
          pos,    \* units taken
          out,    \* the data of the fields read
          pc      \* "reading", or its outcome: "ok", "err", "panic", "ignored"

vars == <<input, todo, pos, out, pc>>

Init == /\ input \in Inputs
        /\ todo = input.reader
        /\ pos = 0
        /\ out = <<>>
        /\ pc = "reading"

Op == Head(todo)
Left == Len(input.body) - pos
Unit == input.body[pos + 1]
Taken(n) == SubSeq(input.body, pos + 1, pos + n)
Reads(op) == pc = "reading" /\ todo # <<>> /\ Op.op = op /\ Left >= Op.n

Stop(how) == pc' = how /\ UNCHANGED <<input, todo, pos, out>>
\* n units make up these data; more is to be read before the rest.
Go(n, data, more) == /\ pos' = pos + n
                     /\ out' = out \o data
                     /\ todo' = more \o Tail(todo)
                     /\ UNCHANGED <<input, pc>>

Missing == /\ pc = "reading" /\ todo # <<>> /\ Left < Op.n
           /\ IF Op.short = "zero" THEN Go(0, <<<<0>>>>, <<>>)
              ELSE Stop(IF Op.op = "string" THEN "err" ELSE Op.short)

Number == \/ Reads("number") /\ Go(1, <<<<Unit>>>>, <<>>)
          \/ /\ Reads("oneof")
             /\ IF Unit \in Op.values THEN Go(1, <<<<Unit>>>>, <<>>) ELSE Stop("err")

Fixed == \/ Reads("bytes") /\ Go(Op.n, <<Taken(Op.n)>>, <<>>)
         \/ Reads("rest") /\ Go(Left, <<Taken(Left)>>, <<>>)
         \/ Reads("atleast") /\ Go(0, <<>>, <<>>)

\* Seeded fault: what there is of a string is taken for it.
ReadStringCut == /\ Reads("string")
                 /\ LET n == IF Unit < Left THEN Unit ELSE Left - 1 IN
                    IF Unit >= 0 THEN Go(n + 1, <<Tail(Taken(n + 1))>>, <<>>) ELSE Stop(Op.short)

\* A negative length is, as a usize, more than is left.
ReadString == /\ Reads("string")
              /\ IF Unit >= 0 /\ Unit < Left THEN Go(Unit + 1, <<Tail(Taken(Unit + 1))>>, <<>>)
                                             ELSE Stop(Op.short)

\* Vec::with_capacity panics on a negative count; the loop then reads that many.
Repeat == /\ Reads("count")
          /\ IF Unit < 0 THEN Stop("panic")
             ELSE Go(1, <<<<Unit>>>>, More(Op, Unit))

Choose == Reads("option") /\ Go(1, <<<<Unit>>>>, More(Op, Unit))

Done == /\ pc = "reading" /\ todo = <<>>
        /\ Stop("ok")

Next == Missing \/ Number \/ Fixed \/ ReadString \/ Repeat \/ Choose \/ Done
Spec == Init /\ [][Next]_vars
-----------------------------------------------------------------------------
\* The data of an entry that is not the last: its reader takes all that is left.
Swallowed == \E i \in 1 .. (Len(input.fields) - 1) : input.fields[i].is = "data"
\* A next state that this reader of a Handshake does not accept.
Refused == /\ input.reader # <<>> /\ Last(input.reader).op = "oneof"
           /\ Last(input.fields).data[1] \notin Last(input.reader).values

\* Each reader of a body gets back every field that was written, and nothing is
\* left over; a next state it does not accept, and registry data in any but the
\* last entry (config.rs:93 "Read remaining"), fail and never make a wrong packet.
ReadsBack == IF Swallowed \/ Refused THEN pc = "err"
             ELSE /\ pc = "ok" /\ pos = Len(input.body)
                  /\ out = [i \in DOMAIN input.fields |-> input.fields[i].data]

\* A part of a body, or one with negative lengths, is not taken for a packet,
\* except where the reader makes do: with 0 for a VarInt, or with any rest.
CutIsRefused == pc = "ok" =>
    \/ Lenient \in Range(input.reader)
    \/ input.reader = ReadRegistryData /\ pos = Len(input.body) /\ out[Len(out) - 1] = <<1>>

\* What a reader makes of a body, whole or not.
ReadsBackOrRefuses == pc # "reading" => IF input.whole THEN ReadsBack ELSE CutIsRefused
=============================================================================
