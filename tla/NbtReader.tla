----------------------------- MODULE NbtReader -----------------------------
(***************************************************************************)
(* The NBT parser (mc-world/src/nbt.rs: read_compound_from, read_tag_name, *)
(* read_compound_body, read_payload), its recursion as a stack.  The buffer*)
(* is a sequence of the units it takes at once: a tag byte, a name, a list *)
(* header, the payload of a leaf.  "cut" stands for a unit of which some   *)
(* bytes are missing.                                                      *)
(***************************************************************************)
EXTENDS Integers, Sequences, SequencesExt

CONSTANTS Inputs,    \* what may be read: see input
          Payloads   \* values, as they are written: see WrittenAs

\* The numeric types are alike here: each is one unit of a fixed size.
Leaves == {"Byte", "Int", "String", "ByteArray", "LongArray"}
Types  == Leaves \cup {"List", "Compound"}
TagTypes == Types \cup {"End"}      \* what TagType::try_from accepts

\* A unit: what it is, a type or a name, and a length where it has one.  The root
\* and the elements of a list have the name "".
Names == {""} \cup STRING
Units == [is : {"tag", "name", "payload", "head", "cut"}, of : TagTypes \cup Names, n : Int]
U(is, of, n) == [is |-> is, of |-> of, n |-> n]

\* A value: leaves have no kids, those of a list are unnamed.
Value(type, kids) == [type |-> type, kids |-> kids]
Kid(name, value)  == [name |-> name, value |-> value]

\* The format: a payload is [units, tree] and has the units that its first kid is
\* written in, and those of the payload without that kid.  A list without any says
\* what it would be of; one of End may declare any length.
WrittenAs(u, w) ==
    \/ /\ w.type \in Leaves /\ w.kids = <<>>
       /\ Len(u) = 1 /\ u[1].is = "payload" /\ u[1].n >= 0
    \/ w.type = "Compound" /\ w.kids = <<>> /\ u = <<U("tag", "End", 0)>>
    \/ /\ w.type = "List" /\ w.kids = <<>>
       /\ Len(u) = 1 /\ u[1].is = "head" /\ u[1].of \in TagTypes
       /\ u[1].n = 0 \/ (u[1].of = "End" /\ u[1].n >= 0)
    \/ /\ w.kids # <<>>
       /\ \E p \in {q \in Payloads : q.tree = Head(w.kids).value} :
          \E r \in {q \in Payloads : q.tree = Value(w.type, Tail(w.kids))} :
            \/ /\ w.type = "Compound"
               /\ u = <<U("tag", p.tree.type, 0), U("name", Head(w.kids).name, 0)>> \o p.units \o r.units
            \/ /\ w.type = "List" /\ Head(w.kids).name = ""
               /\ r.units # <<>> /\ Head(r.units) = U("head", p.tree.type, Len(w.kids) - 1)
               /\ u = <<U("head", p.tree.type, Len(w.kids))>> \o p.units \o Tail(r.units)

NoTree == Value("End", <<>>)
NoPayload == [units |-> <<>>, tree |-> NoTree]

Values == {p.tree : p \in Payloads}
Kids   == [name : Names, value : Values]
PayloadsAssumption == \A p \in Payloads :
    /\ p \in [units : Seq(Units), tree : [type : Types, kids : Seq(Kids)]]
    /\ WrittenAs(p.units, p.tree)

\* A document, and what there may be of it: all, and other bytes behind; or a part,
\* with the next unit perhaps begun (a tag is one byte).
Document(payload) == <<U("tag", "Compound", 0), U("name", "", 0)>> \o payload.units
Begins(units, doc, n) == n <= Len(units) /\ \A i \in 1..n : units[i] = doc[i]
PartOf(units, doc) == \E n \in 0 .. (Len(doc) - 1) :
    /\ Begins(units, doc, n)
    /\ \/ Len(units) = n
       \/ n > 0 /\ Len(units) = n + 1 /\ units[n + 1].is = "cut"

InputsAssumption == \A i \in Inputs :
    /\ i.units \in Seq(Units)
    /\ i.payload # NoPayload =>
          /\ i.payload \in Payloads /\ i.payload.tree.type = "Compound"
          /\ IF i.whole THEN Begins(i.units, Document(i.payload), Len(Document(i.payload)))
                        ELSE PartOf(i.units, Document(i.payload))

VARIABLES input,  \* [units, payload, whole]: the buffer; as history values, what
                  \* its units are a document of (NoPayload if they are foreign),
                  \* and whether that is all there
          pos,    \* units consumed
          pc,     \* "root", "body", "name", "payload"; "ok", "error", "panic"
          type,   \* type of the tag or element under way
          name,   \* its name
          stack,  \* calls of read_payload under way: [type, elem, left, name, kids]
          result

vars == <<input, pos, pc, type, name, stack, result>>

Frame(t, elem, left, nm) == [type |-> t, elem |-> elem, left |-> left,
                             name |-> nm, kids |-> <<>>]

Init == /\ input \in Inputs
        /\ pos = 0
        /\ pc = "root"
        /\ type = "End" /\ name = ""
        /\ stack = <<>>
        /\ result = NoTree

Unit == input.units[pos + 1]
Has(kind) == pos < Len(input.units) /\ Unit.is = kind
Take == pos' = pos + 1
Stop(how) == /\ pc' = how
             /\ UNCHANGED <<input, pos, type, name, stack, result>>
Top == Last(stack)

\* A finished value goes to the call that asked for it.
Return(calls, nm, value) ==
    IF calls = <<>> THEN /\ result' = value
                         /\ pc' = "ok"
                         /\ stack' = calls
    ELSE /\ stack' = [calls EXCEPT ![Len(calls)].kids = Append(@, Kid(nm, value))]
         /\ pc' = "body"
         /\ UNCHANGED result

\* The next unit is missing or cut.
NotThere == pos < Len(input.units) => Unit.is = "cut"
Closing  == pc = "body" /\ Top.type = "List" /\ Top.left = 0
ReadsOn  == /\ pc \in {"root", "body", "name", "payload"}
            /\ pc = "body" => Top.type = "Compound"
            /\ pc = "payload" => type # "Compound"

\* Seeded fault: the end of the buffer ends a compound, too.
IncompleteAsEnd ==
    /\ ReadsOn /\ NotThere
    /\ IF pc = "body"
         THEN /\ Return(Front(stack), Top.name, Value(Top.type, Top.kids))
              /\ UNCHANGED <<input, pos, type, name>>
         ELSE Stop(IF pc = "root" THEN "panic" ELSE "error")

\* NbtError::Incomplete; the first byte of all is taken without looking.
Incomplete == /\ ReadsOn /\ NotThere
              /\ Stop(IF pc = "root" THEN "panic" ELSE "error")

\* A tag byte: the root has to be a compound; End closes the compound it is in.
BadTag == /\ pc \in {"root", "body"} /\ Has("tag")
          /\ \/ Unit.of \notin TagTypes
             \/ pc = "root" /\ Unit.of # "Compound"
          /\ pc = "body" => Top.type = "Compound"
          /\ Stop("error")

Tag == /\ pc \in {"root", "body"} /\ Has("tag")
       /\ pc = "body" => Top.type = "Compound"
       /\ IF pc = "root" THEN Unit.of = "Compound" ELSE Unit.of \in Types
       /\ type' = Unit.of
       /\ pc' = "name"
       /\ Take
       /\ UNCHANGED <<input, name, stack, result>>

Name == /\ pc = "name" /\ Has("name")
        /\ name' = Unit.of
        /\ pc' = "payload"
        /\ Take
        /\ UNCHANGED <<input, type, stack, result>>

\* An array whose length is negative is longer than any buffer; where the
\* length is multiplied, a build with overflow checks stops there.
Leaf == /\ pc = "payload" /\ type \in Leaves /\ Has("payload")
        /\ Unit.n >= 0
        /\ Take
        /\ Return(stack, name, Value(type, <<>>))
        /\ UNCHANGED <<input, type, name>>

NegativeArray == /\ pc = "payload" /\ type \in Leaves /\ Has("payload")
                 /\ Unit.n < 0
                 /\ \/ Stop("error")
                    \/ type = "LongArray" /\ Stop("panic")

\* with_capacity comes before anything else is looked at.
OpenList == /\ pc = "payload" /\ type = "List" /\ Has("head")
            /\ Unit.n >= 0
            /\ Unit.of \in TagTypes
            /\ stack' = Append(stack, Frame("List", Unit.of,
                                            IF Unit.of = "End" THEN 0 ELSE Unit.n, name))
            /\ pc' = "body"
            /\ Take
            /\ UNCHANGED <<input, type, name, result>>

BadList == /\ pc = "payload" /\ type = "List" /\ Has("head")
           /\ Unit.n < 0 \/ Unit.of \notin TagTypes
           /\ Stop(IF Unit.n < 0 THEN "panic" ELSE "error")

OpenCompound == /\ pc = "payload" /\ type = "Compound"
                /\ stack' = Append(stack, Frame("Compound", "End", 0, name))
                /\ pc' = "body"
                /\ UNCHANGED <<input, pos, type, name, result>>

\* for _ in 0..len { read_payload(buf, elem_ty) }.
Element == /\ pc = "body" /\ Top.type = "List" /\ Top.left > 0
           /\ stack' = [stack EXCEPT ![Len(stack)].left = @ - 1]
           /\ type' = Top.elem
           /\ name' = ""
           /\ pc' = "payload"
           /\ UNCHANGED <<input, pos, result>>

\* Seeded fault: the end of a compound closes the one around it as well.
CloseTwice == /\ \/ Closing /\ UNCHANGED pos
                 \/ /\ pc = "body" /\ Top.type = "Compound" /\ Has("tag")
                    /\ Unit.of = "End"
                    /\ Take
              /\ LET outer == SubSeq(stack, 1, IF Len(stack) > 2 THEN Len(stack) - 2 ELSE 0)
                 IN Return(outer, Top.name, Value(Top.type, Top.kids))
              /\ UNCHANGED <<input, type, name>>

\* A list is full, or TAG_End ends a compound.
Close == /\ \/ Closing /\ UNCHANGED pos
            \/ /\ pc = "body" /\ Top.type = "Compound" /\ Has("tag")
               /\ Unit.of = "End"
               /\ Take
         /\ Return(Front(stack), Top.name, Value(Top.type, Top.kids))
         /\ UNCHANGED <<input, type, name>>

Next == \/ Incomplete \/ BadTag \/ Tag \/ Name \/ Leaf \/ NegativeArray
        \/ OpenList \/ BadList \/ OpenCompound \/ Element \/ Close
Spec == Init /\ [][Next]_vars
-----------------------------------------------------------------------------
Ended == pc \in {"ok", "error", "panic"}
IsDocument == input.payload # NoPayload

\* A document is read back as it was written and exactly its own bytes are
\* consumed, whatever follows them: load_chunk hands over one byte too many.
ReadsWhatWasWritten == IsDocument /\ input.whole /\ Ended =>
    pc = "ok" /\ result = input.payload.tree /\ pos = Len(Document(input.payload))

\* No part of a document is taken for a document: a file cut short by a crash is
\* reported (an empty buffer panics, nbt.rs:102).
PrefixIsRefused == IsDocument /\ ~input.whole /\ Ended =>
    IF input.units = <<>> THEN pc = "panic" ELSE pc = "error"
=============================================================================
