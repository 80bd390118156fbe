---------------------------- MODULE PayloadProofs ----------------------------
(***************************************************************************)
(* Proofs about the two readers of structured data.  NBT: that every       *)
(* document is read back, whatever tree it holds, and no part of one is    *)
(* taken for a document.  Packet bodies: that reader and writer stay at    *)
(* the same field, whatever is in them.                                    *)
(***************************************************************************)
EXTENDS Formats, SequenceTheorems, TLAPS

-----------------------------------------------------------------------------
\* NBT: the calls of read_payload that wait for a kid.
Calls == [type : {"List", "Compound"}, elem : N!TagTypes, left : Nat, name : N!Names,
                  kids : Seq(N!Kids)]

\* What is left of the container that call c reads: its units a, with the kids ks.
Rests(c, a, ks) ==
    /\ a \in Seq(N!Units) /\ ks \in Seq(N!Kids)
    /\ \/ c.type = "Compound" /\ [units |-> a, tree |-> N!Value("Compound", ks)] \in Payloads
       \/ /\ c.type = "List" /\ c.left = Len(ks)
          /\ \E h \in N!Units : /\ h.of = c.elem
                              /\ [units |-> <<h>> \o a, tree |-> N!Value("List", ks)] \in Payloads

\* G holds what the calls may be told: that the value w, named nm, has been read,
\* and the units b are to come; and it leads to the tree of the document.
\* (Such a set stands for the recursion over the calls.)
Told(G, calls, b, ks) ==
   <<N!Front(calls), b, N!Last(calls).name, N!Value(N!Last(calls).type, ks)>> \in G
Goes(G, calls, b, nm, w) == \E a \in Seq(N!Units), c \in Seq(N!Units), ks \in Seq(N!Kids) :
    b = a \o c /\ Rests(N!Last(calls), a, ks)
       /\ Told(G, calls, c, N!Last(calls).kids \o (<<N!Kid(nm, w)>> \o ks))
Leads(G, tree) ==
    /\ G \subseteq Seq(Calls) \X Seq(N!Units) \X N!Names \X N!Values
    /\ \A calls, b, nm, w : <<calls, b, nm, w>> \in G =>
          IF calls = <<>> THEN b = <<>> /\ w = tree ELSE Goes(G, calls, b, nm, w)

\* The first m units of the document are there, and what follows them is not of it.
There(i, m) == LET d == N!Document(i.payload) IN
    /\ m \in 0..Len(d) /\ N!Begins(i.units, d, m)
    /\ IF i.whole THEN m = Len(d)
       ELSE /\ m < Len(d)
            /\ \/ Len(i.units) = m
               \/ m > 0 /\ Len(i.units) = m + 1 /\ i.units[m + 1].is = "cut"

\* After q units of document d the units b are to come.
Remains(d, q, b) == /\ b \in Seq(N!Units) /\ q + Len(b) = Len(d)
                    /\ \A i \in 1..Len(b) : b[i] = d[q + i]
Doc == N!Document(input.payload)

AtRoot == n_pc = "root" /\ n_pos = 0 /\ stack = <<>>
AtName(G) == /\ n_pc = "name"
             /\ \E x \in N!Units, p \in Payloads, b \in Seq(N!Units) :
                  /\ Remains(Doc, n_pos, <<x>> \o (p.units \o b)) /\ x.is = "name"
                  /\ p.tree.type = type /\ <<stack, b, x.of, p.tree>> \in G
AtPayload(G) == /\ n_pc = "payload"
                /\ \E p \in Payloads, b \in Seq(N!Units) :
                     /\ Remains(Doc, n_pos, p.units \o b)
                     /\ p.tree.type = type /\ <<stack, b, name, p.tree>> \in G
InBody(G) == /\ n_pc = "body" /\ stack # <<>>
             /\ \E a \in Seq(N!Units), c \in Seq(N!Units), ks \in Seq(N!Kids) :
                  /\ Remains(Doc, n_pos, a \o c) /\ Rests(N!Top, a, ks)
                  /\ Told(G, stack, c, N!Top.kids \o ks)
Inside == n_pos > 0 /\ \E G : Leads(G, input.payload.tree)
   /\ (AtName(G) \/ AtPayload(G) \/ InBody(G))
Finished == \/ n_pc = "ok" /\ n_result = input.payload.tree /\ n_pos = Len(Doc)
            \/ ~input.whole /\ n_pc = IF input.units = <<>> THEN "panic" ELSE "error"

\* What is known while a document is read.
DocInv == /\ stack \in Seq(Calls)
          /\ \E m : There(input, m) /\ n_pos \in 0..m
          /\ AtRoot \/ Inside \/ Finished
NbtInv == input \in Inputs /\ (N!IsDocument => DocInv)
-----------------------------------------------------------------------------
Pair(a, w) == [units |-> a, tree |-> w]

\* What is known of a payload.
LEMMA PayloadIs ==
  ASSUME N!PayloadsAssumption, NEW p \in Payloads
  PROVE  /\ p.units \in Seq(N!Units) /\ p.tree.type \in N!Types /\ p.tree.kids \in Seq(N!Kids)
         /\ p.tree = N!Value(p.tree.type, p.tree.kids) /\ p = Pair(p.units, p.tree)
         /\ p.tree \in N!Values /\ N!WrittenAs(p.units, p.tree)
<1>1. p \in [units : Seq(N!Units), tree : [type : N!Types, kids : Seq(N!Kids)]]
         /\ N!WrittenAs(p.units, p.tree)
  BY DEF N!PayloadsAssumption
<1>2. p.units \in Seq(N!Units) /\ p.tree \in [type : N!Types, kids : Seq(N!Kids)]
         /\ p = Pair(p.units, p.tree)
  BY <1>1 DEF Pair
<1>3. p.tree \in N!Values
  BY DEF N!Values
<1> QED BY <1>1, <1>2, <1>3 DEF N!Value

\* One unit, and a sequence that begins with one.
LEMMA OneUnit ==
  ASSUME NEW S, NEW x \in S
  PROVE  <<x>> \in Seq(S) /\ Len(<<x>>) = 1 /\ <<x>>[1] = x
OBVIOUS

\* A sequence with one unit before it.
LEMMA ConsIs ==
  ASSUME NEW S, NEW x \in S, NEW s \in Seq(S)
  PROVE  /\ <<x>> \o s \in Seq(S) /\ Len(<<x>> \o s) = 1 + Len(s) /\ (<<x>> \o s)[1] = x
         /\ \A i \in 1..Len(s) : (<<x>> \o s)[i + 1] = s[i]
<1>1. <<x>> \in Seq(S) /\ Len(<<x>>) = 1 /\ <<x>>[1] = x /\ s \in Seq(S)
  BY OneUnit
<1>2. /\ <<x>> \o s \in Seq(S) /\ Len(<<x>> \o s) = Len(<<x>>) + Len(s)
      /\ \A i \in 1 .. Len(<<x>>) + Len(s) :
            (<<x>> \o s)[i] = IF i <= Len(<<x>>) THEN <<x>>[i] ELSE s[i - Len(<<x>>)]
  BY ONLY <1>1, ConcatProperties
<1>3. Len(s) \in Nat
  BY LenProperties
<1> PICK z, e, one : z = <<x>> \o s /\ e = <<x>> /\ one = Len(<<x>>)
  OBVIOUS
<1>4. \A i \in 1 .. 1 + Len(s) : z[i] = IF i <= 1 THEN e[i] ELSE s[i - 1]
  BY <1>1, <1>2
<1>5. z[1] = x
  BY <1>1, <1>3, <1>4
<1>6. ASSUME NEW i \in 1..Len(s) PROVE z[i + 1] = s[i]
  <2>1. i + 1 \in 1 .. 1 + Len(s) /\ ~(i + 1 <= 1) /\ (i + 1) - 1 = i
    BY <1>3
  <2> QED BY <1>4, <2>1
<1> QED BY <1>1, <1>2, <1>5, <1>6

\* A sequence of one unit.
LEMMA IsOne ==
  ASSUME NEW S, NEW s \in Seq(S), Len(s) = 1
  PROVE  s[1] \in S /\ s = <<s[1]>>
<1>1. s[1] \in S
  BY ElementOfSeq
<1>2. <<s[1]>> \in Seq(S) /\ Len(<<s[1]>>) = 1 /\ <<s[1]>>[1] = s[1]
  BY <1>1, OneUnit
<1> QED BY <1>1, <1>2, SeqEqual

\* A sequence that is not empty has a first unit, and others.
LEMMA HeadAndTail ==
  ASSUME NEW S, NEW s \in Seq(S), s # <<>>
  PROVE  Head(s) \in S /\ Tail(s) \in Seq(S) /\ s = <<Head(s)>> \o Tail(s) /\ Head(s) = s[1]
         /\ Len(Tail(s)) = Len(s) - 1
<1>1. /\ Head(s) \in S /\ Tail(s) \in Seq(S) /\ Len(s) \in Nat /\ Len(s) > 0
      /\ Len(Tail(s)) = Len(s) - 1 /\ \A i \in 1..Len(Tail(s)) : Tail(s)[i] = s[i + 1]
      /\ Head(s) = s[1]
  BY HeadTailProperties, LenProperties, EmptySeq
<1> PICK h, t : h = Head(s) /\ t = Tail(s)
  OBVIOUS
<1>2. <<h>> \in Seq(S) /\ Len(<<h>>) = 1 /\ <<h>>[1] = h
  BY <1>1, OneUnit
<1>3. /\ <<h>> \o t \in Seq(S) /\ Len(<<h>> \o t) = 1 + Len(t)
      /\ \A i \in 1 .. (1 + Len(t)) : (<<h>> \o t)[i] = IF i <= 1 THEN <<h>>[i] ELSE t[i - 1]
  <2>1. t \in Seq(S)
    BY <1>1
  <2> QED BY ONLY <1>2, <2>1, ConcatProperties
<1>4. \A i \in 1..Len(s) : s[i] = (<<h>> \o t)[i]
  <2> TAKE i \in 1..Len(s)
  <2>1. CASE i = 1
    BY <1>1, <1>2, <1>3, <2>1
  <2>2. CASE i > 1
    <3>1. i - 1 \in 1..Len(t) /\ i \in 1 .. (1 + Len(t)) /\ (i - 1) + 1 = i
      BY <1>1, <2>2
    <3> QED BY <1>1, <1>3, <2>2, <3>1
  <2> QED BY <2>1, <2>2, <1>1
<1>5. s = <<h>> \o t
  <2>1. Len(s) = Len(<<h>> \o t)
    BY <1>1, <1>3
  <2> QED BY ONLY <1>3, <1>4, <2>1, SeqEqual, s \in Seq(S)
<1> QED BY <1>1, <1>5

\* Two units.
LEMMA TwoUnits ==
  ASSUME NEW S, NEW x \in S, NEW y \in S
  PROVE  <<x, y>> \in Seq(S) /\ <<x>> \o <<y>> = <<x, y>>
<1>1. <<x>> \in Seq(S) /\ <<y>> \in Seq(S) /\ Len(<<x>>) = 1 /\ Len(<<y>>) = 1 /\ <<x>>[1] = x
         /\ <<y>>[1] = y
  BY OneUnit
<1> PICK z, w : z = <<x>> \o <<y>> /\ w = <<x, y>>
  OBVIOUS
<1>2. w \in Seq(S) /\ Len(w) = 2 /\ w[1] = x /\ w[2] = y
  OBVIOUS
<1>3. /\ z \in Seq(S) /\ Len(z) = 2
      /\ \A i \in 1..2 : z[i] = IF i <= 1 THEN <<x>>[i] ELSE <<y>>[i - 1]
  <2>1. /\ <<x>> \o <<y>> \in Seq(S) /\ Len(<<x>> \o <<y>>) = Len(<<x>>) + Len(<<y>>)
        /\ \A i \in 1 .. Len(<<x>>) + Len(<<y>>) :
              (<<x>> \o <<y>>)[i] = IF i <= Len(<<x>>) THEN <<x>>[i] ELSE <<y>>[i - Len(<<x>>)]
    BY ONLY <1>1, ConcatProperties
  <2> QED BY <1>1, <2>1
<1>4. z[1] = x /\ z[2] = y
  BY <1>1, <1>3
<1>5. ASSUME NEW i \in 1..Len(z) PROVE z[i] = w[i]
  <2>1. i = 1 \/ i = 2
    BY <1>3
  <2> QED BY <1>2, <1>4, <2>1
<1> QED BY <1>2, <1>3, <1>5, SeqEqual

\* One unit before a sequence that others follow.
LEMMA JoinsOne ==
  ASSUME NEW S, NEW x \in S, NEW s \in Seq(S), NEW t \in Seq(S)
  PROVE  (<<x>> \o s) \o t = <<x>> \o (s \o t)
<1>1. s \in Seq(S) /\ t \in Seq(S) /\ <<x>> \in Seq(S)
  BY OneUnit
<1> QED BY ONLY <1>1, ConcatAssociative

\* Two units before such a sequence.
LEMMA JoinsTwo ==
  \A x, y \in N!Units, s, t \in Seq(N!Units) : (<<x, y>> \o s) \o t = <<x>> \o (<<y>> \o (s \o t))
<1> TAKE x, y \in N!Units, s, t \in Seq(N!Units)
<1>1. s \in Seq(N!Units) /\ t \in Seq(N!Units)
  OBVIOUS
<1>2. <<x>> \in Seq(N!Units) /\ <<y>> \in Seq(N!Units) /\ <<x, y>> \in Seq(N!Units)
  BY OneUnit, TwoUnits
<1>3. <<x>> \o <<y>> = <<x, y>>
  BY TwoUnits
<1>4. s \o t \in Seq(N!Units)
  BY ONLY <1>1, ConcatProperties
<1>5. (<<x, y>> \o s) \o t = <<x, y>> \o (s \o t)
  BY ONLY <1>1, <1>2, ConcatAssociative
<1>6. (<<x>> \o <<y>>) \o (s \o t) = <<x>> \o (<<y>> \o (s \o t))
  BY ONLY <1>2, <1>4, ConcatAssociative
<1> QED BY ONLY <1>3, <1>5, <1>6

\* A leaf is one unit.
LEMMA LeafIs ==
  ASSUME N!PayloadsAssumption, NEW p \in Payloads, p.tree.type \in N!Leaves
  PROVE  p.tree.kids = <<>> /\ \E x \in N!Units : p.units = <<x>> /\ x.is = "payload" /\ x.n >= 0
<1>1. N!WrittenAs(p.units, p.tree) /\ p.units \in Seq(N!Units)
  BY PayloadIs
<1>2. p.tree.type # "Compound" /\ p.tree.type # "List"
  BY DEF N!Leaves
<1>3. p.tree.kids = <<>> /\ Len(p.units) = 1 /\ p.units[1].is = "payload" /\ p.units[1].n >= 0
  BY <1>1, <1>2 DEF N!WrittenAs
<1> QED BY <1>1, <1>3, IsOne

\* What a container of type t is made of that has kids ks: k, in payload p, and
\* the others js, which make r.
Split(t, a, ks, k, p, js, r) ==
    /\ k \in N!Kids /\ js \in Seq(N!Kids) /\ p \in Payloads /\ r \in Payloads
    /\ ks = <<k>> \o js /\ Len(js) = Len(ks) - 1 /\ p.tree = k.value /\ r.tree = N!Value(t, js)
    /\ \/ /\ t = "Compound"
          /\ a = <<N!U("tag", p.tree.type, 0), N!U("name", k.name, 0)>> \o p.units \o r.units
       \/ /\ t = "List" /\ k.name = ""
          /\ r.units # <<>> /\ Head(r.units) = N!U("head", p.tree.type, Len(ks) - 1)
          /\ a = <<N!U("head", p.tree.type, Len(ks))>> \o p.units \o Tail(r.units)

\* A container with kids is made of the first and the rest.
LEMMA TheRest ==
  ASSUME N!PayloadsAssumption, NEW a, NEW t, NEW ks \in Seq(N!Kids),
         Pair(a, N!Value(t, ks)) \in Payloads, ks # <<>>
  PROVE  \E k, p, js, r : Split(t, a, ks, k, p, js, r)
<1> PICK k, js : k = Head(ks) /\ js = Tail(ks)
  OBVIOUS
<1>1. k \in N!Kids /\ js \in Seq(N!Kids) /\ ks = <<k>> \o js /\ Len(js) = Len(ks) - 1
  BY HeadAndTail
<1>2. N!WrittenAs(a, N!Value(t, ks))
  BY PayloadIs DEF Pair
<1>3. N!Value(t, ks).type = t /\ N!Value(t, ks).kids = ks
  BY DEF N!Value
<1>4. PICK p, r :
        /\ p \in Payloads /\ r \in Payloads /\ p.tree = k.value /\ r.tree = N!Value(t, js)
        /\ \/ /\ t = "Compound"
              /\ a = <<N!U("tag", p.tree.type, 0), N!U("name", k.name, 0)>> \o p.units \o r.units
           \/ /\ t = "List" /\ k.name = ""
              /\ r.units # <<>> /\ Head(r.units) = N!U("head", p.tree.type, Len(ks) - 1)
              /\ a = <<N!U("head", p.tree.type, Len(ks))>> \o p.units \o Tail(r.units)
  BY <1>2, <1>3 DEF N!WrittenAs
<1> QED BY <1>1, <1>4 DEF Split

Fields(a, ks, k, p, js, b) ==
    /\ k \in N!Kids /\ p \in Payloads /\ js \in Seq(N!Kids) /\ b \in Seq(N!Units)
    /\ ks = <<k>> \o js /\ p.tree = k.value
    /\ a = <<N!U("tag", p.tree.type, 0)>> \o (<<N!U("name", k.name, 0)>> \o (p.units \o b))
    /\ N!U("tag", p.tree.type, 0) \in N!Units /\ N!U("name", k.name, 0) \in N!Units
    /\ Pair(b, N!Value("Compound", js)) \in Payloads

\* A compound is TAG_End, or a tag, a name, a payload and the rest of it.
LEMMA CompoundIs ==
  ASSUME N!PayloadsAssumption, NEW a \in Seq(N!Units), NEW ks \in Seq(N!Kids),
         Pair(a, N!Value("Compound", ks)) \in Payloads
  PROVE  IF ks = <<>> THEN a = <<N!U("tag", "End", 0)>>
         ELSE \E k, p, js, b : Fields(a, ks, k, p, js, b)
<1>1. CASE ks = <<>>
  <2>1. N!WrittenAs(a, N!Value("Compound", ks))
    BY PayloadIs DEF Pair
  <2> QED BY <1>1, <2>1 DEF N!WrittenAs, N!Value, N!Leaves
<1>2. CASE ks # <<>>
  <2>1. PICK k, p, js, r : Split("Compound", a, ks, k, p, js, r)
    BY <1>2, TheRest
  <2>2. /\ p.units \in Seq(N!Units) /\ r.units \in Seq(N!Units) /\ r = Pair(r.units, r.tree)
        /\ p.tree.type \in N!Types
    BY <2>1, PayloadIs DEF Split
  <2>3. N!U("tag", p.tree.type, 0) \in N!Units /\ N!U("name", k.name, 0) \in N!Units
    BY <2>1, <2>2 DEF N!U, N!Units, Split, N!Kids, N!TagTypes
  <2> PICK x, y, c, b : x = N!U("tag", p.tree.type, 0) /\ y = N!U("name", k.name, 0)
              /\ c = p.units /\ b = r.units
    OBVIOUS
  <2>4. (<<x, y>> \o c) \o b = <<x>> \o (<<y>> \o (c \o b))
    <3>1. x \in N!Units /\ y \in N!Units /\ c \in Seq(N!Units) /\ b \in Seq(N!Units)
      BY <2>2, <2>3
    <3> QED BY ONLY <3>1, JoinsTwo
  <2> QED BY <1>2, <2>1, <2>2, <2>3, <2>4 DEF Split, Fields
<1> QED BY <1>1, <1>2

Elements(h, a, ks, k, p, js, b, g) ==
    /\ k \in N!Kids /\ p \in Payloads /\ js \in Seq(N!Kids) /\ b \in Seq(N!Units) /\ g \in N!Units
    /\ ks = <<k>> \o js /\ Len(js) = Len(ks) - 1 /\ p.tree = k.value
    /\ k.name = "" /\ p.tree.type = h.of /\ h.n = Len(ks)
    /\ a = p.units \o b
    /\ g.of = h.of /\ Pair(<<g>> \o b, N!Value("List", js)) \in Payloads
ListOf(u, ks, h, a) ==
    /\ h \in N!Units /\ a \in Seq(N!Units) /\ u = <<h>> \o a
    /\ h.is = "head" /\ h.of \in N!TagTypes /\ h.n >= 0
    /\ IF ks = <<>> THEN a = <<>> /\ (h.n = 0 \/ h.of = "End")
       ELSE h.of # "End" /\ \E k, p, js, b, g : Elements(h, a, ks, k, p, js, b, g)

\* A list is a head and its elements; without the first, it is a list as well.
LEMMA ListIs ==
  ASSUME N!PayloadsAssumption, NEW u \in Seq(N!Units), NEW ks \in Seq(N!Kids),
         Pair(u, N!Value("List", ks)) \in Payloads
  PROVE  \E h, a : ListOf(u, ks, h, a)
<1>1. CASE ks = <<>>
  <2>1. N!WrittenAs(u, N!Value("List", ks))
    BY PayloadIs DEF Pair
  <2>2. /\ Len(u) = 1 /\ u[1].is = "head" /\ u[1].of \in N!TagTypes
        /\ u[1].n = 0 \/ (u[1].of = "End" /\ u[1].n >= 0)
    BY <1>1, <2>1 DEF N!WrittenAs, N!Value, N!Leaves
  <2> PICK h : h = u[1]
    OBVIOUS
  <2>3. h \in N!Units /\ u = <<h>>
    BY <2>2, IsOne
  <2>4. <<h>> \in Seq(N!Units)
    BY <2>3, OneUnit
  <2>5. <<>> \in Seq(N!Units) /\ <<h>> \o <<>> = <<h>>
    BY ONLY <2>4, EmptySeq, ConcatEmptySeq
  <2>6. ListOf(u, ks, h, <<>>)
    <3>1. h.is = "head" /\ h.of \in N!TagTypes /\ h.n >= 0 /\ (h.n = 0 \/ h.of = "End")
      BY <2>2
    <3> QED BY <1>1, <2>3, <2>5, <3>1 DEF ListOf
  <2> QED BY <2>6
<1>2. CASE ks # <<>>
  <2>1. PICK k, p, js, r : Split("List", u, ks, k, p, js, r)
    BY <1>2, TheRest
  <2>2. /\ p.units \in Seq(N!Units) /\ r.units \in Seq(N!Units) /\ r = Pair(r.units, r.tree)
        /\ p.tree.type \in N!Types
    BY <2>1, PayloadIs DEF Split
  <2> PICK b, g, h : b = Tail(r.units) /\ g = Head(r.units) /\ h = N!U("head", p.tree.type, Len(ks))
    OBVIOUS
  <2>3. Len(ks) \in Nat
    BY LenProperties
  <2>4. h \in N!Units /\ h.is = "head" /\ h.of = p.tree.type /\ h.n = Len(ks)
    BY <2>2, <2>3 DEF N!U, N!Units, N!TagTypes
  <2>5. g \in N!Units /\ b \in Seq(N!Units) /\ r.units = <<g>> \o b /\ g.of = h.of
    <3> PICK v : v = r.units
      OBVIOUS
    <3>1. v \in Seq(N!Units) /\ v # <<>>
      BY <2>1, <2>2 DEF Split
    <3>2. Head(v) \in N!Units /\ Tail(v) \in Seq(N!Units) /\ v = <<Head(v)>> \o Tail(v)
      BY ONLY <3>1, HeadAndTail
    <3>3. g = N!U("head", p.tree.type, Len(ks) - 1)
      BY <2>1 DEF Split
    <3>4. g.of = p.tree.type
      BY <3>3 DEF N!U
    <3> QED BY <2>4, <3>2, <3>4
  <2> PICK c : c = p.units
    OBVIOUS
  <2>6. (<<h>> \o c) \o b = <<h>> \o (c \o b)
    <3>1. h \in N!Units /\ c \in Seq(N!Units) /\ b \in Seq(N!Units)
      BY <2>2, <2>4, <2>5
    <3> QED BY ONLY <3>1, JoinsOne
  <2> PICK a : a = c \o b
    OBVIOUS
  <2>7. a \in Seq(N!Units)
    <3>1. c \in Seq(N!Units) /\ b \in Seq(N!Units)
      BY <2>2, <2>5
    <3>2. c \o b \in Seq(N!Units)
      BY ONLY <3>1, ConcatProperties
    <3> QED BY <3>2
  <2>8. Elements(h, a, ks, k, p, js, b, g)
    BY <2>1, <2>2, <2>4, <2>5 DEF Elements, Split
  <2>9. u = <<h>> \o a
    BY <2>1, <2>6 DEF Split
  <2>10. h.of # "End" /\ h.of \in N!TagTypes
    BY <2>2, <2>4 DEF N!TagTypes, N!Types, N!Leaves
  <2>11. ListOf(u, ks, h, a)
    BY <1>2, <2>3, <2>4, <2>7, <2>8, <2>9, <2>10 DEF ListOf
  <2> QED BY <2>11
<1> QED BY <1>1, <1>2

\* What precedes a sequence of units settles both.
LEMMA Cancel ==
  ASSUME NEW h \in N!Units, NEW g \in N!Units, NEW a \in Seq(N!Units), NEW b \in Seq(N!Units),
         <<h>> \o a = <<g>> \o b
  PROVE  h = g /\ a = b
<1> PICK s : s = <<h>> \o a
  OBVIOUS
<1>1. s \in Seq(N!Units) /\ Len(s) = 1 + Len(a) /\ s[1] = h /\ \A i \in 1..Len(a) : s[i + 1] = a[i]
  BY ConsIs
<1>2. Len(s) = 1 + Len(b) /\ s[1] = g /\ \A i \in 1..Len(b) : s[i + 1] = b[i]
  BY ConsIs
<1>3. Len(a) \in Nat /\ Len(b) \in Nat
  BY LenProperties
<1>4. Len(a) = Len(b) /\ \A i \in 1..Len(a) : a[i] = b[i]
  BY <1>1, <1>2, <1>3
<1>5. a = b
  BY <1>4, SeqEqual
<1> QED BY <1>1, <1>2, <1>5

\* After the first of the units to come, the others are to come.
LEMMA Took ==
  ASSUME NEW d, Len(d) \in Nat, NEW q \in Nat, NEW x \in N!Units, NEW c \in Seq(N!Units),
         Remains(d, q, <<x>> \o c)
  PROVE  q < Len(d) /\ d[q + 1] = x /\ Remains(d, q + 1, c)
<1> PICK b : b = <<x>> \o c
  OBVIOUS
<1>1. b \in Seq(N!Units) /\ Len(b) = 1 + Len(c) /\ b[1] = x /\ \A i \in 1..Len(c) : b[i + 1] = c[i]
  BY ConsIs
<1>2. q + Len(b) = Len(d) /\ \A i \in 1..Len(b) : b[i] = d[q + i]
  BY DEF Remains
<1>3. Len(c) \in Nat
  BY LenProperties
<1>4. d[q + 1] = x /\ q + 1 + Len(c) = Len(d)
  BY <1>1, <1>2, <1>3
<1>5. ASSUME NEW i \in 1..Len(c) PROVE c[i] = d[q + 1 + i]
  <2>1. i + 1 \in 1..Len(b) /\ q + (i + 1) = q + 1 + i
    BY <1>1, <1>3
  <2> QED BY <1>1, <1>2, <2>1
<1> QED BY <1>3, <1>4, <1>5 DEF Remains

\* A unit that is to come is there as it was written, or it is not there at all.
LEMMA NextIs ==
  ASSUME NEW m, There(input, m), n_pos \in 0..m, Len(Doc) \in Nat, input.units \in Seq(N!Units),
         NEW x \in N!Units, NEW c \in Seq(N!Units), Remains(Doc, n_pos, <<x>> \o c), x.is # "cut"
  PROVE  /\ N!NotThere => ~input.whole /\ ((input.units = <<>>) <=> (n_pos = 0))
         /\ ~N!NotThere => N!Unit = x /\ n_pos + 1 \in 0..m /\ Remains(Doc, n_pos + 1, c)
<1> USE DEF Doc
<1>1. m \in 0..Len(Doc) /\ m \in Nat /\ n_pos \in Nat
  BY DEF There
<1>2. n_pos < Len(Doc) /\ Doc[n_pos + 1] = x /\ Remains(Doc, n_pos + 1, c)
  BY <1>1, Took
<1>3. m <= Len(input.units) /\ \A i \in 1..m : input.units[i] = Doc[i]
  BY DEF There, N!Begins
<1>4. CASE n_pos < m
  <2>1. n_pos + 1 \in 1..m /\ N!Unit = x /\ n_pos < Len(input.units)
    BY <1>1, <1>2, <1>3, <1>4 DEF N!Unit
  <2>2. ~N!NotThere
    BY <2>1 DEF N!NotThere
  <2> QED BY <1>2, <2>1, <2>2
<1>5. CASE n_pos = m
  <2>1. /\ ~input.whole
        /\ \/ Len(input.units) = m
           \/ m > 0 /\ Len(input.units) = m + 1 /\ input.units[m + 1].is = "cut"
    BY <1>2, <1>5 DEF There
  <2>2. N!NotThere
    BY <1>5, <2>1 DEF N!NotThere, N!Unit
  <2>3. (input.units = <<>>) <=> (n_pos = 0)
    <3>1. n_pos = 0 <=> Len(input.units) = 0
      BY <1>1, <1>5, <2>1
    <3> QED BY <3>1, EmptySeq
  <2> QED BY <2>1, <2>2, <2>3
<1> QED BY <1>1, <1>4, <1>5

\* The innermost call, and the others.
LEMMA Innermost ==
  ASSUME NEW S, NEW s \in Seq(S), s # <<>>
  PROVE  N!Last(s) \in S /\ N!Front(s) \in Seq(S) /\ Len(s) \in Nat /\ Len(s) > 0
<1>1. Len(s) \in Nat /\ Len(s) > 0 /\ Len(s) \in 1..Len(s)
  BY LenProperties, EmptySeq
<1>2. SubSeq(s, 1, Len(s) - 1) \in Seq(S)
  <2>1. \A i \in 1 .. Len(s) - 1 : s[i] \in S
    BY <1>1, ElementOfSeq
  <2> QED BY <1>1, <2>1, SubSeqProperties
<1>3. s[Len(s)] \in S
  BY <1>1, ElementOfSeq
<1> QED BY <1>1, <1>2, <1>3 DEF N!Last, N!Front

\* A call that is replaced leaves the others as they are.
LEMMA Replaced ==
  ASSUME NEW s \in Seq(Calls), s # <<>>, NEW x \in Calls, NEW t, t = [s EXCEPT ![Len(s)] = x]
  PROVE  t \in Seq(Calls) /\ t # <<>> /\ N!Last(t) = x /\ N!Front(t) = N!Front(s)
<1>1. Len(s) \in Nat /\ Len(s) > 0 /\ Len(s) \in 1..Len(s)
  BY Innermost
<1>2. t \in Seq(Calls) /\ Len(t) = Len(s) /\ \A i \in 1..Len(s) :
         t[i] = IF i = Len(s) THEN x ELSE s[i]
  BY <1>1, ExceptSeq
<1>3. t # <<>> /\ N!Last(t) = x
  BY <1>1, <1>2, EmptySeq DEF N!Last
<1>4. N!Front(t) = N!Front(s)
  <2>1. \A i \in 1 .. Len(s) - 1 : s[i] \in Calls /\ t[i] \in Calls /\ t[i] = s[i]
    BY ONLY <1>1, <1>2, s \in Seq(Calls), ElementOfSeq
  <2> PICK n, f, g : n = Len(s) - 1 /\ f = SubSeq(s, 1, n) /\ g = SubSeq(t, 1, n)
    OBVIOUS
  <2>2. f \in Seq(Calls) /\ Len(f) = n /\ \A i \in 1..n : f[i] = s[i]
    BY <1>1, <2>1, SubSeqProperties
  <2>3. g \in Seq(Calls) /\ Len(g) = n /\ \A i \in 1..n : g[i] = t[i]
    BY <1>1, <1>2, <2>1, SubSeqProperties
  <2>4. f = g
    BY <2>1, <2>2, <2>3, SeqEqual
  <2> QED BY <1>2, <2>4 DEF N!Front
<1> QED BY <1>2, <1>3, <1>4

\* A call that is added is the innermost, and the others are those before it.
LEMMA Added ==
  ASSUME NEW S, NEW s \in Seq(S), NEW x \in S, NEW t, t = Append(s, x)
  PROVE  t \in Seq(S) /\ t # <<>> /\ N!Last(t) = x /\ N!Front(t) = s
<1>1. /\ t \in Seq(S) /\ t # <<>> /\ Len(t) = Len(s) + 1
      /\ \A i \in 1..Len(s) : t[i] = s[i]
      /\ t[Len(s) + 1] = x /\ Len(s) \in Nat
  BY AppendProperties, LenProperties
<1>2. N!Last(t) = x
  BY <1>1 DEF N!Last
<1>3. N!Front(t) = s
  <2>1. \A i \in 1..Len(s) : t[i] \in S
    BY <1>1, ElementOfSeq
  <2> PICK g : g = SubSeq(t, 1, Len(s))
    OBVIOUS
  <2>2. g \in Seq(S) /\ Len(g) = Len(s) /\ \A i \in 1..Len(s) : g[i] = t[i]
    BY <1>1, <2>1, SubSeqProperties
  <2>3. g = s
    BY <1>1, <2>2, SeqEqual
  <2>4. (Len(s) + 1) - 1 = Len(s)
    BY <1>1
  <2> QED BY <1>1, <2>3, <2>4 DEF N!Front
<1> QED BY <1>1, <1>2, <1>3

\* The kids of a call and the next one, and those after it.
LEMMA NextKid ==
  ASSUME NEW S, NEW s \in Seq(S), NEW x \in S, NEW t \in Seq(S)
  PROVE  Append(s, x) \in Seq(S) /\ Append(s, x) \o t = s \o (<<x>> \o t)
<1>1. <<x>> \in Seq(S) /\ s \in Seq(S) /\ t \in Seq(S)
  BY OneUnit
<1>2. Append(s, x) = s \o <<x>> /\ Append(s, x) \in Seq(S)
  BY AppendIsConcat, AppendProperties
<1>3. (s \o <<x>>) \o t = s \o (<<x>> \o t)
  BY ONLY <1>1, ConcatAssociative
<1> QED BY <1>2, <1>3

\* A value that calls are about to read may be told to them.
LEMMA Extends ==
  ASSUME NEW G, NEW tree, Leads(G, tree), NEW calls \in Seq(Calls), calls # <<>>,
         NEW b \in Seq(N!Units), NEW c \in Seq(N!Units), NEW js \in Seq(N!Kids), NEW k \in N!Kids,
         Rests(N!Last(calls), b, js), Told(G, calls, c, N!Last(calls).kids \o (<<k>> \o js))
  PROVE  Leads(G \cup {<<calls, b \o c, k.name, k.value>>}, tree)
<1> DEFINE e == <<calls, b \o c, k.name, k.value>>
           H == G \cup {e}
<1>1. b \o c \in Seq(N!Units)
  <2>1. b \in Seq(N!Units) /\ c \in Seq(N!Units)
    OBVIOUS
  <2> QED BY ONLY <2>1, ConcatProperties
<1>2. k.name \in N!Names /\ k.value \in N!Values /\ k = N!Kid(k.name, k.value)
  BY DEF N!Kids, N!Kid
<1>3. H \subseteq Seq(Calls) \X Seq(N!Units) \X N!Names \X N!Values
  <2>1. e \in Seq(Calls) \X Seq(N!Units) \X N!Names \X N!Values
    BY <1>1, <1>2
  <2>2. G \subseteq Seq(Calls) \X Seq(N!Units) \X N!Names \X N!Values
    BY DEF Leads
  <2> HIDE DEF e
  <2> QED BY <2>1, <2>2
<1>4. ASSUME NEW d, NEW f, NEW nm, NEW w, <<d, f, nm, w>> \in H
      PROVE  IF d = <<>> THEN f = <<>> /\ w = tree ELSE Goes(H, d, f, nm, w)
  <2>1. CASE <<d, f, nm, w>> \in G
    <3>1. IF d = <<>> THEN f = <<>> /\ w = tree ELSE Goes(G, d, f, nm, w)
      BY <2>1 DEF Leads
    <3>2. Goes(G, d, f, nm, w) => Goes(H, d, f, nm, w)
      BY DEF Goes, Told
    <3> QED BY <3>1, <3>2
  <2>2. CASE <<d, f, nm, w>> = e
    <3>1. d = calls /\ f = b \o c /\ nm = k.name /\ w = k.value
      BY <2>2
    <3>2. Told(H, calls, c, N!Last(calls).kids \o (<<N!Kid(nm, w)>> \o js))
      BY <1>2, <3>1 DEF Told
    <3>3. Goes(H, calls, b \o c, nm, w)
      BY <3>2 DEF Goes
    <3> QED BY <3>1, <3>3
  <2> QED BY <1>4, <2>1, <2>2
<1> QED BY <1>3, <1>4 DEF Leads

\* What is known of a document from its assumptions.
LEMMA DocIs ==
  ASSUME N!PayloadsAssumption, N!InputsAssumption, input \in Inputs, N!IsDocument
  PROVE  /\ input.units \in Seq(N!Units) /\ input.payload \in Payloads
         /\ input.payload.tree.type = "Compound" /\ Len(Doc) \in Nat
         /\ input.payload.units \in Seq(N!Units)
         /\ Remains(Doc, 0, <<N!U("tag", "Compound", 0)>> \o (<<N!U("name", "", 0)>> \o input.payload.units))
         /\ N!U("tag", "Compound", 0) \in N!Units /\ N!U("name", "", 0) \in N!Units
         /\ \E m : There(input, m) /\ 0 \in 0..m
<1>1. /\ input.units \in Seq(N!Units) /\ input.payload \in Payloads
            /\ input.payload.tree.type = "Compound"
      /\ IF input.whole THEN N!Begins(input.units, Doc, Len(Doc)) ELSE N!PartOf(input.units, Doc)
  BY DEF N!InputsAssumption, N!IsDocument, Doc
<1>2. input.payload.units \in Seq(N!Units)
  BY <1>1, PayloadIs
<1> PICK x, y, s : x = N!U("tag", "Compound", 0) /\ y = N!U("name", "", 0)
            /\ s = input.payload.units
  OBVIOUS
<1>3. x \in N!Units /\ y \in N!Units
  <2>1. x = N!U("tag", "Compound", 0) /\ y = N!U("name", "", 0)
    OBVIOUS
  <2>2. "Compound" \in N!TagTypes \cup N!Names /\ "" \in N!TagTypes \cup N!Names
    BY ONLY DEF N!TagTypes, N!Types, N!Names
  <2>3. 0 \in Int
    BY ONLY 0 = 0
  <2> QED BY ONLY <2>1, <2>2, <2>3 DEF N!U, N!Units
<1>4. Doc = <<x>> \o (<<y>> \o s) /\ Doc \in Seq(N!Units)
  <2>1. Doc = <<x, y>> \o s
    BY DEF Doc, N!Document
  <2>2. <<x, y>> = <<x>> \o <<y>> /\ <<x>> \in Seq(N!Units) /\ <<y>> \in Seq(N!Units)
           /\ s \in Seq(N!Units)
    BY <1>2, <1>3, TwoUnits, OneUnit
  <2>3. (<<x>> \o <<y>>) \o s = <<x>> \o (<<y>> \o s)
    BY ONLY <2>2, ConcatAssociative
  <2>4. <<y>> \o s \in Seq(N!Units)
    BY ONLY <2>2, ConcatProperties
  <2>5. <<x>> \o (<<y>> \o s) \in Seq(N!Units)
    BY ONLY <2>2, <2>4, ConcatProperties
  <2> QED BY <2>1, <2>2, <2>3, <2>5
<1> PICK d : d = Doc
  OBVIOUS
<1>5. Len(d) \in Nat
  BY <1>4, LenProperties
<1>6. Remains(d, 0, d)
  <2>1. \A i \in 1..Len(d) : 0 + i = i
    BY ONLY <1>5
  <2>2. \A i \in 1..Len(d) : d[i] = d[0 + i]
    BY <2>1
  <2>3. 0 + Len(d) = Len(d)
    BY ONLY <1>5
  <2> QED BY <1>4, <2>2, <2>3 DEF Remains
<1>7. \E m : There(input, m) /\ 0 \in 0..m
  <2>1. CASE input.whole
    <3>1. Len(d) \in 0..Len(d) /\ 0 \in 0..Len(d)
      BY ONLY <1>5
    <3>2. N!Begins(input.units, d, Len(d)) /\ d = N!Document(input.payload)
      BY <1>1, <2>1 DEF Doc
    <3>3. There(input, Len(d))
      BY <2>1, <3>1, <3>2 DEF There
    <3> QED BY <3>1, <3>3
  <2>2. CASE ~input.whole
    <3>1. PICK n \in 0 .. (Len(d) - 1) :
            /\ N!Begins(input.units, d, n)
            /\ \/ Len(input.units) = n
               \/ n > 0 /\ Len(input.units) = n + 1 /\ input.units[n + 1].is = "cut"
      BY <1>1, <2>2 DEF N!PartOf
    <3>2. n \in 0..Len(d) /\ n < Len(d) /\ 0 \in 0..n
      BY ONLY <1>5, n \in 0 .. (Len(d) - 1)
    <3>3. d = N!Document(input.payload)
      BY DEF Doc
    <3>4. There(input, n)
      BY <2>2, <3>1, <3>2, <3>3 DEF There
    <3> QED BY <3>2, <3>4
  <2> QED BY <2>1, <2>2
<1> QED BY <1>1, <1>2, <1>3, <1>4, <1>5, <1>6, <1>7

\* The reader starts at the root of a document.
LEMMA DocInit ==
  ASSUME N!PayloadsAssumption, N!InputsAssumption, N!Init
  PROVE  NbtInv
<1>1. input \in Inputs /\ n_pos = 0 /\ n_pc = "root" /\ stack = <<>>
  BY DEF N!Init
<1>2. ASSUME N!IsDocument PROVE DocInv
  <2>1. \E m : There(input, m) /\ n_pos \in 0..m
    BY <1>1, <1>2, DocIs
  <2>2. stack \in Seq(Calls)
    BY <1>1, EmptySeq
  <2>3. AtRoot
    BY <1>1 DEF AtRoot
  <2> QED BY <2>1, <2>2, <2>3 DEF DocInv
<1> QED BY <1>1, <1>2 DEF NbtInv

\* Where a call stands that has been told a value, and what the reader does then.
LEMMA Returns ==
  ASSUME NEW G, Leads(G, input.payload.tree), NEW calls \in Seq(Calls), NEW b, NEW nm, NEW w,
         <<calls, b, nm, w>> \in G, Remains(Doc, n_pos', b), n_pos' > 0, n_pos' \in Nat,
         Len(Doc) \in Nat, input' = input, N!Return(calls, nm, w)
  PROVE  stack' \in Seq(Calls) /\ (Inside \/ Finished)'
<1>1. <<calls, b, nm, w>> \in Seq(Calls) \X Seq(N!Units) \X N!Names \X N!Values
  BY DEF Leads
<1>2. b \in Seq(N!Units) /\ nm \in N!Names /\ w \in N!Values
  BY <1>1
<1>3. Doc' = Doc /\ input'.payload.tree = input.payload.tree
  BY DEF Doc
<1>4. IF calls = <<>> THEN b = <<>> /\ w = input.payload.tree ELSE Goes(G, calls, b, nm, w)
  BY DEF Leads
<1>5. CASE calls = <<>>
  <2>1. n_result' = w /\ n_pc' = "ok" /\ stack' = calls
    BY <1>5 DEF N!Return
  <2>2. n_pos' + Len(<<>>) = Len(Doc) /\ Len(<<>>) = 0
    BY <1>4, <1>5 DEF Remains
  <2>3. n_pos' = Len(Doc)
    BY <2>2
  <2>4. Finished'
    BY <1>3, <1>4, <1>5, <2>1, <2>3 DEF Finished
  <2> QED BY <2>1, <2>4
<1>6. CASE calls # <<>>
  <2>1. /\ stack' = [calls EXCEPT ![Len(calls)].kids = Append(@, N!Kid(nm, w))]
        /\ n_pc' = "body"
    BY <1>6 DEF N!Return
  <2>2. PICK a \in Seq(N!Units), c \in Seq(N!Units), ks \in Seq(N!Kids) :
           /\ b = a \o c /\ Rests(N!Last(calls), a, ks)
           /\ Told(G, calls, c, N!Last(calls).kids \o (<<N!Kid(nm, w)>> \o ks))
    BY <1>4, <1>6 DEF Goes
  <2>3. N!Last(calls) \in Calls
    BY <1>6, Innermost
  <2> PICK k, old : k = N!Kid(nm, w) /\ old = N!Last(calls)
    OBVIOUS
  <2>4. k \in N!Kids
    BY <1>2 DEF N!Kids, N!Kid
  <2>5. old.kids \in Seq(N!Kids)
    BY <2>3 DEF Calls
  <2>6. Append(old.kids, k) \in Seq(N!Kids) /\ Append(old.kids, k) \o ks = old.kids \o (<<k>> \o ks)
    <3> PICK s : s = old.kids
      OBVIOUS
    <3>1. s \in Seq(N!Kids) /\ k \in N!Kids /\ ks \in Seq(N!Kids)
      BY <2>4, <2>5
    <3>2. Append(s, k) \in Seq(N!Kids) /\ Append(s, k) \o ks = s \o (<<k>> \o ks)
      BY ONLY <3>1, NextKid
    <3> QED BY <3>2
  <2> DEFINE new == [old EXCEPT !.kids = Append(@, k)]
  <2>7. /\ new \in Calls /\ new.kids = Append(old.kids, k) /\ new.type = old.type
        /\ new.name = old.name /\ new.left = old.left /\ new.elem = old.elem
    BY <2>3, <2>6 DEF Calls
  <2>8. stack' = [calls EXCEPT ![Len(calls)] = new]
    BY <2>1, <1>6 DEF N!Last
  <2> HIDE DEF new
  <2>9. stack' \in Seq(Calls) /\ stack' # <<>> /\ N!Last(stack') = new
           /\ N!Front(stack') = N!Front(calls)
    <3>1. calls \in Seq(Calls) /\ calls # <<>> /\ new \in Calls
      BY <1>6, <2>7
    <3> PICK s : s = [calls EXCEPT ![Len(calls)] = new]
      OBVIOUS
    <3>2. s \in Seq(Calls) /\ s # <<>> /\ N!Last(s) = new /\ N!Front(s) = N!Front(calls)
      <4>1. s = [calls EXCEPT ![Len(calls)] = new]
        OBVIOUS
      <4> QED BY ONLY <3>1, <4>1, Replaced
    <3> QED BY <2>8, <3>2
  <2>10. Rests(new, a, ks)
    BY <2>2, <2>7 DEF Rests
  <2>11. Told(G, stack', c, new.kids \o ks)
    BY <2>2, <2>6, <2>7, <2>9 DEF Told
  <2>12. N!Top' = new
    BY <2>9 DEF N!Top
  <2>13. Remains(Doc, n_pos', a \o c)
    BY <2>2
  <2>14. InBody(G)'
    BY <1>3, <2>1, <2>9, <2>10, <2>11, <2>12, <2>13 DEF InBody
  <2>15. Inside'
    BY <1>3, <2>14 DEF Inside
  <2> QED BY <2>9, <2>15
<1> QED BY <1>5, <1>6

\* While a document is read, and after a step of the reader.
Known(m) == /\ input \in Inputs /\ N!IsDocument /\ stack \in Seq(Calls)
            /\ There(input, m) /\ n_pos \in 0..m /\ n_pos > 0
Kept(m) == /\ input' = input /\ stack' \in Seq(Calls) /\ n_pos' \in 0..m
           /\ (Inside \/ Finished)'

\* What is known while a document is read.
LEMMA KnownIs ==
  ASSUME N!PayloadsAssumption, N!InputsAssumption, NEW m, Known(m)
  PROVE  /\ n_pos \in Nat /\ m \in Nat /\ Len(Doc) \in Nat /\ input.units \in Seq(N!Units)
         /\ There(input, m) /\ n_pos \in 0..m /\ stack \in Seq(Calls) /\ n_pos > 0
<1>1. Len(Doc) \in Nat /\ input.units \in Seq(N!Units)
  BY DocIs DEF Known
<1>2. m \in 0..Len(Doc) /\ n_pos \in 0..m
  BY DEF Known, There, Doc
<1>3. m \in Nat /\ n_pos \in Nat
  BY ONLY <1>1, <1>2
<1> QED BY <1>1, <1>2, <1>3 DEF Known

\* Where the next unit is known.
LEMMA Meets ==
  ASSUME N!PayloadsAssumption, N!InputsAssumption, NEW m, Known(m),
         NEW x \in N!Units, NEW c \in Seq(N!Units), Remains(Doc, n_pos, <<x>> \o c), x.is # "cut"
  PROVE  /\ N!NotThere => ~input.whole /\ input.units # <<>>
         /\ ~N!NotThere => N!Unit = x /\ n_pos + 1 \in 0..m /\ n_pos + 1 \in Nat
                           /\ Remains(Doc, n_pos + 1, c)
<1>1. /\ n_pos \in Nat /\ m \in Nat /\ Len(Doc) \in Nat /\ input.units \in Seq(N!Units)
      /\ There(input, m) /\ n_pos \in 0..m /\ n_pos > 0
  BY KnownIs
<1>2. /\ N!NotThere => ~input.whole /\ ((input.units = <<>>) <=> (n_pos = 0))
      /\ ~N!NotThere => N!Unit = x /\ n_pos + 1 \in 0..m /\ Remains(Doc, n_pos + 1, c)
  BY <1>1, NextIs
<1>3. n_pos # 0 /\ n_pos + 1 \in Nat
  BY <1>1
<1> QED BY <1>2, <1>3

\* The next unit is not there: the document is not, as a whole.
LEMMA Stops ==
  ASSUME NEW m, Known(m), N!Incomplete, n_pc # "root",
         N!NotThere => ~input.whole /\ input.units # <<>>
  PROVE  Kept(m)
<1>1. /\ ~input.whole /\ input.units # <<>> /\ n_pc' = "error"
      /\ input' = input /\ n_pos' = n_pos /\ stack' = stack
  BY DEF N!Incomplete, N!Stop
<1>2. Finished'
  BY <1>1 DEF Finished
<1> QED BY <1>1, <1>2 DEF Known, Kept

\* After a tag comes a name.
LEMMA NameStep ==
  ASSUME N!PayloadsAssumption, N!InputsAssumption, NEW m, Known(m),
         NEW G, Leads(G, input.payload.tree), AtName(G), N!Next
  PROVE  Kept(m)
<1>1. PICK x \in N!Units, p \in Payloads, b \in Seq(N!Units) :
        /\ Remains(Doc, n_pos, <<x>> \o (p.units \o b)) /\ x.is = "name"
        /\ p.tree.type = type /\ <<stack, b, x.of, p.tree>> \in G
  BY DEF AtName
<1>2. n_pc = "name"
  BY DEF AtName
<1> PICK c : c = p.units \o b
  OBVIOUS
<1>3. c \in Seq(N!Units)
  <2>1. p.units \in Seq(N!Units) /\ b \in Seq(N!Units)
    BY PayloadIs
  <2>2. p.units \o b \in Seq(N!Units)
    BY ONLY <2>1, ConcatProperties
  <2> QED BY <2>2
<1>4. /\ N!NotThere => ~input.whole /\ input.units # <<>>
      /\ ~N!NotThere => N!Unit = x /\ n_pos + 1 \in 0..m /\ n_pos + 1 \in Nat
                        /\ Remains(Doc, n_pos + 1, c)
  BY <1>1, <1>3, Meets
<1>5. CASE N!Incomplete
  BY <1>2, <1>4, <1>5, Stops
<1>6. CASE N!Name
  <2>1. /\ ~N!NotThere /\ name' = N!Unit.of /\ n_pc' = "payload" /\ n_pos' = n_pos + 1
        /\ input' = input /\ type' = type /\ stack' = stack
    BY <1>6 DEF N!Name, N!Has, N!NotThere, N!Take
  <2>2. Doc' = Doc
    BY <2>1 DEF Doc
  <2>3. Remains(Doc, n_pos', p.units \o b)
    BY <1>4, <2>1
  <2>4. AtPayload(G)'
    BY <1>1, <1>4, <2>1, <2>2, <2>3 DEF AtPayload
  <2>5. n_pos' > 0
    BY <2>1, KnownIs
  <2>6. Inside'
    BY <2>1, <2>4, <2>5 DEF Inside
  <2> QED BY <1>4, <2>1, <2>6 DEF Known, Kept
<1>7. ~(N!BadTag \/ N!Tag \/ N!Leaf \/ N!NegativeArray \/ N!OpenList \/ N!BadList
        \/ N!OpenCompound \/ N!Element \/ N!Close)
  BY <1>2 DEF N!BadTag, N!Tag, N!Leaf, N!NegativeArray, N!OpenList, N!BadList, N!OpenCompound,
              N!Element, N!Close, N!Closing
<1> QED BY <1>5, <1>6, <1>7 DEF N!Next

\* A payload is under way: p, and then the units b.
Payloaded(G, p, b) ==
    /\ Leads(G, input.payload.tree) /\ p \in Payloads /\ b \in Seq(N!Units) /\ n_pc = "payload"
    /\ Remains(Doc, n_pos, p.units \o b)
    /\ p.tree.type = type /\ <<stack, b, name, p.tree>> \in G

\* A leaf is read as it is.
LEMMA LeafStep ==
  ASSUME N!PayloadsAssumption, N!InputsAssumption, NEW m, Known(m),
         NEW G, NEW p, NEW b, Payloaded(G, p, b), type \in N!Leaves, N!Next
  PROVE  Kept(m)
<1>1. /\ Leads(G, input.payload.tree) /\ p \in Payloads /\ b \in Seq(N!Units) /\ n_pc = "payload"
      /\ Remains(Doc, n_pos, p.units \o b) /\ p.tree.type = type /\ <<stack, b, name, p.tree>> \in G
  BY DEF Payloaded
<1>2. PICK x \in N!Units : p.units = <<x>> /\ x.is = "payload" /\ x.n >= 0
  BY <1>1, LeafIs
<1>3. p.tree = N!Value(type, <<>>)
  BY <1>1, LeafIs, PayloadIs
<1>4. /\ N!NotThere => ~input.whole /\ input.units # <<>>
      /\ ~N!NotThere => N!Unit = x /\ n_pos + 1 \in 0..m /\ n_pos + 1 \in Nat
                        /\ Remains(Doc, n_pos + 1, b)
  BY <1>1, <1>2, Meets
<1>5. CASE N!Incomplete
  BY <1>1, <1>4, <1>5, Stops
<1>6. CASE N!Leaf
  <2>1. /\ ~N!NotThere /\ n_pos' = n_pos + 1 /\ input' = input /\ N!Return(stack, name, p.tree)
    BY <1>3, <1>6 DEF N!Leaf, N!Has, N!NotThere, N!Take
  <2>2. n_pos' > 0 /\ n_pos' \in Nat /\ Len(Doc) \in Nat /\ stack \in Seq(Calls)
    BY <2>1, KnownIs
  <2>3. Remains(Doc, n_pos', b)
    BY <1>4, <2>1
  <2>4. stack' \in Seq(Calls) /\ (Inside \/ Finished)'
    BY <1>1, <2>1, <2>2, <2>3, Returns
  <2> QED BY <1>4, <2>1, <2>4 DEF Kept
<1>7. ~N!NegativeArray
  <2>1. N!NegativeArray => ~N!NotThere /\ N!Unit.n < 0
    BY DEF N!NegativeArray, N!Has, N!NotThere
  <2>2. ~(x.n < 0)
    BY <1>2 DEF N!Units
  <2> QED BY <1>4, <2>1, <2>2
<1>8. ~(N!BadTag \/ N!Tag \/ N!Name \/ N!OpenList \/ N!BadList \/ N!OpenCompound \/ N!Element
        \/ N!Close)
  BY <1>1 DEF N!BadTag, N!Tag, N!Name, N!OpenList, N!BadList, N!OpenCompound, N!Element, N!Close,
              N!Closing, N!Leaves
<1> QED BY <1>5, <1>6, <1>7, <1>8 DEF N!Next

\* A call of read_payload begins.
LEMMA Opens ==
  ASSUME N!PayloadsAssumption, NEW G, Leads(G, input.payload.tree), NEW c, NEW a \in Seq(N!Units),
         NEW b, NEW p \in Payloads, <<stack, b, name, p.tree>> \in G, stack \in Seq(Calls),
         c \in Calls, c.kids = <<>>, c.name = name, c.type = p.tree.type, Rests(c, a, p.tree.kids),
         stack' = Append(stack, c), n_pc' = "body", input' = input,
         Remains(Doc, n_pos', a \o b), n_pos' > 0
  PROVE  stack' \in Seq(Calls) /\ Inside'
<1>1. stack' \in Seq(Calls) /\ stack' # <<>> /\ N!Last(stack') = c /\ N!Front(stack') = stack
  <2> PICK t : t = stack'
    OBVIOUS
  <2>1. t = Append(stack, c) /\ stack \in Seq(Calls) /\ c \in Calls
    OBVIOUS
  <2>2. t \in Seq(Calls) /\ t # <<>> /\ N!Last(t) = c /\ N!Front(t) = stack
    BY ONLY <2>1, Added
  <2> QED BY <2>2
<1>2. b \in Seq(N!Units)
  <2>1. <<stack, b, name, p.tree>> \in Seq(Calls) \X Seq(N!Units) \X N!Names \X N!Values
    BY DEF Leads
  <2> QED BY <2>1
<1>3. p.tree.kids \in Seq(N!Kids) /\ N!Value(p.tree.type, p.tree.kids) = p.tree
  BY PayloadIs
<1>4. <<>> \o p.tree.kids = p.tree.kids
  BY <1>3, ConcatEmptySeq
<1>5. Told(G, stack', b, c.kids \o p.tree.kids)
  BY <1>1, <1>3, <1>4 DEF Told
<1>6. N!Top' = c /\ Doc' = Doc
  BY <1>1 DEF N!Top, Doc
<1>7. InBody(G)'
  BY <1>1, <1>2, <1>3, <1>5, <1>6 DEF InBody
<1>8. Inside'
  BY <1>7 DEF Inside
<1> QED BY <1>1, <1>8

\* A compound is opened.
LEMMA CompoundStep ==
  ASSUME N!PayloadsAssumption, N!InputsAssumption, NEW m, Known(m),
         NEW G, NEW p, NEW b, Payloaded(G, p, b), type = "Compound", N!Next
  PROVE  Kept(m)
<1>1. /\ Leads(G, input.payload.tree) /\ p \in Payloads /\ b \in Seq(N!Units) /\ n_pc = "payload"
      /\ Remains(Doc, n_pos, p.units \o b) /\ p.tree.type = type /\ <<stack, b, name, p.tree>> \in G
  BY DEF Payloaded
<1>2. N!OpenCompound
  <2>1. "Compound" \notin N!Leaves
    BY DEF N!Leaves
  <2> QED BY <1>1, <2>1 DEF N!Next, N!Incomplete, N!ReadsOn, N!BadTag, N!Tag, N!Name, N!Leaf,
                            N!NegativeArray, N!OpenList,
                         N!BadList, N!Element, N!Close, N!Closing
<1>3. /\ stack' = Append(stack, N!Frame("Compound", "End", 0, name)) /\ n_pc' = "body"
      /\ input' = input /\ n_pos' = n_pos
  BY <1>2 DEF N!OpenCompound
<1> PICK c : c = N!Frame("Compound", "End", 0, name)
  OBVIOUS
<1>4. name \in N!Names
  <2>1. <<stack, b, name, p.tree>> \in Seq(Calls) \X Seq(N!Units) \X N!Names \X N!Values
    BY <1>1 DEF Leads
  <2> QED BY <2>1
<1>5. /\ c.type = "Compound" /\ c.kids = <<>> /\ c.name = name /\ c \in Calls
  <2>1. "End" \in N!TagTypes /\ <<>> \in Seq(N!Kids)
    BY EmptySeq DEF N!TagTypes
  <2> QED BY <1>4, <2>1 DEF N!Frame, Calls
<1>6. p.units \in Seq(N!Units) /\ p.tree.kids \in Seq(N!Kids)
         /\ p = Pair(p.units, N!Value("Compound", p.tree.kids))
  BY <1>1, PayloadIs
<1>7. Rests(c, p.units, p.tree.kids)
  BY <1>1, <1>5, <1>6 DEF Rests, Pair
<1>8. n_pos' > 0 /\ stack \in Seq(Calls) /\ n_pos' \in 0..m
  BY <1>3 DEF Known
<1>9. stack' \in Seq(Calls) /\ Inside'
  BY <1>1, <1>3, <1>5, <1>6, <1>7, <1>8, Opens
<1> QED BY <1>3, <1>8, <1>9 DEF Kept

\* A list is opened, for as many elements as it has.
LEMMA ListStep ==
  ASSUME N!PayloadsAssumption, N!InputsAssumption, NEW m, Known(m),
         NEW G, NEW p, NEW b, Payloaded(G, p, b), type = "List", N!Next
  PROVE  Kept(m)
<1>1. /\ Leads(G, input.payload.tree) /\ p \in Payloads /\ b \in Seq(N!Units) /\ n_pc = "payload"
      /\ Remains(Doc, n_pos, p.units \o b) /\ p.tree.type = type /\ <<stack, b, name, p.tree>> \in G
  BY DEF Payloaded
<1>2. p.units \in Seq(N!Units) /\ p.tree.kids \in Seq(N!Kids)
         /\ p = Pair(p.units, N!Value("List", p.tree.kids))
  BY <1>1, PayloadIs
<1> PICK u, ks : u = p.units /\ ks = p.tree.kids
  OBVIOUS
<1>3. PICK h, a : ListOf(u, ks, h, a)
  BY <1>1, <1>2, ListIs
<1>4. /\ h \in N!Units /\ a \in Seq(N!Units) /\ u = <<h>> \o a
      /\ h.is = "head" /\ h.of \in N!TagTypes /\ h.n >= 0
      /\ IF ks = <<>> THEN h.n = 0 \/ h.of = "End" ELSE h.of # "End" /\ h.n = Len(ks)
  BY <1>3 DEF ListOf, Elements
<1> PICK c : c = a \o b
  OBVIOUS
<1>5. u \o b = <<h>> \o c /\ c \in Seq(N!Units)
  <2>1. (<<h>> \o a) \o b = <<h>> \o (a \o b)
    BY <1>1, <1>4, JoinsOne
  <2>2. a \in Seq(N!Units) /\ b \in Seq(N!Units)
    BY <1>1, <1>4
  <2>3. a \o b \in Seq(N!Units)
    BY ONLY <2>2, ConcatProperties
  <2> QED BY <1>4, <2>1, <2>3
<1>6. /\ N!NotThere => ~input.whole /\ input.units # <<>>
      /\ ~N!NotThere => N!Unit = h /\ n_pos + 1 \in 0..m /\ n_pos + 1 \in Nat
                        /\ Remains(Doc, n_pos + 1, c)
  <2>1. Remains(Doc, n_pos, <<h>> \o c) /\ h.is # "cut"
    BY <1>1, <1>4, <1>5
  <2> QED BY <1>4, <1>5, <2>1, Meets
<1>7. CASE N!Incomplete
  BY <1>1, <1>6, <1>7, Stops
<1>8. CASE N!OpenList
  <2> DEFINE left == IF h.of = "End" THEN 0 ELSE h.n
             f == N!Frame("List", h.of, left, name)
  <2>1. /\ ~N!NotThere /\ n_pos' = n_pos + 1 /\ input' = input /\ n_pc' = "body"
        /\ stack' = Append(stack, f)
    BY <1>6, <1>8 DEF N!OpenList, N!Has, N!NotThere, N!Take
  <2>2. name \in N!Names
    <3>1. <<stack, b, name, p.tree>> \in Seq(Calls) \X Seq(N!Units) \X N!Names \X N!Values
      BY <1>1 DEF Leads
    <3> QED BY <3>1
  <2>3. left \in Nat
    BY <1>4 DEF N!Units
  <2>4. left = Len(ks)
    BY <1>4, EmptySeq
  <2> HIDE DEF left
  <2>5. /\ f.type = "List" /\ f.kids = <<>> /\ f.name = name /\ f.elem = h.of /\ f.left = left
        /\ f \in Calls
    <3>1. <<>> \in Seq(N!Kids)
      BY EmptySeq
    <3> QED BY <1>4, <2>2, <2>3, <3>1 DEF N!Frame, Calls
  <2> HIDE DEF f
  <2>6. Rests(f, a, ks)
    BY <1>1, <1>2, <1>4, <2>4, <2>5 DEF Rests, Pair
  <2>7. n_pos' > 0 /\ stack \in Seq(Calls)
    BY <2>1, KnownIs
  <2>8. stack' \in Seq(Calls) /\ Inside'
    BY <1>1, <1>4, <1>6, <2>1, <2>5, <2>6, <2>7, Opens
  <2> QED BY <1>6, <2>1, <2>8 DEF Kept
<1>9. ~N!BadList
  <2>1. N!BadList => ~N!NotThere /\ (N!Unit.n < 0 \/ N!Unit.of \notin N!TagTypes)
    BY DEF N!BadList, N!Has, N!NotThere
  <2>2. ~(h.n < 0)
    BY <1>4 DEF N!Units
  <2> QED BY <1>4, <1>6, <2>1, <2>2
<1>10. ~(N!BadTag \/ N!Tag \/ N!Name \/ N!Leaf \/ N!NegativeArray \/ N!OpenCompound \/ N!Element
         \/ N!Close)
  <2>1. "List" \notin N!Leaves
    BY DEF N!Leaves
  <2> QED BY <1>1, <2>1 DEF N!BadTag, N!Tag, N!Name, N!Leaf, N!NegativeArray, N!OpenCompound,
                            N!Element, N!Close, N!Closing
<1> QED BY <1>7, <1>8, <1>9, <1>10 DEF N!Next

\* A call is under way: what is left of its container, and then the units c.
Bodied(G, a, c, ks) ==
    /\ Leads(G, input.payload.tree) /\ n_pc = "body" /\ stack # <<>>
    /\ a \in Seq(N!Units) /\ c \in Seq(N!Units) /\ ks \in Seq(N!Kids)
    /\ Remains(Doc, n_pos, a \o c) /\ Rests(N!Top, a, ks) /\ Told(G, stack, c, N!Top.kids \o ks)

\* A container without any more kids is told to the call around it.
LEMMA Closes ==
  ASSUME N!PayloadsAssumption, N!InputsAssumption, NEW m, Known(m),
         NEW G, NEW a, NEW c, NEW ks, Bodied(G, a, c, ks), ks = <<>>, N!Close,
         Remains(Doc, n_pos', c), n_pos' \in 0..m, n_pos' > 0
  PROVE  Kept(m)
<1>1. stack \in Seq(Calls) /\ stack # <<>> /\ Len(Doc) \in Nat /\ m \in Nat
  BY KnownIs DEF Bodied
<1>2. N!Top \in Calls /\ N!Front(stack) \in Seq(Calls)
  BY <1>1, Innermost DEF N!Top
<1>3. N!Top.kids \o <<>> = N!Top.kids
  <2>1. N!Top.kids \in Seq(N!Kids)
    BY <1>2 DEF Calls
  <2> QED BY <2>1, ConcatEmptySeq
<1>4. <<N!Front(stack), c, N!Top.name, N!Value(N!Top.type, N!Top.kids)>> \in G
  BY <1>3 DEF Bodied, Told, N!Top
<1>5. input' = input /\ N!Return(N!Front(stack), N!Top.name, N!Value(N!Top.type, N!Top.kids))
  BY DEF N!Close
<1>6. n_pos' \in Nat
  BY <1>1
<1>7. Leads(G, input.payload.tree)
  BY DEF Bodied
<1>8. stack' \in Seq(Calls) /\ (Inside \/ Finished)'
  BY <1>1, <1>2, <1>4, <1>5, <1>6, <1>7, Returns
<1> QED BY <1>5, <1>8 DEF Kept

\* In a compound, TAG_End or the tag of the next kid comes.
LEMMA FieldStep ==
  ASSUME N!PayloadsAssumption, N!InputsAssumption, NEW m, Known(m),
         NEW G, NEW a, NEW c, NEW ks, Bodied(G, a, c, ks), N!Top.type = "Compound", N!Next
  PROVE  Kept(m)
<1>1. /\ Leads(G, input.payload.tree) /\ n_pc = "body" /\ stack # <<>>
      /\ a \in Seq(N!Units) /\ c \in Seq(N!Units) /\ ks \in Seq(N!Kids)
      /\ Remains(Doc, n_pos, a \o c) /\ Rests(N!Top, a, ks) /\ Told(G, stack, c, N!Top.kids \o ks)
  BY DEF Bodied
<1>2. Pair(a, N!Value("Compound", ks)) \in Payloads
  BY <1>1 DEF Rests, Pair
<1>3. IF ks = <<>> THEN a = <<N!U("tag", "End", 0)>>
      ELSE \E k, p, js, b : Fields(a, ks, k, p, js, b)
  BY <1>1, <1>2, CompoundIs
<1>4. ~(N!Name \/ N!Leaf \/ N!NegativeArray \/ N!OpenList \/ N!BadList \/ N!OpenCompound
        \/ N!Element)
  BY <1>1 DEF N!Name, N!Leaf, N!NegativeArray, N!OpenList, N!BadList, N!OpenCompound, N!Element
<1>5. CASE ks = <<>>
  <2> PICK x : x = N!U("tag", "End", 0)
    OBVIOUS
  <2>1. a = <<x>> /\ x.is = "tag" /\ x.of = "End"
    BY <1>3, <1>5 DEF N!U
  <2>2. x \in N!Units
    <3>1. x = <<x>>[1] /\ Len(<<x>>) = 1
      OBVIOUS
    <3>2. a[1] = x /\ Len(a) = 1
      BY <2>1, <3>1
    <3>3. a[1] \in N!Units
      BY <1>1, <3>2, IsOne
    <3> QED BY <3>2, <3>3
  <2>3. /\ N!NotThere => ~input.whole /\ input.units # <<>>
        /\ ~N!NotThere => N!Unit = x /\ n_pos + 1 \in 0..m /\ n_pos + 1 \in Nat
                          /\ Remains(Doc, n_pos + 1, c)
    BY <1>1, <2>1, <2>2, Meets
  <2>4. CASE N!Incomplete
    BY <1>1, <2>3, <2>4, Stops
  <2>5. ~N!BadTag /\ ~N!Tag
    <3>1. N!BadTag => ~N!NotThere /\ N!Unit.of \notin N!TagTypes
      BY <1>1 DEF N!BadTag, N!Has, N!NotThere
    <3>2. N!Tag => ~N!NotThere /\ N!Unit.of \in N!Types
      BY <1>1 DEF N!Tag, N!Has, N!NotThere
    <3>3. "End" \in N!TagTypes /\ "End" \notin N!Types
      BY DEF N!TagTypes, N!Types, N!Leaves
    <3> QED BY <2>1, <2>3, <3>1, <3>2, <3>3
  <2>6. CASE N!Close
    <3>1. ~N!NotThere /\ n_pos' = n_pos + 1
      BY <2>6 DEF N!Close, N!Closing, N!Has, N!NotThere, N!Take
    <3>2. Remains(Doc, n_pos', c) /\ n_pos' \in 0..m /\ n_pos' > 0
      BY <2>3, <3>1, KnownIs
    <3> QED BY <1>5, <2>6, <3>2, Closes
  <2> QED BY <1>4, <2>4, <2>5, <2>6 DEF N!Next
<1>6. CASE ks # <<>>
  <2>1. PICK k, p, js, b : Fields(a, ks, k, p, js, b)
    BY <1>3, <1>6
  <2> PICK x, y : x = N!U("tag", p.tree.type, 0) /\ y = N!U("name", k.name, 0)
    OBVIOUS
  <2>2. /\ k \in N!Kids /\ p \in Payloads /\ js \in Seq(N!Kids) /\ b \in Seq(N!Units)
        /\ ks = <<k>> \o js /\ p.tree = k.value
        /\ a = <<x>> \o (<<y>> \o (p.units \o b))
        /\ x \in N!Units /\ y \in N!Units /\ Pair(b, N!Value("Compound", js)) \in Payloads
    BY <2>1 DEF Fields
  <2>3. x.is = "tag" /\ x.of = p.tree.type /\ y.is = "name" /\ y.of = k.name
    BY DEF N!U
  <2>4. p.units \in Seq(N!Units) /\ p.tree.type \in N!Types
    BY <2>2, PayloadIs
  <2> PICK s, d : s = p.units /\ d = <<y>> \o (s \o (b \o c))
    OBVIOUS
  <2>5. a \o c = <<x>> \o d /\ d \in Seq(N!Units)
    <3>1. /\ s \in Seq(N!Units) /\ b \in Seq(N!Units) /\ c \in Seq(N!Units)
          /\ <<x>> \in Seq(N!Units) /\ <<y>> \in Seq(N!Units)
      BY <1>1, <2>2, <2>4, OneUnit
    <3>2. s \o b \in Seq(N!Units) /\ b \o c \in Seq(N!Units)
      BY ONLY <3>1, ConcatProperties
    <3>3. <<y>> \o (s \o b) \in Seq(N!Units) /\ s \o (b \o c) \in Seq(N!Units)
      BY ONLY <3>1, <3>2, ConcatProperties
    <3>4. <<y>> \o (s \o (b \o c)) \in Seq(N!Units)
      BY ONLY <3>1, <3>3, ConcatProperties
    <3>5. (<<x>> \o (<<y>> \o (s \o b))) \o c = <<x>> \o ((<<y>> \o (s \o b)) \o c)
      BY ONLY <3>1, <3>3, ConcatAssociative
    <3>6. (<<y>> \o (s \o b)) \o c = <<y>> \o ((s \o b) \o c)
      BY ONLY <3>1, <3>2, ConcatAssociative
    <3>7. (s \o b) \o c = s \o (b \o c)
      BY ONLY <3>1, ConcatAssociative
    <3> QED BY <2>2, <3>4, <3>5, <3>6, <3>7
  <2>6. /\ N!NotThere => ~input.whole /\ input.units # <<>>
        /\ ~N!NotThere => N!Unit = x /\ n_pos + 1 \in 0..m /\ n_pos + 1 \in Nat
                          /\ Remains(Doc, n_pos + 1, d)
    <3>1. Remains(Doc, n_pos, <<x>> \o d) /\ x.is # "cut"
      BY <1>1, <2>3, <2>5
    <3> QED BY <2>2, <2>5, <3>1, Meets
  <2>7. CASE N!Incomplete
    BY <1>1, <2>6, <2>7, Stops
  <2>8. ~N!BadTag /\ ~N!Close
    <3>1. N!BadTag => ~N!NotThere /\ N!Unit.of \notin N!TagTypes
      BY <1>1 DEF N!BadTag, N!Has, N!NotThere
    <3>2. N!Close => ~N!NotThere /\ N!Unit.of = "End"
      BY DEF N!Close, N!Closing, N!Has, N!NotThere
    <3>3. p.tree.type \in N!TagTypes /\ "End" \notin N!Types
      BY <2>4 DEF N!TagTypes, N!Types, N!Leaves
    <3> QED BY <2>3, <2>4, <2>6, <3>1, <3>2, <3>3
  <2>9. CASE N!Tag
    <3>1. /\ ~N!NotThere /\ type' = N!Unit.of /\ n_pc' = "name" /\ n_pos' = n_pos + 1
          /\ input' = input /\ stack' = stack
      BY <2>9 DEF N!Tag, N!Has, N!NotThere, N!Take
    <3> PICK H : H = G \cup {<<stack, b \o c, k.name, k.value>>}
      OBVIOUS
    <3>2. Leads(H, input.payload.tree)
      <4>1. Rests(N!Last(stack), b, js)
        BY <2>2 DEF Rests, Pair, N!Top
      <4>2. Told(G, stack, c, N!Last(stack).kids \o (<<k>> \o js))
        BY <1>1, <2>2 DEF N!Top
      <4>3. stack \in Seq(Calls)
        BY KnownIs
      <4> QED BY <1>1, <2>2, <4>1, <4>2, <4>3, Extends
    <3>3. b \o c \in Seq(N!Units)
      <4>1. b \in Seq(N!Units) /\ c \in Seq(N!Units)
        BY <1>1, <2>2
      <4> QED BY ONLY <4>1, ConcatProperties
    <3>4. Doc' = Doc
      BY <3>1 DEF Doc
    <3>5. Remains(Doc, n_pos', <<y>> \o (p.units \o (b \o c)))
      BY <2>6, <3>1
    <3>6. p.tree.type = type' /\ <<stack', b \o c, y.of, p.tree>> \in H
      BY <2>2, <2>3, <2>6, <3>1
    <3>7. AtName(H)'
      BY <2>2, <2>3, <3>1, <3>3, <3>4, <3>5, <3>6 DEF AtName
    <3>8. n_pos' > 0 /\ stack \in Seq(Calls)
      BY <3>1, KnownIs
    <3>9. Inside'
      BY <3>1, <3>2, <3>7, <3>8 DEF Inside
    <3> QED BY <2>6, <3>1, <3>8, <3>9 DEF Kept
  <2> QED BY <1>4, <2>7, <2>8, <2>9 DEF N!Next
<1> QED BY <1>5, <1>6

\* A list asks for its next element, or is full.
LEMMA ElementStep ==
  ASSUME N!PayloadsAssumption, N!InputsAssumption, NEW m, Known(m),
         NEW G, NEW a, NEW c, NEW ks, Bodied(G, a, c, ks), N!Top.type = "List", N!Next
  PROVE  Kept(m)
<1>1. /\ Leads(G, input.payload.tree) /\ n_pc = "body" /\ stack # <<>>
      /\ a \in Seq(N!Units) /\ c \in Seq(N!Units) /\ ks \in Seq(N!Kids)
      /\ Remains(Doc, n_pos, a \o c) /\ Rests(N!Top, a, ks) /\ Told(G, stack, c, N!Top.kids \o ks)
  BY DEF Bodied
<1>2. /\ stack \in Seq(Calls) /\ n_pos \in Nat /\ m \in Nat /\ n_pos \in 0..m /\ n_pos > 0
  BY KnownIs
<1>3. N!Top \in Calls
  BY <1>1, <1>2, Innermost DEF N!Top
<1>4. PICK h \in N!Units : /\ h.of = N!Top.elem /\ N!Top.left = Len(ks)
                         /\ Pair(<<h>> \o a, N!Value("List", ks)) \in Payloads
  BY <1>1 DEF Rests, Pair
<1>5. IF ks = <<>> THEN a = <<>>
      ELSE \E k, p, js, b, g : Elements(h, a, ks, k, p, js, b, g)
  <2> PICK u : u = <<h>> \o a
    OBVIOUS
  <2>1. u \in Seq(N!Units)
    BY <1>1, ConsIs
  <2>2. Pair(u, N!Value("List", ks)) \in Payloads
    BY <1>4
  <2>3. PICK h2, a2 : ListOf(u, ks, h2, a2)
    BY <1>1, <2>1, <2>2, ListIs
  <2>4. h2 \in N!Units /\ a2 \in Seq(N!Units) /\ u = <<h2>> \o a2
    BY <2>3 DEF ListOf
  <2>5. h = h2 /\ a = a2
    <3>1. /\ h \in N!Units /\ h2 \in N!Units /\ a \in Seq(N!Units) /\ a2 \in Seq(N!Units)
          /\ <<h>> \o a = <<h2>> \o a2
      BY <1>1, <1>4, <2>4
    <3> QED BY ONLY <3>1, Cancel
  <2> QED BY <2>3, <2>5 DEF ListOf
<1>6. ~(N!Incomplete \/ N!BadTag \/ N!Tag \/ N!Name \/ N!Leaf \/ N!NegativeArray \/ N!OpenList
        \/ N!BadList \/ N!OpenCompound)
  BY <1>1 DEF N!Incomplete, N!ReadsOn, N!BadTag, N!Tag, N!Name, N!Leaf, N!NegativeArray,
              N!OpenList, N!BadList, N!OpenCompound
<1>7. CASE N!Close
  <2>1. n_pos' = n_pos /\ N!Top.left = 0
    BY <1>7 DEF N!Close, N!Closing
  <2>2. ks = <<>>
    BY <1>1, <1>4, <2>1, EmptySeq
  <2>3. a \o c = c
    BY <1>1, <1>5, <2>2, ConcatEmptySeq
  <2>4. Remains(Doc, n_pos', c) /\ n_pos' \in 0..m /\ n_pos' > 0
    BY <1>1, <1>2, <2>1, <2>3
  <2> QED BY <1>7, <2>2, <2>4, Closes
<1>8. CASE N!Element
  <2>1. /\ N!Top.left > 0 /\ stack' = [stack EXCEPT ![Len(stack)].left = @ - 1]
        /\ type' = N!Top.elem /\ name' = "" /\ n_pc' = "payload" /\ input' = input /\ n_pos' = n_pos
    BY <1>8 DEF N!Element
  <2> PICK n : n = N!Top.left
    OBVIOUS
  <2>2. n \in Nat /\ n > 0 /\ n - 1 \in Nat
    <3>1. n \in Nat /\ n > 0
      BY <1>3, <2>1 DEF Calls
    <3> QED BY ONLY <3>1
  <2>3. ks # <<>>
    <3>1. ks = <<>> => Len(ks) = 0
      BY EmptySeq
    <3>2. Len(ks) # 0
      BY <1>4, <2>2
    <3> QED BY <3>1, <3>2
  <2>4. PICK k, p, js, b, g : Elements(h, a, ks, k, p, js, b, g)
    BY <1>5, <2>3
  <2>5. /\ k \in N!Kids /\ p \in Payloads /\ js \in Seq(N!Kids) /\ b \in Seq(N!Units)
              /\ g \in N!Units
        /\ ks = <<k>> \o js /\ Len(js) = Len(ks) - 1 /\ p.tree = k.value
        /\ k.name = "" /\ p.tree.type = h.of /\ a = p.units \o b
        /\ g.of = h.of /\ Pair(<<g>> \o b, N!Value("List", js)) \in Payloads
    BY <2>4 DEF Elements
  <2> DEFINE new == [N!Top EXCEPT !.left = @ - 1]
  <2>6. /\ new \in Calls /\ new.left = Len(js) /\ new.type = "List" /\ new.elem = N!Top.elem
        /\ new.name = N!Top.name /\ new.kids = N!Top.kids
    <3>1. N!Top.left \in Nat /\ N!Top.left - 1 \in Nat
      BY <2>2
    <3>2. new.left = N!Top.left - 1 /\ new.type = N!Top.type /\ new.elem = N!Top.elem
          /\ new.name = N!Top.name /\ new.kids = N!Top.kids
      BY <1>3 DEF Calls
    <3>3. new \in Calls
      BY <1>3, <3>1 DEF Calls
    <3> QED BY <1>4, <2>5, <3>2, <3>3
  <2>7. stack' = [stack EXCEPT ![Len(stack)] = new]
    BY <1>1, <2>1 DEF N!Top, N!Last
  <2> HIDE DEF new
  <2>8. stack' \in Seq(Calls) /\ stack' # <<>> /\ N!Last(stack') = new
           /\ N!Front(stack') = N!Front(stack)
    BY <1>1, <1>2, <2>6, <2>7, Replaced
  <2> PICK calls, H : calls = stack' /\ H = G \cup {<<stack', b \o c, k.name, k.value>>}
    OBVIOUS
  <2>9. Leads(H, input.payload.tree)
    <3>1. Rests(N!Last(calls), b, js)
      BY <2>5, <1>4, <2>6, <2>8 DEF Rests, Pair
    <3>2. Told(G, calls, c, N!Last(calls).kids \o (<<k>> \o js))
      BY <1>1, <2>5, <2>6, <2>8 DEF Told, N!Top
    <3>3. calls \in Seq(Calls) /\ calls # <<>>
      BY <2>8
    <3>4. Leads(G \cup {<<calls, b \o c, k.name, k.value>>}, input.payload.tree)
      BY <1>1, <2>5, <3>1, <3>2, <3>3, Extends
    <3> QED BY <3>4
  <2>10. b \o c \in Seq(N!Units) /\ (p.units \o b) \o c = p.units \o (b \o c)
    <3>1. p.units \in Seq(N!Units) /\ b \in Seq(N!Units) /\ c \in Seq(N!Units)
      BY <1>1, <2>5, PayloadIs
    <3> PICK s : s = p.units
      OBVIOUS
    <3>2. b \o c \in Seq(N!Units)
      BY ONLY <3>1, ConcatProperties
    <3>3. s \in Seq(N!Units) /\ b \in Seq(N!Units) /\ c \in Seq(N!Units)
      BY <3>1
    <3>4. (s \o b) \o c = s \o (b \o c)
      BY ONLY <3>3, ConcatAssociative
    <3> QED BY <3>2, <3>4
  <2>11. Remains(Doc, n_pos', p.units \o (b \o c))
    BY <1>1, <2>1, <2>5, <2>10
  <2>12. p.tree.type = type' /\ <<stack', b \o c, name', p.tree>> \in H
    BY <1>4, <2>1, <2>5
  <2>13. Doc' = Doc
    BY <2>1 DEF Doc
  <2>14. AtPayload(H)'
    BY <2>1, <2>5, <2>10, <2>11, <2>12, <2>13 DEF AtPayload
  <2>15. Inside'
    BY <1>2, <2>1, <2>9, <2>14 DEF Inside
  <2> QED BY <1>2, <2>1, <2>8, <2>15 DEF Kept
<1> QED BY <1>6, <1>7, <1>8 DEF N!Next

\* At the root is the tag that every document begins with.
LEMMA RootStep ==
  ASSUME N!PayloadsAssumption, N!InputsAssumption, input \in Inputs, N!IsDocument,
         NEW m, There(input, m), n_pos \in 0..m, AtRoot, N!Next
  PROVE  Kept(m)
<1>1. /\ input.units \in Seq(N!Units) /\ input.payload \in Payloads
      /\ input.payload.tree.type = "Compound" /\ Len(Doc) \in Nat
      /\ input.payload.units \in Seq(N!Units)
      /\ Remains(Doc, 0, <<N!U("tag", "Compound", 0)>> \o (<<N!U("name", "", 0)>> \o input.payload.units))
      /\ N!U("tag", "Compound", 0) \in N!Units /\ N!U("name", "", 0) \in N!Units
  BY DocIs
<1>2. n_pc = "root" /\ n_pos = 0 /\ stack = <<>>
  BY DEF AtRoot
<1> PICK x, y, p, tree : /\ x = N!U("tag", "Compound", 0) /\ y = N!U("name", "", 0)
                         /\ p = input.payload /\ tree = input.payload.tree
  OBVIOUS
<1>3. x.is = "tag" /\ x.of = "Compound" /\ y.is = "name" /\ y.of = ""
  BY DEF N!U
<1> PICK s, d : s = p.units /\ d = <<y>> \o s
  OBVIOUS
<1>4. s \in Seq(N!Units) /\ d \in Seq(N!Units)
  BY <1>1, ConsIs
<1>5. /\ N!NotThere => ~input.whole /\ ((input.units = <<>>) <=> (n_pos = 0))
      /\ ~N!NotThere => N!Unit = x /\ n_pos + 1 \in 0..m /\ Remains(Doc, n_pos + 1, d)
  <2>1. Remains(Doc, n_pos, <<x>> \o d) /\ x.is # "cut" /\ x \in N!Units
    BY <1>1, <1>2, <1>3
  <2> QED BY <1>1, <1>4, <2>1, NextIs
<1>6. stack \in Seq(Calls)
  BY <1>2, EmptySeq
<1>7. CASE N!Incomplete
  <2>1. /\ N!NotThere /\ n_pc' = "panic" /\ input' = input /\ n_pos' = n_pos /\ stack' = stack
    BY <1>2, <1>7 DEF N!Incomplete, N!Stop
  <2>2. Finished'
    BY <1>2, <1>5, <2>1 DEF Finished
  <2> QED BY <1>6, <2>1, <2>2 DEF Kept
<1>8. ~N!BadTag
  <2>1. N!BadTag => ~N!NotThere /\ (N!Unit.of \notin N!TagTypes \/ N!Unit.of # "Compound")
    BY DEF N!BadTag, N!Has, N!NotThere
  <2>2. "Compound" \in N!TagTypes
    BY DEF N!TagTypes, N!Types
  <2> QED BY <1>3, <1>5, <2>1, <2>2
<1>9. CASE N!Tag
  <2>1. /\ ~N!NotThere /\ type' = N!Unit.of /\ n_pc' = "name" /\ n_pos' = n_pos + 1
        /\ input' = input /\ stack' = stack
    BY <1>9 DEF N!Tag, N!Has, N!NotThere, N!Take
  <2> PICK H : H = {<< <<>>, <<>>, "", tree >>}
    OBVIOUS
  <2>2. Leads(H, tree)
    <3>1. <<>> \in Seq(Calls) /\ <<>> \in Seq(N!Units) /\ "" \in N!Names
      BY EmptySeq DEF N!Names
    <3>2. tree \in N!Values
      BY <1>1, PayloadIs
    <3>3. << <<>>, <<>>, "", tree >> \in Seq(Calls) \X Seq(N!Units) \X N!Names \X N!Values
      BY <3>1, <3>2
    <3>4. ASSUME NEW calls, NEW b, NEW nm, NEW w, <<calls, b, nm, w>> \in H
          PROVE  calls = <<>> /\ b = <<>> /\ w = tree
      BY <3>4
    <3> QED BY <3>3, <3>4 DEF Leads
  <2>3. s \o <<>> = s /\ <<>> \in Seq(N!Units)
    BY <1>4, ConcatEmptySeq, EmptySeq
  <2>4. Remains(Doc, n_pos', <<y>> \o (p.units \o <<>>))
    BY <1>5, <2>1, <2>3
  <2>5. Doc' = Doc
    BY <2>1 DEF Doc
  <2>6. p.tree.type = type' /\ << stack', <<>>, y.of, p.tree >> \in H
    BY <1>1, <1>2, <1>3, <1>5, <2>1
  <2>7. AtName(H)'
    BY <1>1, <1>3, <2>1, <2>3, <2>4, <2>5, <2>6 DEF AtName
  <2>8. n_pos' > 0
    BY ONLY <1>2, <2>1
  <2>9. Inside'
    BY <2>1, <2>2, <2>7, <2>8 DEF Inside
  <2> QED BY <1>5, <1>6, <2>1, <2>9 DEF Kept
<1>10. ~(N!Name \/ N!Leaf \/ N!NegativeArray \/ N!OpenList \/ N!BadList \/ N!OpenCompound
         \/ N!Element \/ N!Close)
  BY <1>2 DEF N!Name, N!Leaf, N!NegativeArray, N!OpenList, N!BadList, N!OpenCompound, N!Element,
              N!Close, N!Closing
<1> QED BY <1>7, <1>8, <1>9, <1>10 DEF N!Next

\* Every step of the reader keeps the invariant.
LEMMA DocStep ==
  ASSUME N!PayloadsAssumption, N!InputsAssumption, NbtInv, [N!Next]_N!vars
  PROVE  NbtInv'
<1>1. CASE UNCHANGED N!vars
  BY <1>1 DEF N!vars, NbtInv, N!IsDocument, DocInv, There, AtRoot, Inside, AtName, AtPayload,
              InBody,
              Finished, Doc, N!Top
<1>2. CASE N!Next
  <2>1. input' = input /\ input \in Inputs
    BY <1>2 DEF NbtInv, N!Next, N!Incomplete, N!BadTag, N!Tag, N!Name, N!Leaf, N!NegativeArray,
                N!OpenList, N!BadList,
                N!OpenCompound, N!Element, N!Close, N!Stop
  <2>2. ASSUME N!IsDocument PROVE DocInv'
    <3>1. PICK m : There(input, m) /\ n_pos \in 0..m
      BY <2>1, <2>2 DEF NbtInv, DocInv
    <3>2. stack \in Seq(Calls) /\ (AtRoot \/ Inside \/ Finished)
      BY <2>1, <2>2 DEF NbtInv, DocInv
    <3>3. ~Finished
      BY <1>2 DEF Finished, N!Next, N!Incomplete, N!ReadsOn, N!BadTag, N!Tag, N!Name, N!Leaf,
                  N!NegativeArray,
                  N!OpenList, N!BadList, N!OpenCompound, N!Element, N!Close, N!Closing
    <3>4. Kept(m)
      <4>1. CASE AtRoot
        BY <1>2, <2>1, <2>2, <3>1, <4>1, RootStep
      <4>2. CASE Inside
        <5>1. Known(m)
          BY <2>1, <2>2, <3>1, <3>2, <4>2 DEF Known, Inside
        <5>2. PICK G : Leads(G, input.payload.tree) /\ (AtName(G) \/ AtPayload(G) \/ InBody(G))
          BY <4>2 DEF Inside
        <5>3. CASE AtName(G)
          BY <1>2, <5>1, <5>2, <5>3, NameStep
        <5>4. CASE AtPayload(G)
          <6>1. PICK p \in Payloads, b \in Seq(N!Units) : Payloaded(G, p, b)
            BY <5>2, <5>4 DEF AtPayload, Payloaded
          <6>2. type \in N!Types
            BY <6>1, PayloadIs DEF Payloaded
          <6>3. type \in N!Leaves \/ type = "Compound" \/ type = "List"
            BY <6>2 DEF N!Types
          <6> QED BY <1>2, <5>1, <6>1, <6>3, LeafStep, CompoundStep, ListStep
        <5>5. CASE InBody(G)
          <6>1. PICK a \in Seq(N!Units), c \in Seq(N!Units), ks \in Seq(N!Kids) :
                        Bodied(G, a, c, ks)
            BY <5>2, <5>5 DEF InBody, Bodied
          <6>2. N!Top.type = "Compound" \/ N!Top.type = "List"
            BY <6>1 DEF Bodied, Rests
          <6> QED BY <1>2, <5>1, <6>1, <6>2, FieldStep, ElementStep
        <5> QED BY <5>2, <5>3, <5>4, <5>5
      <4> QED BY <3>2, <3>3, <4>1, <4>2
    <3> QED BY <2>1, <3>1, <3>4 DEF Kept, DocInv, There
  <2>3. N!IsDocument' = N!IsDocument
    BY <2>1 DEF N!IsDocument
  <2> QED BY <2>1, <2>2, <2>3 DEF NbtInv
<1> QED BY <1>1, <1>2

\* The invariant says what is read.
LEMMA DocReads ==
  ASSUME N!PayloadsAssumption, N!InputsAssumption, NbtInv
  PROVE  N!ReadsWhatWasWritten /\ N!PrefixIsRefused
<1>1. ASSUME N!IsDocument, N!Ended PROVE Finished
  <2>1. ~AtRoot /\ ~Inside
    BY <1>1 DEF N!Ended, AtRoot, Inside, AtName, AtPayload, InBody
  <2> QED BY <1>1, <2>1 DEF NbtInv, DocInv
<1>2. ASSUME N!IsDocument, ~input.whole PROVE n_pos # Len(Doc)
  <2>1. PICK m : There(input, m) /\ n_pos \in 0..m
    BY <1>2 DEF NbtInv, DocInv
  <2>2. Len(Doc) \in Nat /\ m \in 0..Len(Doc) /\ m < Len(Doc)
    BY <1>2, <2>1, DocIs DEF There, Doc, NbtInv
  <2> QED BY <2>1, <2>2
<1>3. N!ReadsWhatWasWritten
  BY <1>1 DEF N!ReadsWhatWasWritten, Finished, Doc
<1>4. N!PrefixIsRefused
  BY <1>1, <1>2 DEF N!PrefixIsRefused, Finished
<1> QED BY <1>3, <1>4

\* The invariant holds throughout.
LEMMA DocAlways ==
  ASSUME N!PayloadsAssumption, N!InputsAssumption
  PROVE  N!Spec => []NbtInv
<1>1. N!Init => NbtInv
  BY DocInit
<1>2. NbtInv /\ [N!Next]_N!vars => NbtInv'
  BY DocStep
<1> QED BY <1>1, <1>2, PTL DEF N!Spec

\* A document that is there as a whole is read back as it was written, and exactly
\* its own bytes are consumed: any tree, and whatever follows.  (load_chunk)
THEOREM DocumentsReadBack == N!Spec => []ReadsWhatWasWritten
<1>1. NbtInv => ReadsWhatWasWritten
  BY DocReads, ConstantsFit DEF ReadsWhatWasWritten
<1> QED BY <1>1, DocAlways, ConstantsFit, PTL

\* No part of a document is taken for a document, wherever it was cut.
\* (NbtError::Incomplete)
THEOREM PartsRefused == N!Spec => []PrefixIsRefused
<1>1. NbtInv => PrefixIsRefused
  BY DocReads, ConstantsFit DEF PrefixIsRefused
<1> QED BY <1>1, DocAlways, ConstantsFit, PTL
-----------------------------------------------------------------------------
\* Packet bodies: what is assumed of their layouts.
LayoutsFit == B!LayoutsAssumption /\ B!BodiesAssumption

\* The units left begin with what is left of a layout: all of it, if the body is
\* whole, and not all of it, if it is a part of one that is sound.
Ahead(l) ==
    /\ l.reader = b_input.reader /\ l.ops = todo
    /\ B!Left <= Len(l.body) /\ \A k \in 1..B!Left : b_input.body[b_pos + k] = l.body[k]
    /\ IF b_input.whole THEN l.sound /\ B!Left = Len(l.body)
       ELSE l.sound => B!Left < Len(l.body)

\* Of a whole body, the fields read are those written, and the layout has the others.
Before(l) ==
    /\ Len(b_out) + Len(l.fields) = Len(b_input.fields)
    /\ \A k \in 1..Len(l.fields) : l.fields[k] = b_input.fields[Len(b_out) + k]
    /\ \A k \in 1..Len(b_out) : /\ b_out[k] = b_input.fields[k].data
                                /\ b_input.fields[k].is = "data" => k = Len(b_input.fields)
    /\ todo = <<>> => ~B!Refused

\* The data of an entry come after the number that says that there are data.
Announced == Head(todo).op = "rest" => b_out # <<>> /\ b_out[Len(b_out)] = <<1>>

\* A reader is where it should be; or has taken all that is left, in the data of a
\* registry entry; or has made do with 0 for a number that was missing.
Aligned == \E l \in Layouts :
    /\ Ahead(l) /\ (b_input.whole => Before(l))
    /\ todo # <<>> => Announced
Drained ==
    /\ b_pos = Len(b_input.body) /\ b_input.reader = B!ReadRegistryData
    /\ Len(b_out) > 1 /\ b_out[Len(b_out) - 1] = <<1>>
    /\ IF todo = <<>> THEN ~b_input.whole
       ELSE /\ Head(todo).n \in Nat \ {0} /\ Head(todo).short = "err"
            /\ b_input.whole => B!Swallowed
Loose == ~b_input.whole /\ B!Lenient \in B!Range(b_input.reader)

BodyTypeOK ==
    b_pos \in 0..Len(b_input.body) /\ b_out \in Seq(Seq(Int)) /\ b_input.body \in Seq(Int)
BodyInv ==
    /\ b_input \in Bodies
    /\ b_pc = "reading" => Loose \/ (BodyTypeOK /\ (Aligned \/ Drained))
    /\ B!ReadsBackOrRefuses

\* The first of a sequence and the rest of it.
LEMMA Parted ==
  ASSUME NEW T, NEW s \in Seq(T), s # <<>>
  PROVE  /\ Head(s) \in T /\ Head(s) = s[1] /\ Tail(s) \in Seq(T)
         /\ Len(s) \in Nat /\ Len(Tail(s)) \in Nat /\ Len(s) = Len(Tail(s)) + 1
         /\ \A k \in 1..Len(Tail(s)) : Tail(s)[k] = s[k + 1]
         /\ Tail(s) = <<>> <=> Len(Tail(s)) = 0
<1>1. Head(s) \in T /\ Tail(s) \in Seq(T) /\ Len(Tail(s)) = Len(s) - 1
  BY HeadTailProperties
<1>2. \A k \in 1..Len(Tail(s)) : Tail(s)[k] = s[k + 1]
  BY HeadTailProperties
<1>3. Len(s) \in Nat /\ Len(Tail(s)) \in Nat
  BY <1>1, LenProperties
<1>4. Tail(s) = <<>> <=> Len(Tail(s)) = 0
  BY <1>1, EmptySeq
<1>5. Head(s) = s[1]
  OBVIOUS
<1> QED BY <1>1, <1>2, <1>3, <1>4, <1>5

LEMMA BodyInit == ASSUME LayoutsFit, B!Init PROVE BodyInv
<1> PICK b : b = b_input.body
  OBVIOUS
<1>1. /\ b_input \in Bodies /\ todo = b_input.reader /\ b_pos = 0 /\ b_out = <<>>
            /\ b_pc = "reading"
      /\ b \in Seq(Int) /\ Len(b) \in Nat /\ todo # <<>> /\ Head(todo).op # "rest"
  BY LenProperties DEF B!Init, LayoutsFit, B!BodiesAssumption
<1>2. PICK l \in Layouts :
        /\ l.reader = b_input.reader /\ l.ops = b_input.reader
        /\ Len(b) <= Len(l.body) /\ \A k \in 1..Len(b) : b[k] = l.body[k]
        /\ IF b_input.whole THEN l.sound /\ l.fields = b_input.fields /\ Len(b) = Len(l.body)
           ELSE l.sound => Len(b) < Len(l.body)
  BY <1>1 DEF LayoutsFit, B!BodiesAssumption
<1>3. Ahead(l)
  <2>1. B!Left = Len(b) /\ \A k \in 1..Len(b) : 0 + k = k
    BY <1>1 DEF B!Left
  <2> QED BY <1>1, <1>2, <2>1 DEF Ahead
<1>4. b_input.whole => Before(l)
  <2> SUFFICES ASSUME b_input.whole PROVE Before(l)
    OBVIOUS
  <2>1. l.fields = b_input.fields /\ Len(l.fields) \in Nat
    BY <1>2, LenProperties DEF LayoutsFit, B!LayoutsAssumption, B!IsLayout
  <2>2. Len(b_out) = 0 /\ \A k \in 1..Len(l.fields) : 0 + k = k
    BY <1>1
  <2> QED BY <1>1, <2>1, <2>2 DEF Before
<1>5. BodyTypeOK
  BY <1>1 DEF BodyTypeOK
<1>6. Aligned
  BY <1>1, <1>2, <1>3, <1>4 DEF Aligned, Announced
<1> QED BY <1>1, <1>5, <1>6 DEF BodyInv, B!ReadsBackOrRefuses

\* What holds of any layout of the format.
LEMMA LayoutHas ==
  ASSUME LayoutsFit, NEW l \in Layouts
  PROVE  /\ l.ops \in Seq(B!Operations) /\ l.fields \in Seq(B!Fields) /\ l.body \in Seq(Int)
         /\ Len(l.ops) \in Nat /\ Len(l.fields) \in Nat /\ Len(l.body) \in Nat
         /\ l.ops = <<>> => l.sound /\ l.fields = <<>> /\ l.body = <<>>
         /\ l.ops # <<>> => /\ Head(l.ops) \in B!Operations /\ B!Suits(Head(l.ops), l)
                            /\ \/ \E r \in Layouts : B!Leaves(l, r)
                               \/ /\ ~l.sound /\ Head(l.ops).op \in {"string", "count"}
                                  /\ l.body # <<>> /\ Head(l.body) < 0
<1>1. B!IsLayout(l)
  BY DEF LayoutsFit, B!LayoutsAssumption
<1>2. l.ops \in Seq(B!Operations) /\ l.fields \in Seq(B!Fields) /\ l.body \in Seq(Int)
  BY <1>1 DEF B!IsLayout
<1>3. l.ops # <<>> => Head(l.ops) \in B!Operations
  BY <1>2, HeadTailProperties
<1> QED BY <1>1, <1>2, <1>3, LenProperties DEF B!IsLayout

\* The units of a field that an operation takes, and the data it has.
LEMMA UnitsOf ==
  ASSUME LayoutsFit, NEW op \in B!Operations, NEW f \in B!Fields, B!Written(op, f)
  PROVE  /\ B!Units(f) \in Seq(Int) /\ Len(B!Units(f)) \in Nat /\ Len(B!Units(f)) >= op.n
         /\ f.data \in Seq(Int) /\ Len(f.data) \in Nat
         /\ IF op.op = "string" THEN B!Units(f) = <<Len(f.data)>> \o f.data
               /\ Len(B!Units(f)) = Len(f.data) + 1
                                ELSE B!Units(f) = f.data /\ f.is # "string"
         /\ op.op \in {"number", "oneof", "count", "option"} => Len(f.data) = 1
         /\ op.op = "bytes" => Len(f.data) = op.n
         /\ f.is = "data" <=> op.op = "rest"
<1>1. /\ op.op \in {"number", "oneof", "bytes", "rest", "atleast", "string", "count", "option"}
      /\ op.n \in Nat
      /\ op.op \notin {"bytes", "rest", "atleast"} => op.n = 1
      /\ op.op = "rest" => op.n = 0
  BY DEF LayoutsFit, B!LayoutsAssumption, B!OperationsAssumption
<1>2. f.data \in Seq(Int) /\ Len(f.data) \in Nat
  BY LenProperties DEF B!Fields
<1>3. CASE op.op = "string"
  <2>1. f.is = "string" /\ B!Units(f) = <<Len(f.data)>> \o f.data
    BY <1>3 DEF B!Written, B!Units
  <2>2. B!Units(f) \in Seq(Int) /\ Len(B!Units(f)) = Len(f.data) + 1
    BY <1>2, <2>1
  <2> QED BY <1>1, <1>2, <1>3, <2>1, <2>2
<1>4. CASE op.op # "string"
  <2>1. f.is # "string" /\ B!Units(f) = f.data
    BY <1>4 DEF B!Written, B!Units
  <2>2. /\ op.op \in {"number", "oneof", "count", "option"} => Len(f.data) = 1
        /\ op.op = "bytes" => Len(f.data) = op.n
        /\ f.is = "data" <=> op.op = "rest"
        /\ op.op # "atleast"
    BY <1>4 DEF B!Written
  <2> PICK d : d = f.data
    OBVIOUS
  <2>3. Len(d) >= op.n
    <3>1. PICK x \in Nat, y \in Nat : x = Len(d) /\ y = op.n
      BY <1>1, <1>2
    <3>2. /\ op.op \in {"number", "oneof", "count", "option"} => x = 1 /\ y = 1
          /\ op.op = "bytes" => x = y
          /\ op.op = "rest" => y = 0
          /\ op.op \in {"number", "oneof", "count", "option", "bytes", "rest"}
      BY <1>1, <1>4, <2>2, <3>1
    <3>3. x >= y
      BY ONLY <3>1, <3>2
    <3> QED BY <3>1, <3>3
  <2> QED BY <1>2, <1>4, <2>1, <2>2, <2>3
<1> QED BY <1>3, <1>4

\* What is left after units that begin with those of a field.
LEMMA AheadStays ==
  ASSUME LayoutsFit, NEW l \in Layouts, NEW r \in Layouts, BodyTypeOK, Ahead(l),
         NEW units \in Seq(Int), l.body = units \o r.body, r.reader = l.reader, r.sound = l.sound,
         Len(units) <= B!Left, r.ops = todo', UNCHANGED b_input, b_pos' = b_pos + Len(units)
  PROVE  /\ Ahead(r)' /\ b_pos' \in 0..Len(b_input.body)
         /\ \A k \in 1..Len(units) : b_input.body[b_pos + k] = units[k]
<1> PICK b, n, m : b = b_input.body /\ n = Len(units) /\ m = Len(r.body)
  OBVIOUS
<1>1. /\ b \in Seq(Int) /\ Len(b) \in Nat /\ b_pos \in Nat /\ b_pos <= Len(b) /\ n \in Nat
            /\ m \in Nat
      /\ r.body \in Seq(Int) /\ l.body \in Seq(Int)
  BY LayoutHas, LenProperties DEF BodyTypeOK
<1>2. /\ Len(l.body) = n + m
      /\ \A k \in 1..n : l.body[k] = units[k]
      /\ \A k \in 1..m : l.body[n + k] = r.body[k]
  BY <1>1, ConcatProperties
<1>3. B!Left = Len(b) - b_pos /\ B!Left' = Len(b) - (b_pos + n)
  BY DEF B!Left
<1>4. /\ Len(b) - b_pos <= n + m /\ n <= Len(b) - b_pos
      /\ \A k \in 1 .. (Len(b) - b_pos) : b[b_pos + k] = l.body[k]
      /\ IF b_input.whole THEN l.sound /\ Len(b) - b_pos = n + m
         ELSE l.sound => Len(b) - b_pos < n + m
  BY <1>2, <1>3 DEF Ahead
<1>5. Len(b) - (b_pos + n) <= m
  BY <1>1, <1>4
<1>6. ASSUME NEW k \in 1 .. (Len(b) - (b_pos + n)) PROVE b[(b_pos + n) + k] = r.body[k]
  <2> PICK len \in Nat, p \in Nat : len = Len(b) /\ p = b_pos
    BY <1>1
  <2>1. n + k \in 1 .. (Len(b) - b_pos) /\ k \in 1..m /\ b_pos + (n + k) = (b_pos + n) + k
    <3>1. k \in 1 .. (len - (p + n)) /\ n \in Nat /\ m \in Nat /\ len - p <= n + m
      BY <1>1, <1>4
    <3>2. n + k \in 1 .. (len - p) /\ k \in 1..m /\ p + (n + k) = (p + n) + k
      BY ONLY <3>1
    <3> QED BY <3>2
  <2> QED BY <1>2, <1>4, <2>1
<1>7. IF b_input.whole THEN r.sound /\ Len(b) - (b_pos + n) = m
      ELSE r.sound => Len(b) - (b_pos + n) < m
  <2> PICK len \in Nat, p \in Nat : len = Len(b) /\ p = b_pos
    BY <1>1
  <2>1. (len - p = n + m => len - (p + n) = m) /\ (len - p < n + m => len - (p + n) < m)
    BY <1>1
  <2> QED BY <1>4, <2>1
<1>8. Ahead(r)'
  BY <1>3, <1>5, <1>6, <1>7 DEF Ahead
<1>9. \A k \in 1..n : k \in 1 .. (Len(b) - b_pos)
  BY <1>1, <1>4
<1>10. b_pos + n \in 0..Len(b)
  BY <1>1, <1>4
<1> QED BY <1>2, <1>4, <1>8, <1>9, <1>10

\* The fields read are one more.
LEMMA BehindGrows ==
  ASSUME LayoutsFit, NEW l \in Layouts, NEW r \in Layouts, BodyTypeOK, Before(l),
         l.fields # <<>>, NEW f, f = Head(l.fields), r.fields = Tail(l.fields),
         f.is = "data" => r.fields = <<>>,
         UNCHANGED b_input, b_out' = b_out \o <<f.data>>, todo' = <<>> => ~B!Refused
  PROVE  Before(r)'
<1> PICK n, m, g, len : n = Len(b_out) /\ m = Len(r.fields) /\ g = b_input.fields /\ len = Len(g)
  OBVIOUS
<1> PICK h : h = l.fields
  OBVIOUS
<1>a. h \in Seq(B!Fields) /\ h # <<>> /\ b_out \in Seq(Seq(Int))
  BY LayoutHas DEF BodyTypeOK
<1>b. n \in Nat
  BY <1>a, LenProperties
<1>1. /\ Len(h) = m + 1 /\ m \in Nat /\ n \in Nat /\ f = h[1] /\ f \in B!Fields
      /\ \A k \in 1..m : r.fields[k] = h[k + 1]
      /\ r.fields = <<>> => m = 0
  <2> PICK t : t = Tail(h)
    OBVIOUS
  <2>1. /\ Head(h) \in B!Fields /\ Head(h) = h[1] /\ Len(t) \in Nat /\ Len(h) = Len(t) + 1
        /\ \A k \in 1..Len(t) : t[k] = h[k + 1]
        /\ t = <<>> <=> Len(t) = 0
    BY <1>a, Parted
  <2>2. r.fields = t /\ m = Len(t) /\ f = Head(h)
    OBVIOUS
  <2> QED BY <1>b, <2>1, <2>2
<1>2. /\ n + (m + 1) = len
      /\ \A k \in 1 .. (m + 1) : h[k] = g[n + k]
      /\ \A k \in 1..n : b_out[k] = g[k].data /\ (g[k].is = "data" => k = len)
  BY <1>1 DEF Before
<1>3. f.data \in Seq(Int)
  BY <1>1 DEF B!Fields
<1>4. Len(b_out') = n + 1 /\ b_out'[n + 1] = f.data /\ \A k \in 1..n : b_out'[k] = b_out[k]
  <2>1. b_out \in Seq(Seq(Int)) /\ <<f.data>> \in Seq(Seq(Int)) /\ Len(<<f.data>>) = 1
    BY <1>3 DEF BodyTypeOK
  <2> QED BY <1>1, <2>1, ConcatProperties
<1>5. f = g[n + 1]
  <2>1. 1 \in 1 .. (m + 1)
    BY <1>1
  <2> QED BY <1>1, <1>2, <2>1
<1>6. ASSUME NEW k \in 1..m PROVE r.fields[k] = g[(n + 1) + k]
  <2>1. k + 1 \in 1 .. (m + 1) /\ n + (k + 1) = (n + 1) + k
    BY <1>1
  <2> QED BY <1>1, <1>2, <2>1
<1>7. ASSUME NEW k \in 1 .. (n + 1) PROVE b_out'[k] = g[k].data /\ (g[k].is = "data" => k = len)
  <2>1. CASE k = n + 1
    <3>1. b_out'[k] = f.data /\ g[k] = f
      BY <1>4, <1>5, <2>1
    <3>2. f.is = "data" => m = 0
      BY <1>1
    <3>3. m = 0 => k = len
      <4>1. m \in Nat /\ n \in Nat /\ n + (m + 1) = len
        BY <1>1, <1>2
      <4> QED BY ONLY <2>1, <4>1
    <3> QED BY <3>1, <3>2, <3>3
  <2>2. CASE k \in 1..n
    BY <1>2, <1>4, <2>2
  <2> QED BY <1>1, <2>1, <2>2
<1>8. (n + 1) + m = len
  BY ONLY <1>1, <1>2
<1>9. B!Refused' <=> B!Refused
  BY DEF B!Refused
<1>10. m = Len(r.fields) /\ g = b_input.fields /\ len = Len(b_input.fields)
  OBVIOUS
<1>11. \A k \in 1..Len(r.fields) : r.fields[k] = b_input.fields[Len(b_out') + k]
  BY ONLY <1>4, <1>6, <1>10
<1>12. Len(b_out') + Len(r.fields) = Len(b_input.fields)
  BY ONLY <1>4, <1>8, <1>10
<1>13. \A k \in 1..Len(b_out') : /\ b_out'[k] = b_input.fields[k].data
                                 /\ b_input.fields[k].is = "data" => k = Len(b_input.fields)
  BY ONLY <1>4, <1>7, <1>10
<1> QED BY <1>9, <1>11, <1>12, <1>13, Zenon DEF Before

\* Whether a handshake is refused is decided by the last operation.
LEMMA NotRefused ==
  ASSUME LayoutsFit, NEW l \in Layouts, l.reader = b_input.reader, Before(l), BodyTypeOK,
         l.ops # <<>>, B!Suits(Head(l.ops), l), Tail(l.ops) = <<>>,
         l.fields # <<>>, Tail(l.fields) = <<>>,
         Head(l.ops).op = "oneof" => Head(l.fields).data[1] \in Head(l.ops).values
  PROVE  ~B!Refused
<1>1. l.ops \in Seq(B!Operations) /\ l.fields \in Seq(B!Fields)
  BY LayoutHas
<1>2. B!Last(l.ops) = Head(l.ops)
  <2>1. Head(l.ops) = l.ops[1] /\ Len(l.ops) = 0 + 1
    BY <1>1, Parted
  <2> QED BY <2>1 DEF B!Last
<1>3. B!Last(b_input.fields) = Head(l.fields)
  <2> PICK h : h = l.fields
    OBVIOUS
  <2>1. Head(h) = h[1] /\ Len(h) = 0 + 1
    BY <1>1, Parted
  <2>2. Len(b_out) + Len(h) = Len(b_input.fields) /\ \A k \in 1..Len(h) :
           h[k] = b_input.fields[Len(b_out) + k]
    BY DEF Before
  <2>3. Len(b_out) \in Nat
    BY LenProperties DEF BodyTypeOK
  <2> PICK n, len : n = Len(b_out) /\ len = Len(b_input.fields)
    OBVIOUS
  <2>4. n + 1 = len /\ h[1] = b_input.fields[n + 1]
    BY <2>1, <2>2, <2>3
  <2> QED BY <2>1, <2>4 DEF B!Last
<1> QED BY <1>2, <1>3 DEF B!Refused, B!Suits

\* An operation that takes a field leaves the layout of the rest.
LEMMA FieldTaken ==
  ASSUME LayoutsFit, BodyTypeOK, NEW l \in Layouts, NEW r \in Layouts, Ahead(l),
         b_input.whole => Before(l),
         l.ops # <<>>, B!Leaves(l, r), l.fields # <<>>,
         NEW op, op = Head(l.ops), NEW f, f = Head(l.fields), op.op # "atleast",
         B!Go(Len(B!Units(f)), <<f.data>>, B!More(op, f.data[1])), Len(B!Units(f)) <= B!Left,
         op.op = "oneof" => f.data[1] \in op.values,
         op.op = "rest" => (b_input.whole => r.fields = <<>>)
  PROVE  BodyTypeOK' /\ Aligned'
<1>1. /\ op \in B!Operations /\ B!Suits(op, l) /\ f \in B!Fields
      /\ l.ops \in Seq(B!Operations) /\ l.fields \in Seq(B!Fields)
      /\ l.reader = b_input.reader /\ l.ops = todo
  <2>1. l.fields \in Seq(B!Fields)
    BY LayoutHas
  <2>2. f \in B!Fields
    BY <2>1, Parted
  <2> QED BY <2>1, <2>2, LayoutHas DEF Ahead
<1>2. /\ r.reader = l.reader /\ r.sound = l.sound /\ B!Written(op, f)
      /\ B!More(op, f.data[1]) \in Seq(B!Operations)
      /\ r.ops = B!More(op, f.data[1]) \o Tail(l.ops)
      /\ r.fields = Tail(l.fields) /\ l.body = B!Units(f) \o r.body
      /\ r.ops # <<>> => (Head(r.ops).op = "rest" => op.op = "option" /\ f.data = <<1>>)
  BY Zenon DEF B!Leaves
<1>3. /\ B!Units(f) \in Seq(Int) /\ f.data \in Seq(Int)
      /\ f.is = "data" => op.op = "rest"
  <2>1. LayoutsFit /\ op \in B!Operations /\ f \in B!Fields /\ B!Written(op, f)
    BY <1>1, <1>2
  <2> QED BY ONLY <2>1, UnitsOf
<1>4. /\ b_pos' = b_pos + Len(B!Units(f)) /\ b_out' = b_out \o <<f.data>> /\ todo' = r.ops
      /\ UNCHANGED <<b_input, b_pc>>
  BY <1>1, <1>2, Zenon DEF B!Go
<1>5. Ahead(r)' /\ b_pos' \in 0..Len(b_input.body)
  BY <1>2, <1>3, <1>4, AheadStays, Zenon
<1>6. /\ b_out' \in Seq(Seq(Int)) /\ b_out' # <<>> /\ b_out'[Len(b_out')] = f.data
  <2> PICK d : d = f.data
    OBVIOUS
  <2>1. b_out \in Seq(Seq(Int)) /\ <<d>> \in Seq(Seq(Int)) /\ Len(<<d>>) = 1 /\ <<d>>[1] = d
    BY <1>3 DEF BodyTypeOK
  <2> PICK n \in Nat : n = Len(b_out)
    BY <2>1, LenProperties
  <2>2. b_out \o <<d>> \in Seq(Seq(Int)) /\ Len(b_out \o <<d>>) = n + 1
           /\ (b_out \o <<d>>)[n + 1] = d
    BY <2>1, ConcatProperties
  <2>3. b_out \o <<d>> # <<>>
    BY <2>2, EmptySeq
  <2> QED BY <1>4, <2>2, <2>3
<1>7. BodyTypeOK'
  BY <1>4, <1>5, <1>6, Zenon DEF BodyTypeOK
<1>8. ASSUME b_input.whole PROVE Before(r)'
  <2>1. f.is = "data" => r.fields = <<>>
    BY <1>3, <1>8
  <2>2. ASSUME todo' = <<>> PROVE ~B!Refused
    <3>1. Tail(l.ops) = <<>>
      <4> PICK q, t : q = B!More(op, f.data[1]) /\ t = Tail(l.ops)
        OBVIOUS
      <4>1. t \in Seq(B!Operations)
        BY <1>1, Parted
      <4>2. q \in Seq(B!Operations) /\ q \o t = <<>>
        BY <1>2, <1>4, <2>2, Zenon
      <4>3. t = <<>>
        BY ONLY <4>1, <4>2, ConcatEqualIffEmpty
      <4> QED BY <4>3
    <3>2. Tail(l.fields) = <<>>
      <4>1. r.ops = <<>>
        BY <1>4, <2>2, Zenon
      <4>2. r.ops = <<>> => r.fields = <<>>
        BY LayoutHas, Zenon
      <4> QED BY <1>2, <4>1, <4>2, Zenon
    <3> QED BY <1>1, <1>8, <3>1, <3>2, NotRefused
  <2> QED BY <1>2, <1>4, <1>8, <2>1, <2>2, BehindGrows, Zenon
<1>9. todo' # <<>> => Announced'
  BY <1>2, <1>4, <1>6, Zenon DEF Announced
<1> QED BY <1>4, <1>5, <1>7, <1>8, <1>9 DEF Aligned

\* What is left is what a sound layout asks for, if the body is whole; a reader
\* that finds less, or a length below 0, stops without a packet.
LEMMA NotWhole ==
  ASSUME LayoutsFit, BodyTypeOK, NEW l \in Layouts, NEW r \in Layouts, Ahead(l),
         l.ops # <<>>, B!Leaves(l, r), NEW op, op = Head(l.ops), b_input.whole
  PROVE  /\ op.op = "atleast" => B!Left >= op.n
         /\ op.op # "atleast" => B!Left >= Len(B!Units(Head(l.fields))) /\ B!Left >= op.n
<1>1. B!Left = Len(l.body) /\ op \in B!Operations /\ B!Left \in Nat
  BY LayoutHas DEF Ahead
<1>2. CASE op.op = "atleast"
  BY <1>1, <1>2, Zenon DEF B!Leaves, B!Written
<1>3. CASE op.op # "atleast"
  <2> PICK f : f = Head(l.fields)
    OBVIOUS
  <2>1. l.fields # <<>> /\ B!Written(op, f) /\ l.body = B!Units(f) \o r.body
    BY <1>3, Zenon DEF B!Leaves
  <2>2. f \in B!Fields
    BY <2>1, LayoutHas, Parted
  <2>3. B!Units(f) \in Seq(Int) /\ r.body \in Seq(Int) /\ Len(B!Units(f)) >= op.n /\ op.n \in Nat
    BY <1>1, <2>1, <2>2, UnitsOf, LayoutHas DEF LayoutsFit, B!LayoutsAssumption,
                                                B!OperationsAssumption
  <2> PICK u, b : u = B!Units(f) /\ b = r.body
    OBVIOUS
  <2>4. Len(u \o b) = Len(u) + Len(b) /\ Len(u) \in Nat /\ Len(b) \in Nat
    BY <2>3, ConcatProperties, LenProperties
  <2> PICK x \in Nat, y \in Nat, n \in Nat : x = Len(u) /\ y = Len(b) /\ n = op.n
    BY <2>3, <2>4
  <2>5. B!Left = x + y /\ x >= n
    BY <1>1, <2>1, <2>3, <2>4
  <2>6. B!Left >= x /\ B!Left >= n
    BY ONLY <2>5, x \in Nat, y \in Nat, n \in Nat
  <2> QED BY <1>3, <2>6
<1> QED BY <1>2, <1>3

\* A reader that stops has refused.
LEMMA StopsSafely ==
  ASSUME BodyInv, NEW how, B!Stop(how), how \notin {"ok", "reading"},
         b_input.whole => how = "err" /\ (B!Swallowed \/ B!Refused)
  PROVE  BodyInv'
<1>1. UNCHANGED <<b_input, todo, b_pos, b_out>> /\ b_pc' = how
  BY DEF B!Stop
<1>2. b_input.whole => B!ReadsBack'
  BY <1>1 DEF B!ReadsBack, B!Swallowed, B!Refused
<1>3. ~b_input.whole => B!CutIsRefused'
  BY <1>1 DEF B!CutIsRefused
<1>4. B!ReadsBackOrRefuses'
  BY <1>1, <1>2, <1>3 DEF B!ReadsBackOrRefuses
<1> QED BY <1>1, <1>4 DEF BodyInv

\* What is taken: the next n units, those that were written there.
LEMMA TakenHas ==
  ASSUME BodyTypeOK, NEW n \in Nat, n <= B!Left
  PROVE  /\ B!Taken(n) \in Seq(Int) /\ Len(B!Taken(n)) = n
         /\ \A k \in 1..n : B!Taken(n)[k] = b_input.body[b_pos + k]
<1> PICK b : b = b_input.body
  OBVIOUS
<1>1. b \in Seq(Int) /\ b_pos \in Nat /\ Len(b) \in Nat /\ n <= Len(b) - b_pos
  BY LenProperties DEF BodyTypeOK, B!Left
<1> PICK p \in Nat, len \in Nat : p = b_pos /\ len = Len(b)
  BY <1>1
<1>2. p + 1 \in Int /\ p + n \in Int
  OBVIOUS
<1> PICK x \in Int, y \in Int : x = p + 1 /\ y = p + n
  BY <1>2
<1> PICK t : t = SubSeq(b, x, y)
  OBVIOUS
<1>3. \A i \in x..y : b[i] \in Int
  <2> SUFFICES ASSUME NEW i \in x..y PROVE b[i] \in Int
    OBVIOUS
  <2>1. i \in 1..Len(b)
    BY <1>1
  <2> QED BY <1>1, <2>1
<1>4. /\ t \in Seq(Int) /\ Len(t) = IF x <= y THEN y - x + 1 ELSE 0
      /\ \A i \in 1 .. (y - x + 1) : t[i] = b[x + i - 1]
  BY ONLY <1>3, t = SubSeq(b, x, y), x \in Int, y \in Int, SubSeqProperties
<1>5. y - x + 1 = n /\ (IF x <= y THEN y - x + 1 ELSE 0) = n /\ \A k \in 1..n : x + k - 1 = p + k
  BY ONLY x = p + 1, y = p + n, p \in Nat, n \in Nat
<1>6. t \in Seq(Int) /\ Len(t) = n /\ \A k \in 1..n : t[k] = b[p + k]
  BY <1>4, <1>5
<1> QED BY <1>6 DEF B!Taken

LEMMA TakenIs ==
  ASSUME BodyTypeOK, NEW u \in Seq(Int), Len(u) <= B!Left,
         \A k \in 1..Len(u) : b_input.body[b_pos + k] = u[k]
  PROVE  B!Taken(Len(u)) = u
<1> PICK n \in Nat : n = Len(u)
  BY LenProperties
<1> PICK t : t = B!Taken(n)
  OBVIOUS
<1>1. t \in Seq(Int) /\ Len(t) = n /\ \A k \in 1..n : t[k] = b_input.body[b_pos + k]
  BY TakenHas
<1>2. \A k \in 1..n : t[k] = u[k]
  BY <1>1
<1>3. t = u
  BY ONLY <1>1, <1>2, n = Len(u), u \in Seq(Int), SeqEqual
<1> QED BY <1>3

\* One step of a reader that is where it should be, at a layout that goes on.
LEMMA StepAligned ==
  ASSUME LayoutsFit, BodyInv, BodyTypeOK, b_pc = "reading", todo # <<>>, B!Next,
         NEW l \in Layouts, NEW r \in Layouts, Ahead(l), b_input.whole => Before(l), B!Leaves(l, r),
         Announced
  PROVE  BodyInv'
<1> PICK op, f, n : op = Head(todo) /\ f = Head(l.fields) /\ n = B!Left
  OBVIOUS
<1>1. /\ l.ops = todo /\ l.reader = b_input.reader /\ op \in B!Operations /\ B!Suits(op, l)
            /\ B!Op = op
      /\ b_input \in Bodies
  BY LayoutHas DEF Ahead, B!Op, BodyInv
<1>2. /\ op.n \in Nat
      /\ op.op \notin {"bytes", "rest", "atleast"} => op.n = 1
      /\ op.op = "rest" => op.n = 0
      /\ op.short \in {"err", "panic", "ignored", "zero"}
      /\ op.short = "zero" => op = B!Lenient /\ B!Lenient \in B!Range(b_input.reader)
  BY <1>1 DEF LayoutsFit, B!LayoutsAssumption, B!OperationsAssumption, B!Suits
<1>3. n \in Nat
  BY LenProperties DEF B!Left, BodyTypeOK
<1>4. op.op # "atleast" =>
        /\ l.fields # <<>> /\ B!Written(op, f) /\ f \in B!Fields
        /\ l.body = B!Units(f) \o r.body
        /\ B!Units(f) \in Seq(Int) /\ Len(B!Units(f)) \in Nat /\ f.data \in Seq(Int)
              /\ Len(f.data) \in Nat
        /\ IF op.op = "string" THEN B!Units(f) = <<Len(f.data)>> \o f.data
              /\ Len(B!Units(f)) = Len(f.data) + 1
                               ELSE B!Units(f) = f.data
        /\ op.op \in {"number", "oneof", "count", "option"} => Len(f.data) = 1
        /\ op.op = "bytes" => Len(f.data) = op.n
  <2> SUFFICES ASSUME op.op # "atleast"
               PROVE  l.fields # <<>> /\ B!Written(op, f) /\ l.body = B!Units(f) \o r.body
                         /\ f \in B!Fields
    BY <1>1, UnitsOf
  <2>1. l.fields # <<>> /\ B!Written(op, f) /\ l.body = B!Units(f) \o r.body
    BY <1>1 DEF B!Leaves
  <2> QED BY <2>1, LayoutHas, Parted
<1>5. b_input.whole => /\ op.op = "atleast" => n >= op.n
                       /\ op.op # "atleast" => n >= Len(B!Units(f)) /\ n >= op.n
  BY <1>1, NotWhole
<1>6. op.op # "atleast" => \A k \in 1..n :
                           k <= Len(B!Units(f)) => b_input.body[b_pos + k] = B!Units(f)[k]
  <2> SUFFICES ASSUME op.op # "atleast", NEW k \in 1..n, k <= Len(B!Units(f))
               PROVE  b_input.body[b_pos + k] = B!Units(f)[k]
    OBVIOUS
  <2> PICK u, b : u = B!Units(f) /\ b = r.body
    OBVIOUS
  <2>1. u \in Seq(Int) /\ b \in Seq(Int) /\ l.body = u \o b /\ Len(u) \in Nat
    BY <1>4, LayoutHas
  <2>2. k \in 1..Len(u)
    BY <1>3, <2>1
  <2>3. (u \o b)[k] = u[k]
    BY <2>1, <2>2
  <2> QED BY <2>1, <2>3 DEF Ahead
<1>7. ASSUME op.op # "atleast", Len(B!Units(f)) <= n,
             B!Go(Len(B!Units(f)), <<f.data>>, B!More(op, f.data[1])),
             op.op = "oneof" => f.data[1] \in op.values,
             op.op = "rest" => (b_input.whole => r.fields = <<>>)
      PROVE  BodyInv'
  <2>1. BodyTypeOK' /\ Aligned'
    BY <1>1, <1>4, <1>7, FieldTaken
  <2>2. UNCHANGED <<b_input, b_pc>>
    BY <1>7 DEF B!Go
  <2> QED BY <1>1, <2>1, <2>2 DEF BodyInv, B!ReadsBackOrRefuses
<1>8. CASE B!Missing
  <2>1. n < op.n /\ ~b_input.whole
    BY <1>1, <1>2, <1>3, <1>5, <1>8 DEF B!Missing
  <2>2. CASE op.short = "zero"
    <3>1. UNCHANGED <<b_input, b_pc>>
      BY <1>1, <1>8, <2>2 DEF B!Missing, B!Go
    <3> QED BY <1>1, <1>2, <2>1, <2>2, <3>1 DEF BodyInv, Loose, B!ReadsBackOrRefuses
  <2>3. CASE op.short # "zero"
    <3>1. PICK how \in {"err", "panic", "ignored"} : B!Stop(how)
      BY <1>1, <1>2, <1>8, <2>3 DEF B!Missing
    <3> QED BY <2>1, <3>1, StopsSafely
  <2> QED BY <2>2, <2>3
<1>9. ASSUME op.op \in {"number", "oneof", "count", "option"}, n >= op.n
      PROVE  /\ Len(B!Units(f)) = 1 /\ Len(B!Units(f)) <= n /\ B!Unit = f.data[1]
                   /\ <<B!Unit>> = f.data
             /\ op.op # "atleast" /\ op.op # "rest" /\ op.op # "string"
  <2> PICK d : d = f.data
    OBVIOUS
  <2>1. Len(d) = 1 /\ B!Units(f) = d /\ d \in Seq(Int) /\ op.n = 1
    BY <1>2, <1>4, <1>9
  <2>2. 1 \in 1..n /\ b_input.body[b_pos + 1] = d[1]
    BY <1>3, <1>6, <1>9, <2>1
  <2>3. <<d[1]>> = d
    BY <2>1
  <2> QED BY <1>3, <1>9, <2>1, <2>2, <2>3 DEF B!Unit
<1>10. CASE B!Number
  <2>1. CASE B!Reads("number") /\ B!Go(1, <<<<B!Unit>>>>, <<>>)
    <3>1. op.op = "number" /\ n >= op.n
      BY <1>1, <2>1 DEF B!Reads
    <3>2. B!More(op, f.data[1]) = <<>>
      BY <3>1 DEF B!More
    <3> QED BY <1>7, <1>9, <2>1, <3>1, <3>2
  <2>2. CASE B!Reads("oneof") /\ B!Unit \in op.values /\ B!Go(1, <<<<B!Unit>>>>, <<>>)
    <3>1. op.op = "oneof" /\ n >= op.n
      BY <1>1, <2>2 DEF B!Reads
    <3>2. B!More(op, f.data[1]) = <<>>
      BY <3>1 DEF B!More
    <3> QED BY <1>7, <1>9, <2>2, <3>1, <3>2
  <2>3. CASE B!Reads("oneof") /\ B!Unit \notin op.values /\ B!Stop("err")
    <3>1. op.op = "oneof" /\ n >= op.n
      BY <1>1, <2>3 DEF B!Reads
    <3>2. op = B!Last(b_input.reader) /\ Len(l.ops) = 1
      BY <1>1, <3>1 DEF B!Suits
    <3>3. ASSUME b_input.whole PROVE B!Refused
      <4>1. r.ops = <<>>
        <5>1. B!More(op, f.data[1]) = <<>> /\ Tail(l.ops) = <<>>
          <6>1. l.ops \in Seq(B!Operations) /\ l.ops # <<>>
            BY <1>1, LayoutHas
          <6> QED BY <3>1, <3>2, <6>1, Parted DEF B!More
        <5>2. r.ops = B!More(op, f.data[1]) \o Tail(l.ops)
          BY <1>1, <3>1, Zenon DEF B!Leaves
        <5> QED BY <5>1, <5>2
      <4>2. Tail(l.fields) = <<>>
        BY <1>1, <3>1, <4>1, LayoutHas, Zenon DEF B!Leaves
      <4>3. B!Last(b_input.fields) = f
        <5> PICK h : h = l.fields
          OBVIOUS
        <5>1. Head(h) = h[1] /\ Len(h) = 0 + 1
          BY <1>4, <3>1, <4>2, LayoutHas, Parted
        <5>2. Len(b_out) + Len(h) = Len(b_input.fields) /\ \A k \in 1..Len(h) :
                 h[k] = b_input.fields[Len(b_out) + k]
          BY <3>3 DEF Before
        <5>3. Len(b_out) \in Nat
          BY LenProperties DEF BodyTypeOK
        <5> PICK x, len : x = Len(b_out) /\ len = Len(b_input.fields)
          OBVIOUS
        <5>4. x + 1 = len /\ h[1] = b_input.fields[x + 1]
          BY <5>1, <5>2, <5>3
        <5> QED BY <5>1, <5>4 DEF B!Last
      <4>4. b_input.reader # <<>>
        BY <1>1 DEF LayoutsFit, B!BodiesAssumption
      <4>5. B!Unit = f.data[1]
        BY <1>9, <3>1
      <4> QED BY <2>3, <3>1, <3>2, <4>3, <4>4, <4>5 DEF B!Refused
    <3> QED BY <2>3, <3>3, StopsSafely
  <2> QED BY <1>1, <1>10, <2>1, <2>2, <2>3 DEF B!Number, B!Reads
<1>11. CASE B!Reads("count") /\ B!Unit < 0 /\ B!Stop("panic")
  <2>1. op.op = "count" /\ n >= op.n
    BY <1>1, <1>11 DEF B!Reads
  <2>2. f.data[1] >= 0 /\ f.data[1] \in Int /\ B!Unit = f.data[1]
    <3> PICK d : d = f.data
      OBVIOUS
    <3>1. Len(d) = 1 /\ d \in Seq(Int)
      BY <1>4, <2>1
    <3>2. d[1] \in Int
      BY <3>1
    <3>3. d[1] >= 0
      BY <1>4, <2>1 DEF B!Written
    <3> QED BY <1>9, <2>1, <3>2, <3>3
  <2> QED BY <1>11, <2>2
<1>12. CASE B!Repeat
  <2>1. ~(B!Unit < 0) => op.op = "count" /\ n >= op.n /\ B!Go(1, <<<<B!Unit>>>>, B!More(op, B!Unit))
    BY <1>1, <1>12 DEF B!Repeat, B!Reads
  <2> QED BY <1>7, <1>9, <1>11, <1>12, <2>1 DEF B!Repeat
<1>13. CASE B!Choose
  <2>1. op.op = "option" /\ n >= op.n /\ B!Go(1, <<<<B!Unit>>>>, B!More(op, B!Unit))
    BY <1>1, <1>13 DEF B!Choose, B!Reads
  <2> QED BY <1>7, <1>9, <2>1
<1>14. CASE B!ReadString
  <2>1. op.op = "string" /\ n >= 1
    BY <1>1, <1>2, <1>14 DEF B!ReadString, B!Reads
  <2> PICK d \in Seq(Int), s \in Nat : d = f.data /\ s = Len(d)
    BY <1>4, <2>1
  <2>2. B!Units(f) = <<s>> \o d /\ Len(B!Units(f)) = s + 1
    BY <1>4, <2>1
  <2>3. B!Unit = s
    <3>1. 1 \in 1..n /\ 1 <= Len(B!Units(f)) /\ (<<s>> \o d)[1] = s
      BY <1>3, <2>1, <2>2
    <3> QED BY <1>6, <2>1, <2>2, <3>1 DEF B!Unit
  <2>4. CASE s < n
    <3>1. B!Go(s + 1, <<Tail(B!Taken(s + 1))>>, <<>>)
      BY <1>14, <2>3, <2>4 DEF B!ReadString
    <3>2. Tail(B!Taken(s + 1)) = d
      <4> PICK u : u = B!Units(f)
        OBVIOUS
      <4>1. B!Taken(s + 1) = u
        <5>1. u \in Seq(Int) /\ Len(u) = s + 1
          BY <1>4, <2>1, <2>2
        <5>2. s + 1 <= n /\ \A k \in 1 .. (s + 1) : k \in 1..n /\ k <= s + 1
          BY ONLY <1>3, <2>4, s \in Nat
        <5>3. \A k \in 1..n : k <= s + 1 => b_input.body[b_pos + k] = u[k]
          BY <1>6, <2>1, <5>1
        <5>4. \A k \in 1 .. (s + 1) : b_input.body[b_pos + k] = u[k]
          BY <5>2, <5>3
        <5>5. Len(u) <= B!Left /\ \A k \in 1..Len(u) : b_input.body[b_pos + k] = u[k]
          BY <5>1, <5>2, <5>4
        <5>6. B!Taken(Len(u)) = u
          BY <5>1, <5>5, TakenIs
        <5> QED BY <5>1, <5>6
      <4>2. Tail(<<s>> \o d) = d
        BY ONLY s \in Nat, d \in Seq(Int)
      <4> QED BY <2>2, <4>1, <4>2
    <3>3. B!More(op, f.data[1]) = <<>>
      BY <2>1 DEF B!More
    <3>4. B!Go(Len(B!Units(f)), <<f.data>>, B!More(op, f.data[1]))
      BY <2>2, <3>1, <3>2, <3>3
    <3>5. Len(B!Units(f)) <= n
      BY ONLY <1>3, <2>2, <2>4, s \in Nat
    <3>6. op.op # "atleast" /\ op.op # "oneof" /\ op.op # "rest"
      BY <2>1
    <3> QED BY ONLY <1>7, <3>4, <3>5, <3>6
  <2>5. CASE ~(s < n)
    <3>1. B!Stop(op.short) /\ ~b_input.whole
      BY <1>1, <1>3, <1>5, <1>14, <2>1, <2>2, <2>3, <2>5 DEF B!ReadString
    <3>2. op.short \notin {"ok", "reading"}
      BY <1>2
    <3> QED BY <3>1, <3>2, StopsSafely
  <2> QED BY <2>4, <2>5
<1>15. CASE B!Reads("bytes") /\ B!Go(B!Op.n, <<B!Taken(B!Op.n)>>, <<>>)
  <2>1. op.op = "bytes" /\ n >= op.n /\ B!Go(op.n, <<B!Taken(op.n)>>, <<>>)
    BY <1>1, <1>15 DEF B!Reads
  <2> PICK d \in Seq(Int) : d = f.data
    BY <1>4, <2>1
  <2>2. B!Units(f) = d /\ Len(d) = op.n
    BY <1>4, <2>1
  <2>3. B!Taken(Len(d)) = d
    <3>1. \A k \in 1..op.n : k \in 1..n /\ k <= op.n
      BY ONLY <1>2, <1>3, <2>1
    <3>2. Len(d) <= B!Left /\ \A k \in 1..Len(d) : b_input.body[b_pos + k] = d[k]
      BY <1>6, <2>1, <2>2, <3>1
    <3> QED BY <3>2, TakenIs
  <2>4. B!More(op, f.data[1]) = <<>>
    BY <2>1 DEF B!More
  <2>5. B!Go(Len(B!Units(f)), <<f.data>>, B!More(op, f.data[1])) /\ Len(B!Units(f)) <= n
    BY <2>1, <2>2, <2>3, <2>4
  <2> QED BY <1>7, <2>1, <2>5
<1>16. CASE B!Reads("atleast") /\ B!Go(0, <<>>, <<>>)
  <2>1. op.op = "atleast" /\ n >= op.n /\ B!Go(0, <<>>, <<>>)
    BY <1>1, <1>16 DEF B!Reads
  <2>2. /\ r.reader = l.reader /\ r.sound = l.sound
        /\ r.ops = Tail(l.ops) /\ r.fields = l.fields /\ r.body = l.body
        /\ r.ops # <<>> => Head(r.ops).op # "rest"
    BY <1>1, <2>1 DEF B!Leaves, B!Written
  <2>3. b_pos' = b_pos /\ b_out' = b_out /\ todo' = r.ops /\ UNCHANGED <<b_input, b_pc>>
    BY <1>1, <2>1, <2>2 DEF B!Go, BodyTypeOK
  <2>4. Ahead(r)'
    BY <2>2, <2>3 DEF Ahead, B!Left
  <2>5. ASSUME b_input.whole PROVE Before(r)'
    <3>1. ASSUME todo' = <<>> PROVE ~B!Refused
      <4> PICK o : o = l.ops
        OBVIOUS
      <4>1. Head(o) = o[1] /\ Len(o) = 0 + 1
        BY <1>1, <2>2, <2>3, <3>1, LayoutHas, Parted
      <4>2. B!Last(o) = o[1]
        BY <4>1 DEF B!Last
      <4>3. B!Last(l.ops) = op
        BY <1>1, <4>1, <4>2
      <4> QED BY <1>1, <2>1, <4>3 DEF B!Refused, B!Suits
    <3>2. B!Refused' <=> B!Refused
      BY <2>3 DEF B!Refused
    <3> QED BY <2>2, <2>3, <2>5, <3>1, <3>2 DEF Before
  <2>6. BodyTypeOK' /\ Aligned'
    BY <2>2, <2>3, <2>4, <2>5 DEF Aligned, Announced, BodyTypeOK
  <2> QED BY <1>1, <2>3, <2>6 DEF BodyInv, B!ReadsBackOrRefuses
<1>17. CASE B!Reads("rest") /\ B!Go(B!Left, <<B!Taken(B!Left)>>, <<>>)
  <2>1. op.op = "rest" /\ B!Go(n, <<B!Taken(n)>>, <<>>)
    BY <1>1, <1>17 DEF B!Reads
  <2> PICK d \in Seq(Int) : d = f.data
    BY <1>4, <2>1
  <2>2. /\ B!Units(f) = d /\ l.body = d \o r.body /\ f.is = "data" /\ r.fields = Tail(l.fields)
        /\ B!More(op, f.data[1]) = <<>> /\ r.ops = todo' /\ r.ops = Tail(l.ops)
              /\ b_input.reader = B!ReadRegistryData
        /\ r.ops # <<>> => Head(r.ops).n > 0 /\ Head(r.ops).short = "err" /\ r.fields # <<>>
    <3>1. B!More(op, f.data[1]) = <<>>
      BY <2>1 DEF B!More
    <3>2. Tail(l.ops) \in Seq(B!Operations)
      BY <1>1, LayoutHas, Parted
    <3> PICK t : t = Tail(l.ops)
      OBVIOUS
    <3>3. <<>> \o t = t
      BY <3>2
    <3>4. B!Written(op, f) /\ B!Units(f) = d /\ l.body = d \o r.body
      BY <1>4, <2>1
    <3>5. f.is = "data" /\ op.op # "option"
      BY <2>1, <3>4 DEF B!Written
    <3>6. /\ r.ops = B!More(op, f.data[1]) \o t /\ r.fields = Tail(l.fields)
          /\ r.ops # <<>> => Head(r.ops).n > 0 /\ Head(r.ops).short = "err" /\ r.fields # <<>>
      BY <1>1, <2>1, Zenon DEF B!Leaves
    <3>7. todo' = <<>> \o t
      BY <1>1, <2>1 DEF B!Go
    <3>8. b_input.reader = B!ReadRegistryData
      BY <1>1, <2>1 DEF B!Suits
    <3> QED BY <3>1, <3>3, <3>4, <3>5, <3>6, <3>7, <3>8
  <2>3. CASE b_input.whole /\ r.fields = <<>>
    <3>1. r.ops = <<>> /\ r.body = <<>>
      BY <2>2, <2>3, LayoutHas
    <3>2. l.body = d /\ n = Len(d)
      BY <2>2, <2>3, <3>1 DEF Ahead
    <3>3. B!Taken(Len(d)) = d
      <4>1. Len(d) <= B!Left /\ \A k \in 1..Len(d) : b_input.body[b_pos + k] = d[k]
        BY <1>3, <1>6, <2>1, <2>2, <3>2
      <4> QED BY <4>1, TakenIs
    <3>4. B!Go(Len(B!Units(f)), <<f.data>>, B!More(op, f.data[1])) /\ Len(B!Units(f)) <= n
      BY <1>3, <2>1, <2>2, <3>2, <3>3
    <3> QED BY <1>7, <2>1, <2>3, <3>4
  <2>4. CASE ~(b_input.whole /\ r.fields = <<>>)
    <3> PICK t \in Seq(Int) : t = B!Taken(n)
      BY <1>3, TakenHas
    <3>1. /\ b_pos' = b_pos + n /\ b_out' = b_out \o <<t>> /\ UNCHANGED <<b_input, b_pc>>
          /\ todo' = r.ops
      BY <1>1, <2>1, <2>2 DEF B!Go
    <3>2. b_pos' = Len(b_input.body) /\ b_pos' \in 0..Len(b_input.body)
      <4>1. b_pos \in Nat /\ Len(b_input.body) \in Nat /\ n = Len(b_input.body) - b_pos
        BY LenProperties DEF B!Left, BodyTypeOK
      <4> QED BY <3>1, <4>1
    <3>3. /\ b_out' \in Seq(Seq(Int)) /\ Len(b_out') > 1 /\ b_out'[Len(b_out') - 1] = <<1>>
      <4>1. b_out \in Seq(Seq(Int)) /\ <<t>> \in Seq(Seq(Int)) /\ Len(<<t>>) = 1
        BY DEF BodyTypeOK
      <4> PICK m \in Nat : m = Len(b_out)
        BY <4>1, LenProperties
      <4>2. m > 0 /\ b_out[m] = <<1>>
        BY <1>1, <2>1, <4>1, EmptySeq DEF Announced
      <4>3. /\ b_out \o <<t>> \in Seq(Seq(Int)) /\ Len(b_out \o <<t>>) = m + 1
            /\ \A k \in 1..m : (b_out \o <<t>>)[k] = b_out[k]
        BY <4>1, ConcatProperties
      <4>4. Len(b_out') = m + 1 /\ b_out'[m] = <<1>> /\ m + 1 > 1 /\ (m + 1) - 1 = m
        BY <3>1, <4>2, <4>3
      <4> QED BY <3>1, <4>3, <4>4
    <3>4. todo' = <<>> => ~b_input.whole
      BY <2>2, <2>4, LayoutHas
    <3>5. todo' # <<>> => Head(todo').n \in Nat \ {0} /\ Head(todo').short = "err"
      <4> SUFFICES ASSUME todo' # <<>>
                   PROVE  Head(todo').n \in Nat \ {0} /\ Head(todo').short = "err"
        OBVIOUS
      <4>1. Head(r.ops) \in B!Operations
        BY <3>1, LayoutHas
      <4>2. Head(r.ops).n \in Nat
        BY <4>1 DEF LayoutsFit, B!LayoutsAssumption, B!OperationsAssumption
      <4> QED BY <2>2, <3>1, <4>2
    <3>6. ASSUME b_input.whole PROVE B!Swallowed'
      <4> PICK h, o : h = l.fields /\ o = Tail(h)
        OBVIOUS
      <4>1. h \in Seq(B!Fields) /\ h # <<>> /\ o # <<>>
        BY <1>4, <2>1, <2>2, <2>4, <3>6, LayoutHas
      <4>2. Head(h) = h[1] /\ Len(h) = Len(o) + 1 /\ Len(o) \in Nat /\ Len(o) # 0
        BY <4>1, Parted
      <4>3. Len(b_out) + Len(h) = Len(b_input.fields) /\ \A k \in 1..Len(h) :
               h[k] = b_input.fields[Len(b_out) + k]
        BY <3>6 DEF Before
      <4> PICK m \in Nat : m = Len(b_out)
        BY LenProperties DEF BodyTypeOK
      <4> PICK q \in Nat : q = Len(o)
        BY <4>2
      <4> PICK len : len = Len(b_input.fields)
        OBVIOUS
      <4>4. 1 \in 1..Len(h)
        BY <4>2
      <4>5. b_input.fields[m + 1] = h[1]
        BY <4>3, <4>4
      <4>6. m + 1 \in 1 .. (len - 1)
        <5>1. m + (q + 1) = len /\ q # 0
          BY <4>2, <4>3
        <5> QED BY ONLY <5>1, m \in Nat, q \in Nat
      <4>7. b_input.fields[m + 1].is = "data"
        BY <2>2, <4>2, <4>5
      <4>8. B!Swallowed
        BY <4>6, <4>7 DEF B!Swallowed
      <4> QED BY <3>1, <4>8 DEF B!Swallowed
    <3>7. Drained'
      BY <2>2, <3>1, <3>2, <3>3, <3>4, <3>5, <3>6 DEF Drained
    <3> QED BY <1>1, <3>1, <3>2, <3>3, <3>7 DEF BodyInv, BodyTypeOK, B!ReadsBackOrRefuses
  <2> QED BY <2>3, <2>4
<1>18. CASE B!Done
  BY <1>18 DEF B!Done
<1> QED BY <1>8, <1>10, <1>12, <1>13, <1>14, <1>15, <1>16, <1>17, <1>18 DEF B!Next, B!Fixed

\* Every step is one of a reader at work on the same body.
LEMMA OfReading ==
  ASSUME B!Next
  PROVE  /\ b_pc = "reading" /\ UNCHANGED b_input
         /\ todo = <<>> => B!Stop("ok")
         /\ todo # <<>> => ~B!Done /\ (~B!Missing => B!Left >= B!Op.n)
BY DEF B!Next, B!Missing, B!Number, B!Fixed, B!ReadString, B!Repeat, B!Choose, B!Done, B!Reads,
       B!Go, B!Stop

\* One step at a length below 0, where a layout ends that is not sound.
LEMMA StepNegative ==
  ASSUME LayoutsFit, BodyInv, BodyTypeOK, todo # <<>>, B!Next, NEW l \in Layouts, Ahead(l),
         ~l.sound, B!Op.op \in {"string", "count"}, l.body # <<>>, Head(l.body) < 0
  PROVE  BodyInv'
<1>1. /\ l.ops = todo /\ ~b_input.whole /\ B!Op \in B!Operations /\ B!Op.n = 1
            /\ B!Op.short \in {"err", "panic", "ignored"}
  <2>1. l.ops = todo /\ ~b_input.whole
    BY DEF Ahead
  <2>2. B!Op \in B!Operations /\ B!Suits(B!Op, l)
    BY <2>1, LayoutHas DEF B!Op
  <2>3. B!Op.short \in {"err", "panic", "ignored", "zero"} /\ B!Op.n = 1
    BY <2>2 DEF LayoutsFit, B!LayoutsAssumption, B!OperationsAssumption
  <2>4. B!Op.short # "zero"
    BY <2>2 DEF B!Suits, B!Lenient
  <2> QED BY <2>1, <2>2, <2>3, <2>4
<1>2. B!Left >= B!Op.n => B!Unit < 0 /\ B!Unit \in Int
  <2> SUFFICES ASSUME B!Left >= 1 PROVE B!Unit < 0 /\ B!Unit \in Int
    BY <1>1
  <2>1. B!Left \in Nat
    BY LenProperties DEF BodyTypeOK, B!Left
  <2>2. B!Unit = l.body[1]
    BY <2>1 DEF Ahead, B!Unit
  <2>3. Head(l.body) = l.body[1] /\ Head(l.body) \in Int
    BY LayoutHas, Parted
  <2> QED BY <2>2, <2>3
<1>3. \E how \in {"err", "panic", "ignored"} : B!Stop(how)
  <2>1. B!Missing => \E how \in {"err", "panic", "ignored"} : B!Stop(how)
    BY <1>1 DEF B!Missing
  <2>2. B!ReadString => \E how \in {"err", "panic", "ignored"} : B!Stop(how)
    <3>1. B!ReadString => B!Left >= B!Op.n
      BY DEF B!ReadString, B!Reads
    <3>2. ASSUME NEW u \in Int, u < 0 PROVE ~(u >= 0)
      BY <3>2
    <3>3. B!Left >= B!Op.n => ~(B!Unit >= 0)
      BY <1>2, <3>2
    <3> QED BY <1>1, <3>1, <3>3 DEF B!ReadString
  <2>3. B!Repeat => \E how \in {"err", "panic", "ignored"} : B!Stop(how)
    <3>1. B!Repeat => B!Left >= B!Op.n
      BY DEF B!Repeat, B!Reads
    <3> QED BY <1>2, <3>1 DEF B!Repeat
  <2>4. ~B!Number /\ ~B!Fixed /\ ~B!Choose /\ ~B!Done
    BY OfReading DEF B!Number, B!Fixed, B!Choose, B!Reads
  <2> QED BY <2>1, <2>2, <2>3, <2>4 DEF B!Next
<1>4. PICK how \in {"err", "panic", "ignored"} : B!Stop(how)
  BY <1>3
<1> QED BY <1>1, <1>4, StopsSafely

\* The end of a reader that is where it should be: it has read a whole body.
LEMMA EndAligned ==
  ASSUME LayoutsFit, BodyInv, BodyTypeOK, todo = <<>>, B!Next, NEW l \in Layouts, Ahead(l),
         b_input.whole => Before(l)
  PROVE  BodyInv'
<1>1. /\ l.sound /\ Len(l.fields) = 0 /\ Len(l.body) = 0 /\ b_input \in Bodies
  BY LayoutHas DEF Ahead, BodyInv
<1>2. B!Left \in Nat
  BY LenProperties DEF BodyTypeOK, B!Left
<1>3. b_input.whole /\ B!Left = 0
  BY <1>1, <1>2 DEF Ahead
<1>4. b_pos = Len(b_input.body)
  BY <1>3, LenProperties DEF BodyTypeOK, B!Left
<1>5. b_input.fields \in Seq(B!Fields)
  BY <1>1, <1>3, LayoutHas DEF LayoutsFit, B!BodiesAssumption
<1> PICK g, o : g = b_input.fields /\ o = b_out
  OBVIOUS
<1>6. /\ Len(o) = Len(g) /\ ~B!Refused
      /\ \A k \in 1..Len(o) : o[k] = g[k].data /\ (g[k].is = "data" => k = Len(g))
  <2>1. Len(o) \in Nat
    BY LenProperties DEF BodyTypeOK
  <2>2. Len(o) + 0 = Len(g)
    BY <1>1, <1>3 DEF Before
  <2> QED BY <1>3, <2>1, <2>2 DEF Before
<1>7. ~B!Swallowed
  <2>1. Len(g) \in Nat
    BY <1>5, LenProperties
  <2>2. \A i \in 1 .. (Len(g) - 1) : i \in 1..Len(g) /\ i # Len(g)
    BY ONLY <2>1
  <2> QED BY <1>6, <2>2 DEF B!Swallowed
<1>8. b_out = [i \in DOMAIN b_input.fields |-> b_input.fields[i].data]
  <2>1. o \in Seq(Seq(Int)) /\ DOMAIN g = 1..Len(g) /\ DOMAIN o = 1..Len(o)
    BY <1>5 DEF BodyTypeOK
  <2>2. o = [i \in DOMAIN o |-> o[i]]
    BY <2>1
  <2> QED BY <1>6, <2>1, <2>2
<1>9. B!Stop("ok")
  BY OfReading
<1>10. B!ReadsBack'
  BY <1>4, <1>6, <1>7, <1>8, <1>9 DEF B!Stop, B!ReadsBack, B!Swallowed, B!Refused
<1> QED BY <1>1, <1>3, <1>9, <1>10 DEF BodyInv, B!ReadsBackOrRefuses, B!Stop

\* After the data of an entry nothing is left: there is no more to be read, or it is missed.
LEMMA StepDrained ==
  ASSUME BodyInv, BodyTypeOK, Drained, B!Next
  PROVE  BodyInv'
<1>1. Drained /\ BodyInv
  OBVIOUS
<1>2. CASE todo = <<>>
  <2>1. B!Stop("ok") /\ ~b_input.whole
    BY <1>2, OfReading DEF Drained
  <2>2. B!CutIsRefused'
    BY <2>1 DEF Drained, B!CutIsRefused, B!Stop
  <2> QED BY <2>1, <2>2 DEF BodyInv, B!ReadsBackOrRefuses, B!Stop
<1>3. CASE todo # <<>>
  <2>1. B!Op.n \in Nat \ {0} /\ B!Op.short = "err" /\ (b_input.whole => B!Swallowed)
    BY <1>3 DEF Drained, B!Op
  <2>2. Len(b_input.body) - b_pos < B!Op.n
    <3> PICK x \in Nat, n \in Nat : x = Len(b_input.body) /\ n = B!Op.n
      BY <2>1, LenProperties DEF BodyTypeOK
    <3>1. x - x < n
      BY <2>1
    <3>2. b_pos = x
      BY DEF Drained
    <3> QED BY <3>1, <3>2
  <2>3. B!Missing
    <3>1. B!Left \in Int /\ B!Op.n \in Int /\ B!Left < B!Op.n
      BY <2>1, <2>2, LenProperties DEF B!Left, BodyTypeOK
    <3>2. ~(B!Left >= B!Op.n)
      BY ONLY <3>1
    <3> QED BY <1>3, <3>2, OfReading
  <2>4. B!Stop("err")
    BY <2>1, <2>3 DEF B!Missing
  <2> QED BY <2>1, <2>4, StopsSafely
<1> QED BY <1>2, <1>3

\* Every step keeps the invariant.
LEMMA BodyStep ==
  ASSUME LayoutsFit, BodyInv, [B!Next]_(B!vars)
  PROVE  BodyInv'
<1>1. CASE UNCHANGED B!vars
  BY <1>1 DEF BodyInv, BodyTypeOK, Aligned, Announced, Drained, Loose, Ahead, Before, B!Left,
              B!vars,
              B!ReadsBackOrRefuses, B!ReadsBack, B!CutIsRefused, B!Swallowed, B!Refused
<1>2. CASE B!Next
  <2>1. b_pc = "reading" /\ UNCHANGED b_input /\ b_input \in Bodies
    BY <1>2, OfReading DEF BodyInv
  <2>2. CASE Loose
    BY <2>1, <2>2 DEF BodyInv, Loose, B!ReadsBackOrRefuses, B!CutIsRefused
  <2>3. CASE BodyTypeOK /\ Drained
    BY <1>2, <2>3, StepDrained
  <2>4. CASE BodyTypeOK /\ Aligned
    <3>1. PICK l \in Layouts :
            /\ Ahead(l) /\ (b_input.whole => Before(l))
            /\ todo # <<>> => Announced
      BY <2>4 DEF Aligned
    <3>2. l.ops = todo
      BY <3>1 DEF Ahead
    <3>3. CASE todo = <<>>
      BY <1>2, <2>4, <3>1, <3>3, EndAligned
    <3>4. CASE todo # <<>>
      <4>1. \/ \E r \in Layouts : B!Leaves(l, r)
            \/ ~l.sound /\ B!Op.op \in {"string", "count"} /\ l.body # <<>> /\ Head(l.body) < 0
        BY <3>2, <3>4, LayoutHas DEF B!Op
      <4>2. ASSUME NEW r \in Layouts, B!Leaves(l, r) PROVE BodyInv'
        BY <1>2, <2>1, <2>4, <3>1, <3>4, <4>2, StepAligned
      <4>3. CASE ~l.sound /\ B!Op.op \in {"string", "count"} /\ l.body # <<>> /\ Head(l.body) < 0
        BY <1>2, <2>4, <3>1, <3>4, <4>3, StepNegative
      <4> QED BY <4>1, <4>2, <4>3
    <3> QED BY <3>3, <3>4
  <2> QED BY <2>1, <2>2, <2>3, <2>4 DEF BodyInv
<1> QED BY <1>1, <1>2

LEMMA BodyAlways ==
  ASSUME LayoutsFit PROVE B!Spec => []BodyInv
<1>1. B!Init => BodyInv
  BY BodyInit
<1>2. BodyInv /\ [B!Next]_(B!vars) => BodyInv'
  BY BodyStep
<1> QED BY <1>1, <1>2, PTL DEF B!Spec

\* Whoever wrote a body, its reader gets back every field and leaves nothing over;
\* one that is cut anywhere, or has a length below 0, is not taken for a packet:
\* for bodies of any length, with any lists.  (Packet::read, Packet::write)
THEOREM BodiesReadBack == B!Spec => []ReadsBackOrRefuses
<1>1. BodyInv => ReadsBackOrRefuses
  BY DEF BodyInv, ReadsBackOrRefuses
<1>2. LayoutsFit
  BY ConstantsFit DEF LayoutsFit
<1> QED BY <1>1, <1>2, BodyAlways, PTL
=============================================================================
