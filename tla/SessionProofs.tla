--------------------------- MODULE SessionProofs ---------------------------
(***************************************************************************)
(* Proofs about the machines that Connections puts side by side: the relay *)
(* (Relay), a transparent pipe; the start of play (PlayStart); the ping    *)
(* responder (PingResponder); the server's connection and the frame codec, *)
(* with the invariants of ConnectionProofs and FramingProofs.              *)
(***************************************************************************)
EXTENDS Connections, SequenceTheorems, FiniteSetTheorems, TLAPS

\* Relay: its invariant accounts for every byte of a direction.
\* What the source wrote is what the destination was handed, then what the
\* task holds, then what it has not read.
Accounted(d) == sent[d] = got[d] \o chunk[d] \o wire[d]

\* The destination holds a prefix, whatever became of the rest.
Prefixed(d) == \E rest \in Bytes : sent[d] = got[d] \o rest

\* Bytes are lost only to a destination that has gone, or with a task that
\* failed; and "eof" is final.
DirInv(d) == /\ Prefixed(d)
             /\ ~Failed(d) /\ open[Dst(d)] => Accounted(d)
             /\ task[d] = "eof" => ~open[Src(d)] /\ wire[d] = <<>>

IInv == TypeOK /\ \A d \in Directions : DirInv(d)

-----------------------------------------------------------------------------
\* Cutting a sequence of bytes loses none of them.
LEMMA CutInTwo ==
  ASSUME NEW w \in Bytes, NEW n \in 1..Len(w)
  PROVE  /\ SubSeq(w, 1, n) \in Bytes /\ Len(SubSeq(w, 1, n)) = n
         /\ SubSeq(w, 1, n) # <<>>
         /\ SubSeq(w, n + 1, Len(w)) \in Bytes
         /\ SubSeq(w, 1, n) \o SubSeq(w, n + 1, Len(w)) = w
<1> USE DEF Bytes
<1>1. Len(w) \in Nat /\ n \in Nat /\ 1 <= n /\ n <= Len(w)
  BY LenProperties
<1>2. \A i \in 1..Len(w) : w[i] \in 1..MaxSent
  BY ElementOfSeq
<1>3. SubSeq(w, 1, n) \in Seq(1..MaxSent) /\ Len(SubSeq(w, 1, n)) = n
  <2>1. 1 \in Int /\ n \in Int /\ \A i \in 1..n : w[i] \in 1..MaxSent
    BY <1>1, <1>2
  <2> QED BY <2>1, <1>1, SubSeqProperties
<1>4. SubSeq(w, n + 1, Len(w)) \in Seq(1..MaxSent)
  <2>1. n + 1 \in Int /\ Len(w) \in Int /\ \A i \in (n + 1)..Len(w) : w[i] \in 1..MaxSent
    BY <1>1, <1>2
  <2> QED BY <2>1, SubSeqProperties
<1>5. SubSeq(w, 1, n) # <<>>
  BY <1>1, <1>3, EmptySeq
<1>6. SubSeq(w, 1, n) \o SubSeq(w, n + 1, Len(w)) = SubSeq(w, 1, Len(w))
  <2>1. 1 \in 1..(Len(w) + 1) /\ n \in (1 - 1)..Len(w) /\ Len(w) \in n..Len(w)
    BY <1>1
  <2> QED BY <2>1, ConcatAdjacentSubSeq
<1>7. SubSeq(w, 1, Len(w)) = w
  BY SubSeqFull
<1> QED BY <1>3, <1>4, <1>5, <1>6, <1>7

\* A read moves bytes from the wire to the task.
LEMMA ReadSplits ==
  ASSUME TypeOK, NEW d \in Directions, Read(d)
  PROVE  /\ chunk'[d] \in Bytes /\ chunk'[d] # <<>> /\ Len(chunk'[d]) <= BufSize
         /\ wire'[d] \in Bytes
         /\ chunk'[d] \o wire'[d] = wire[d]
<1> PICK n \in 1..Len(wire[d]) :
           /\ n <= BufSize
           /\ chunk' = [chunk EXCEPT ![d] = SubSeq(wire[d], 1, n)]
           /\ wire' = [wire EXCEPT ![d] = SubSeq(@, n + 1, Len(@))]
  BY DEF Read, TakeIn
<1>1. /\ chunk'[d] = SubSeq(wire[d], 1, n)
      /\ wire'[d] = SubSeq(wire[d], n + 1, Len(wire[d]))
      /\ wire[d] \in Bytes
  BY DEF TypeOK
<1> QED BY <1>1, CutInTwo

\* The variables stay in their types, and a task holds a chunk exactly while
\* it writes.
THEOREM TypeCorrect == Spec => []TypeOK
<1> USE DEF TypeOK
<1>1. Init => TypeOK
  BY SizeAssumption, StreamsAssumption, EmptySeq DEF Init, Bytes
<1>2. TypeOK /\ [Next]_vars => TypeOK'
  <2> SUFFICES ASSUME TypeOK, [Next]_vars PROVE TypeOK'
    OBVIOUS
  <2>1. ASSUME NEW d \in Directions, Read(d) PROVE TypeOK'
    <3>1. /\ chunk'[d] \in Bytes /\ chunk'[d] # <<>> /\ Len(chunk'[d]) <= BufSize
          /\ wire'[d] \in Bytes
      BY <2>1, ReadSplits
    <3>2. \A x \in Directions \ {d} : chunk'[x] = chunk[x] /\ wire'[x] = wire[x]
      BY <2>1 DEF Read, TakeIn
    <3>3. /\ chunk' \in [Directions -> Bytes]
          /\ wire' \in [Directions -> Bytes]
      <4>1. /\ \E c : chunk' = [chunk EXCEPT ![d] = c]
            /\ \E w : wire' = [wire EXCEPT ![d] = w]
        BY <2>1 DEF Read, TakeIn
      <4> QED BY <3>1, <4>1
    <3> QED BY <2>1, <3>1, <3>2, <3>3 DEF Read, TakeIn
  <2>2. ASSUME NEW d \in Directions, ReadEof(d) \/ ReadFail(d) PROVE TypeOK'
    BY <2>2 DEF ReadEof, ReadFail
  <2>3. ASSUME NEW d \in Directions, Write(d) PROVE TypeOK'
    <3>1. got[d] \o chunk[d] \in Bytes /\ <<>> \in Bytes /\ Len(<<>>) = 0
      BY ConcatProperties, EmptySeq DEF Bytes
    <3> QED BY <2>3, <3>1, SizeAssumption DEF Write
  <2>4. ASSUME NEW d \in Directions, WriteFail(d) PROVE TypeOK'
    <3>1. <<>> \in Bytes /\ Len(<<>>) = 0
      BY EmptySeq DEF Bytes
    <3> QED BY <2>4, <3>1, SizeAssumption DEF WriteFail
  <2>5. ASSUME NEW d \in Directions, Send(d) PROVE TypeOK'
    <3>1. Len(sent[d]) \in Nat /\ Len(sent[d]) + 1 \in 1..MaxSent
      BY <2>5, SizeAssumption, LenProperties DEF Send, Bytes
    <3>2. /\ Append(sent[d], Len(sent[d]) + 1) \in Bytes
          /\ Append(wire[d], Len(sent[d]) + 1) \in Bytes
      BY <3>1, AppendProperties DEF Bytes
    <3> QED BY <2>5, <3>2 DEF Send
  <2>6. ASSUME NEW e \in Ends, Close(e) \/ SeeClose(e) PROVE TypeOK'
    BY <2>6 DEF Close, SeeClose
  <2>7. CASE UNCHANGED vars
    BY <2>7 DEF vars
  <2>8. ASSUME NEW d \in Directions, ReadPanic(d) PROVE TypeOK'
    <3>1. chunk[d] = <<>> /\ \E w \in Bytes : wire' = [wire EXCEPT ![d] = w]
      <4>1. PICK n \in 1..Len(wire[d]) : TakeIn(d, n)
        BY <2>8 DEF ReadPanic
      <4>2. wire[d] \in Bytes
        OBVIOUS
      <4>3. SubSeq(wire[d], n + 1, Len(wire[d])) \in Bytes
        BY <4>2, CutInTwo
      <4> QED BY <4>1, <4>3 DEF TakeIn
    <3>2. wire' \in [Directions -> Bytes]
      BY <3>1
    <3>3. state' \in {"handshake", "login"} /\ UNCHANGED <<frames, open, sent, got, chunk>>
      BY <2>8 DEF ReadPanic, TakeIn
    <3>4. task' = [task EXCEPT ![d] = "panic"]
      BY <2>8 DEF ReadPanic
    <3>5. /\ task' \in [Directions -> {"read", "write", "eof", "err", "panic"}]
          /\ \A x \in Directions : task'[x] = "write" <=> chunk'[x] # <<>>
      BY <3>1, <3>3, <3>4
    <3> QED BY <3>2, <3>3, <3>5
  <2> QED BY <2>1, <2>2, <2>3, <2>4, <2>5, <2>6, <2>7, <2>8 DEF Next, Task
<1> QED BY <1>1, <1>2, PTL DEF Spec

-----------------------------------------------------------------------------
\* Nothing of direction d changes; at most, ends close.
Kept(d) == /\ \A e \in Ends : open'[e] => open[e]
           /\ sent'[d] = sent[d]
           /\ wire'[d] = wire[d]
           /\ task'[d] = task[d]
           /\ chunk'[d] = chunk[d]
           /\ got'[d] = got[d]

\* A direction that is left alone keeps its invariant, also when ends close.
LEMMA KeptInv ==
  ASSUME NEW d \in Directions, DirInv(d), Kept(d)
  PROVE  DirInv(d)'
<1>1. Src(d) \in Ends /\ Dst(d) \in Ends
  BY DEF Src, Dst, Ends
<1> QED BY <1>1 DEF Kept, DirInv, Failed, Prefixed, Accounted, Src, Dst

\* Everything kept of a direction is a sequence of bytes.
LEMMA AllBytes ==
  ASSUME TypeOK, NEW d \in Directions
  PROVE  /\ sent[d] \in Bytes /\ got[d] \in Bytes
         /\ chunk[d] \in Bytes /\ wire[d] \in Bytes
         /\ <<>> \in Bytes
  BY EmptySeq DEF TypeOK, Bytes

\* Concatenation of bytes: its type, and that it adds nothing of its own.
LEMMA Joined ==
  ASSUME NEW x \in Bytes, NEW y \in Bytes
  PROVE  /\ x \o y \in Bytes
         /\ x \o <<>> = x /\ <<>> \o x = x
<1> USE DEF Bytes
<1>1. x \o y \in Bytes
  BY ConcatProperties
<1>2. x \o <<>> = x /\ <<>> \o x = x
  BY ConcatEmptySeq
<1> QED BY <1>1, <1>2

\* Concatenation of bytes may be grouped either way.
LEMMA Regroup ==
  ASSUME NEW x \in Bytes, NEW y \in Bytes, NEW z \in Bytes
  PROVE  (x \o y) \o z = x \o (y \o z)
  BY ConcatAssociative DEF Bytes

\* A step of a direction keeps its own invariant.
LEMMA OwnStep ==
  ASSUME TypeOK, NEW d \in Directions, DirInv(d), Task(d) \/ Send(d)
  PROVE  DirInv(d)'
<1> DEFINE s == sent[d]
           g == got[d]
           c == chunk[d]
           w == wire[d]
<1>0. s \in Bytes /\ g \in Bytes /\ c \in Bytes /\ w \in Bytes /\ <<>> \in Bytes
  BY AllBytes
<1>1. CASE Read(d)
  <2>1. UNCHANGED <<open, sent, got>> /\ task[d] = "read" /\ task'[d] = "write"
    BY <1>1 DEF Read, TakeIn, TypeOK
  <2>2. c = <<>>
    BY <2>1 DEF TypeOK
  <2>3. chunk'[d] \in Bytes /\ wire'[d] \in Bytes /\ chunk'[d] \o wire'[d] = w
    BY <1>1, ReadSplits
  <2>4. ASSUME Accounted(d) PROVE Accounted(d)'
    <3>1. s = g \o w
      BY <1>0, <2>2, <2>4, Joined DEF Accounted
    <3>2. (g \o chunk'[d]) \o wire'[d] = g \o (chunk'[d] \o wire'[d])
      <4> DEFINE c1 == chunk'[d]
                 w1 == wire'[d]
      <4>1. g \in Bytes /\ c1 \in Bytes /\ w1 \in Bytes
        BY <1>0, <2>3
      <4> HIDE DEF g, c1, w1
      <4>2. (g \o c1) \o w1 = g \o (c1 \o w1)
        BY <4>1, Regroup
      <4> QED BY <4>2 DEF c1, w1
    <3> QED BY <2>1, <2>3, <3>1, <3>2 DEF Accounted
  <2> QED BY <2>1, <2>4 DEF DirInv, Failed, Prefixed, Dst, Src
<1>2. CASE ReadEof(d)
  BY <1>2 DEF ReadEof, TypeOK, DirInv, Failed, Prefixed, Accounted, Src, Dst
<1>3. CASE ReadFail(d)
  BY <1>3 DEF ReadFail, TypeOK, DirInv, Failed, Prefixed, Accounted, Src, Dst
<1>4. CASE Write(d)
  <2>1. /\ UNCHANGED <<open, sent, wire>> /\ task[d] = "write" /\ task'[d] = "read"
        /\ chunk'[d] = <<>>
    BY <1>4 DEF Write, TypeOK
  <2>2. CASE open[Dst(d)]
    <3>1. s = (g \o c) \o w
      BY <2>1, <2>2 DEF DirInv, Failed, Accounted
    <3>2. got'[d] = g \o c
      BY <1>4, <2>2 DEF Write, TypeOK
    <3>3. Prefixed(d)'
      BY <1>0, <2>1, <3>1, <3>2 DEF Prefixed
    <3>4. Accounted(d)'
      <4>1. g \o c \in Bytes
        BY <1>0, Joined
      <4>2. ((g \o c) \o <<>>) \o w = (g \o c) \o w
        BY <1>0, <4>1, Joined
      <4> QED BY <2>1, <3>1, <3>2, <4>2 DEF Accounted
    <3> QED BY <2>1, <3>3, <3>4 DEF DirInv, Failed
  <2>3. CASE ~open[Dst(d)]
    BY <1>4, <2>1, <2>3 DEF Write, DirInv, Failed, Prefixed, Dst
  <2> QED BY <2>2, <2>3
<1>5. CASE WriteFail(d)
  BY <1>5 DEF WriteFail, TypeOK, DirInv, Failed, Prefixed, Accounted, Src, Dst
<1>6. CASE Send(d)
  <2> DEFINE b == Len(sent[d]) + 1
  <2>1. /\ UNCHANGED <<open, task, chunk, got>> /\ open[Src(d)]
        /\ sent'[d] = Append(s, b) /\ wire'[d] = Append(w, b)
    BY <1>6 DEF Send, TypeOK
  <2>2. b \in 1..MaxSent
    BY <1>0, <1>6, SizeAssumption, LenProperties DEF Send, Bytes
  <2> HIDE DEF b
  <2>3. <<b>> \in Bytes
    BY <2>2 DEF Bytes
  <2>4. sent'[d] = s \o <<b>> /\ wire'[d] = w \o <<b>>
    BY <1>0, <2>1, <2>2, AppendIsConcat DEF Bytes
  <2>5. Prefixed(d)'
    <3> PICK rest \in Bytes : s = g \o rest
      BY DEF DirInv, Prefixed
    <3>1. rest \o <<b>> \in Bytes
      BY <2>3, Joined
    <3>2. (g \o rest) \o <<b>> = g \o (rest \o <<b>>)
      <4>1. g \in Bytes
        BY <1>0
      <4> HIDE DEF g
      <4> QED BY <2>3, <4>1, Regroup
    <3> QED BY <2>1, <2>4, <3>1, <3>2 DEF Prefixed
  <2>6. ASSUME Accounted(d) PROVE Accounted(d)'
    <3>1. g \o c \in Bytes
      BY <1>0, Joined
    <3>2. ((g \o c) \o w) \o <<b>> = (g \o c) \o (w \o <<b>>)
      <4> DEFINE gc == g \o c
      <4>1. gc \in Bytes
        BY <3>1
      <4> HIDE DEF gc
      <4>2. (gc \o w) \o <<b>> = gc \o (w \o <<b>>)
        BY <1>0, <2>3, <4>1, Regroup
      <4> QED BY <4>2 DEF gc
    <3> QED BY <2>1, <2>4, <2>6, <3>2 DEF Accounted
  <2> QED BY <2>1, <2>5, <2>6 DEF DirInv, Failed, Src, Dst
<1>7. CASE ReadPanic(d)
  <2>1. UNCHANGED <<open, sent, got>> /\ task'[d] = "panic"
    BY <1>7 DEF ReadPanic, TakeIn, TypeOK
  <2> QED BY <2>1 DEF DirInv, Failed, Prefixed
<1> QED BY <1>1, <1>2, <1>3, <1>4, <1>5, <1>6, <1>7 DEF Task

\* The steps of one direction leave the other alone.
LEMMA OthersKept ==
  ASSUME TypeOK, NEW d \in Directions, NEW x \in Directions \ {d}, Task(d) \/ Send(d)
  PROVE  Kept(x)
  BY DEF TypeOK, Task, Send, Read, ReadPanic, TakeIn, ReadEof, ReadFail, Write, WriteFail, Kept

\* IInv is inductive.
LEMMA Inductive == IInv /\ TypeOK' /\ [Next]_vars => IInv'
<1> SUFFICES ASSUME IInv, TypeOK', [Next]_vars, NEW x \in Directions
             PROVE  DirInv(x)'
  BY DEF IInv
<1>1. ASSUME NEW d \in Directions, Task(d) \/ Send(d) PROVE DirInv(x)'
  <2>1. CASE d = x
    BY <1>1, <2>1, OwnStep DEF IInv
  <2>2. CASE d # x
    <3>1. Kept(x)
      BY <1>1, <2>2, OthersKept DEF IInv
    <3> QED BY <3>1, KeptInv DEF IInv
  <2> QED BY <2>1, <2>2
<1>2. ASSUME NEW e \in Ends, Close(e) \/ SeeClose(e) PROVE DirInv(x)'
  <2>1. Kept(x)
    BY <1>2 DEF IInv, TypeOK, Close, SeeClose, Kept
  <2> QED BY <2>1, KeptInv DEF IInv
<1>3. CASE UNCHANGED vars
  <2>1. Kept(x)
    BY <1>3 DEF vars, Kept
  <2> QED BY <2>1, KeptInv DEF IInv
<1> QED BY <1>1, <1>2, <1>3 DEF Next

\* IInv holds in every reachable state.
THEOREM Invariance == Spec => []IInv
<1>1. Init /\ TypeOK => IInv
  <2> SUFFICES ASSUME Init, TypeOK, NEW d \in Directions PROVE DirInv(d)
    BY DEF IInv
  <2>1. /\ sent[d] = <<>> /\ got[d] = <<>> /\ chunk[d] = <<>> /\ wire[d] = <<>>
        /\ task[d] = "read" /\ <<>> \in Bytes
    BY AllBytes DEF Init
  <2>2. <<>> \o <<>> = <<>>
    BY <2>1, Joined
  <2> QED BY <2>1, <2>2 DEF DirInv, Failed, Prefixed, Accounted
<1>2. Init => TypeOK
  BY SizeAssumption, StreamsAssumption, EmptySeq DEF Init, TypeOK, Bytes
<1> QED BY <1>1, <1>2, TypeCorrect, Inductive, PTL DEF Spec

\* A direction that ends at the end of its stream has handed everything on to
\* a destination that is still there.
THEOREM NoTailIsLost == Spec => []TailIsDelivered
<1>1. IInv => TailIsDelivered
  <2> SUFFICES ASSUME IInv, NEW d \in Directions, task[d] = "eof", open[Dst(d)]
               PROVE  got[d] = sent[d]
    BY DEF TailIsDelivered
  <2>1. got[d] \in Bytes /\ TypeOK
    BY AllBytes DEF IInv
  <2>2. wire[d] = <<>> /\ chunk[d] = <<>>
    BY DEF IInv, DirInv, TypeOK
  <2>3. sent[d] = (got[d] \o <<>>) \o <<>>
    BY <2>2 DEF IInv, DirInv, Failed, Accounted
  <2>4. got[d] \o <<>> = got[d]
    BY <2>1, Joined
  <2> QED BY <2>3, <2>4
<1> QED BY <1>1, Invariance, PTL

-----------------------------------------------------------------------------
\* What the task writes extends what was handed over to a longer prefix of
\* what was sent.
LEMMA WriteDelivers ==
  ASSUME IInv, NEW d \in Directions, Write(d), open[Dst(d)]
  PROVE  P!Deliver(d)
<1> DEFINE g == got[d]
           c == chunk[d]
           w == wire[d]
           n == Len(g) + Len(c)
<1>1. g \in Bytes /\ c \in Bytes /\ w \in Bytes /\ TypeOK
  BY AllBytes DEF IInv
<1>2. /\ task[d] = "write" /\ c # <<>>
      /\ UNCHANGED <<sent, open>> /\ got' = [got EXCEPT ![d] = g \o c]
  <2>1. task[d] = "write" /\ UNCHANGED <<sent, open>>
    BY DEF Write
  <2>2. c # <<>>
    BY <1>1, <2>1 DEF TypeOK
  <2>3. got' = [got EXCEPT ![d] = g \o c]
    BY DEF Write
  <2> QED BY <2>1, <2>2, <2>3
<1>3. sent[d] = (g \o c) \o w
  BY <1>2 DEF IInv, DirInv, Failed, Accounted
<1> HIDE DEF g, c, w
<1>4. Len(g) \in Nat /\ Len(c) \in Nat \ {0} /\ Len(w) \in Nat
  BY <1>1, <1>2, LenProperties, EmptySeq DEF Bytes
<1>5. g \o c \in Bytes /\ Len(g \o c) = n
  BY <1>1, ConcatProperties DEF Bytes
<1>6. Len((g \o c) \o w) = n + Len(w)
  <2> DEFINE gc == g \o c
  <2>1. gc \in Bytes /\ Len(gc) = n
    BY <1>5
  <2> HIDE DEF gc, n
  <2>2. Len(gc \o w) = n + Len(w)
    BY <1>1, <2>1, ConcatProperties DEF Bytes
  <2> QED BY <2>2 DEF gc
<1>7. SubSeq((g \o c) \o w, 1, n) = g \o c
  <2> DEFINE gc == g \o c
  <2>1. gc \in Bytes /\ Len(gc) = n /\ 1 \in 1..n /\ n \in 1..n
    BY <1>4, <1>5
  <2> HIDE DEF gc, n
  <2>2. SubSeq(gc \o w, 1, n) = SubSeq(gc, 1, n)
    BY <1>1, <2>1, SubSeqOfConcat1 DEF Bytes
  <2>3. SubSeq(gc, 1, n) = gc
    BY <2>1, SubSeqFull DEF Bytes
  <2> QED BY <2>2, <2>3 DEF gc
<1>8. n \in (Len(g) + 1) .. Len(sent[d])
  BY <1>3, <1>4, <1>6
<1>9. got' = [got EXCEPT ![d] = SubSeq(sent[d], 1, n)]
  BY <1>2, <1>3, <1>7
<1> QED BY <1>2, <1>8, <1>9 DEF P!Deliver, P!Dst, Dst, g

\* Every step of the two tasks and of the two ends is a step of the pipe, or
\* leaves it as it is.
LEMMA RefinesNext == IInv /\ [Next]_vars => [P!Next]_(P!vars)
<1> SUFFICES ASSUME IInv, [Next]_vars PROVE [P!Next]_(P!vars)
  OBVIOUS
<1> USE DEF P!vars
<1>1. ASSUME NEW d \in Directions, Task(d) PROVE [P!Next]_(P!vars)
  <2>1. CASE Write(d)
    <3>1. CASE open[Dst(d)]
      BY <2>1, <3>1, WriteDelivers DEF P!Next, P!Directions, Directions
    <3>2. CASE ~open[Dst(d)]
      BY <2>1, <3>2 DEF Write
    <3> QED BY <3>1, <3>2
  <2>2. CASE ~Write(d)
    BY <1>1, <2>2 DEF Task, Read, ReadPanic, TakeIn, ReadEof, ReadFail, WriteFail
  <2> QED BY <2>1, <2>2
<1>2. ASSUME NEW d \in Directions, Send(d) PROVE P!Next
  <2>1. P!Send(d)
    BY <1>2 DEF Send, P!Send, P!Src, Src
  <2> QED BY <2>1 DEF P!Next, P!Directions, Directions
<1>3. ASSUME NEW e \in Ends, Close(e) \/ SeeClose(e) PROVE P!Next
  <2>1. P!Close(e)
    BY <1>3 DEF Close, SeeClose, P!Close
  <2> QED BY <2>1 DEF P!Next, P!Ends, Ends
<1>4. CASE UNCHANGED vars
  BY <1>4 DEF vars
<1> QED BY <1>1, <1>2, <1>3, <1>4 DEF Next

\* The relay is a transparent pipe: each end gets an unbroken prefix of what
\* the other wrote.
THEOREM RelayIsPipe == Spec => ImplementsPipe
<1>1. Init => P!Init
  BY DEF Init, P!Init, P!Directions, Directions, P!Ends, Ends
<1> QED BY <1>1, RefinesNext, Invariance, PTL DEF Spec, ImplementsPipe, P!Spec
-----------------------------------------------------------------------------
\* PlayStart: its invariant is where its chunk batch stands.
\* A packet written, and the types of what the batches depend on.
Sent == [kind : S!Kinds, n : Nat]

StartTypeOK == /\ burst \in Seq(S!Kinds)
               /\ out \in Seq(Sent)
               /\ s_pc \in {"login", "burst", "start", "chunks", "finished", "center", "loop"}
               /\ todo \in 0..Chunks /\ tid \in Nat

\* The chunk batch that start i opens has no end yet, and what is still to do;
\* every start but i has its end.
Underway(i) == /\ \A k \in S!Written("finished") : k < i
               /\ S!ChunksBetween(i, Len(out) + 1) + todo = Chunks
AllEndedBut(i) == \A j \in S!Written("start") : j = i \/ \E k \in S!Written("finished") : j < k
BatchInv == IF s_pc = "chunks" THEN \E i \in S!Written("start") : Underway(i) /\ AllEndedBut(i)
            ELSE AllEndedBut(0)

\* The inductive invariant.
StartInv == StartTypeOK /\ BatchInv /\ S!BatchesAreWhole

-----------------------------------------------------------------------------
\* PlayStart counts with the Cardinality of FiniteSets.
LEMMA SameCount == ASSUME NEW T PROVE S!Cardinality(T) = Cardinality(T)
BY DEF S!Cardinality, Cardinality

\* What one more packet changes in what has been written of a kind.
LEMMA WrittenNext ==
  ASSUME out \in Seq(Sent), NEW kind \in S!Kinds, NEW m \in Nat, S!Write(kind, m)
  PROVE  /\ out' \in Seq(Sent) /\ Len(out) \in Nat /\ Len(out') = Len(out) + 1
         /\ \A i \in 1..Len(out) : out'[i] = out[i]
         /\ out'[Len(out) + 1] = [kind |-> kind, n |-> m]
<1>1. [kind |-> kind, n |-> m] \in Sent
  BY DEF Sent
<1> QED BY <1>1, AppendProperties, LenProperties DEF S!Write

\* The places of a kind grow by the new one, if it is of that kind.
LEMMA WrittenIs ==
  ASSUME out \in Seq(Sent), NEW kind \in S!Kinds, NEW m \in Nat, S!Write(kind, m), NEW k
  PROVE  /\ S!Written(k) \subseteq 1..Len(out)
         /\ S!Written(k)' = IF k = kind THEN S!Written(k) \cup {Len(out) + 1} ELSE S!Written(k)
<1> PICK n \in Nat : n = Len(out)
  BY LenProperties
<1>1. /\ Len(out') = n + 1
      /\ \A i \in 1..n : out'[i] = out[i]
      /\ out'[n + 1] = [kind |-> kind, n |-> m]
  BY WrittenNext, Zenon
<1>2. 1 .. (n + 1) = 1..n \cup {n + 1}
  OBVIOUS
<1>3. S!Written(k)' = {i \in 1 .. (n + 1) : out'[i].kind = k}
  BY <1>1 DEF S!Written
<1>4. S!Written(k) = {i \in 1..n : out[i].kind = k}
  BY DEF S!Written
<1>5. out'[n + 1].kind = kind
  BY <1>1
<1> QED BY <1>1, <1>2, <1>3, <1>4, <1>5

\* So does the number of chunks between two places, if a chunk is written.
LEMMA CountIs ==
  ASSUME out \in Seq(Sent), NEW kind \in S!Kinds, NEW m \in Nat, S!Write(kind, m),
         NEW i \in Nat, NEW j \in Nat
  PROVE  /\ S!ChunksBetween(i, j) \in Nat
         /\ j <= Len(out) + 1 => S!ChunksBetween(i, j)' = S!ChunksBetween(i, j)
         /\ i <= Len(out) /\ j = Len(out) + 2 =>
              S!ChunksBetween(i, j)' = S!ChunksBetween(i, Len(out) + 1) + (IF kind = "chunk" THEN 1 ELSE 0)
<1> PICK n \in Nat : n = Len(out)
  BY LenProperties
<1> PICK W, X : W = S!Written("chunk") /\ X = S!Written("chunk")'
  OBVIOUS
<1>1. W \subseteq 1..n /\ X = IF kind = "chunk" THEN W \cup {n + 1} ELSE W
  BY WrittenIs
<1> DEFINE T(U, l) == {k \in U : i < k /\ k < l}
<1>2. /\ S!ChunksBetween(i, j) = Cardinality(T(W, j))
      /\ S!ChunksBetween(i, j)' = Cardinality(T(X, j))
      /\ S!ChunksBetween(i, n + 1) = Cardinality(T(W, n + 1))
  <2>1. ASSUME NEW l PROVE S!ChunksBetween(i, l) = Cardinality(T(W, l))
    BY SameCount DEF S!ChunksBetween
  <2>2. S!ChunksBetween(i, j)' = Cardinality({k \in S!Written("chunk")' : i < k /\ k < j})
    BY SameCount DEF S!ChunksBetween
  <2>3. S!ChunksBetween(i, j)' = Cardinality(T(X, j))
    BY <2>2
  <2> QED BY <2>1, <2>3
<1>3. ASSUME NEW l PROVE IsFiniteSet(T(W, l)) /\ Cardinality(T(W, l)) \in Nat
  <2>1. T(W, l) \subseteq 1..n /\ IsFiniteSet(1..n)
    BY <1>1, FS_Interval
  <2> HIDE DEF T
  <2> QED BY <2>1, FS_Subset, FS_CardinalityType
<1>4. ASSUME j <= n + 1 PROVE T(X, j) = T(W, j)
  BY <1>1, <1>4
<1>5. ASSUME i <= n, j = n + 2
      PROVE  Cardinality(T(X, j)) = Cardinality(T(W, n + 1)) + (IF kind = "chunk" THEN 1 ELSE 0)
  <2>1. CASE kind = "chunk"
    <3>1. T(X, j) = T(W, n + 1) \cup {n + 1} /\ n + 1 \notin T(W, n + 1)
      BY <1>1, <1>5, <2>1
    <3>2. IsFiniteSet(T(W, n + 1)) /\ Cardinality(T(W, n + 1)) \in Nat
      BY <1>3
    <3> HIDE DEF T
    <3> QED BY <2>1, <3>1, <3>2, FS_AddElement
  <2>2. CASE kind # "chunk"
    <3>1. T(X, j) = T(W, n + 1)
      BY <1>1, <1>5, <2>2
    <3>2. Cardinality(T(W, n + 1)) \in Nat
      BY <1>3
    <3> HIDE DEF T
    <3> QED BY <2>2, <3>1, <3>2
  <2> QED BY <2>1, <2>2
<1> HIDE DEF T
<1> QED BY <1>2, <1>3, <1>4, <1>5

\* What is whole stays so if a chunk is written into an open batch only, and an
\* end behind the chunks it announces.
LEMMA WholeKept ==
  ASSUME out \in Seq(Sent), S!BatchesAreWhole, NEW kind \in S!Kinds, NEW m \in Nat, S!Write(kind, m),
         kind = "chunk" => \E i \in S!Written("start") : \A k \in S!Written("finished") : k < i,
         kind = "finished" => \A i \in S!Written("start") :
            (\E k \in S!Written("finished") : i < k) \/ S!ChunksBetween(i, Len(out) + 1) = m
  PROVE  S!BatchesAreWhole'
<1> PICK n \in Nat : n = Len(out)
  BY LenProperties
<1>1. /\ S!Written("chunk") \subseteq 1..n /\ S!Written("start") \subseteq 1..n /\ S!Written("finished") \subseteq 1..n
      /\ S!Written("chunk")' = IF kind = "chunk" THEN S!Written("chunk") \cup {n + 1} ELSE S!Written("chunk")
      /\ S!Written("start")' = IF kind = "start" THEN S!Written("start") \cup {n + 1} ELSE S!Written("start")
      /\ S!Written("finished")' = IF kind = "finished" THEN S!Written("finished") \cup {n + 1} ELSE S!Written("finished")
  BY WrittenIs
<1>2. \A i \in 1..n : out'[i] = out[i]
  BY WrittenNext
<1>3. ASSUME NEW j \in S!Written("chunk")'
      PROVE  \E i \in S!Written("start")' : S!Opens(i, j)'
  <2>1. CASE j \in S!Written("chunk")
    <3>1. PICK i \in S!Written("start") : S!Opens(i, j)
      BY <2>1 DEF S!BatchesAreWhole
    <3>2. i \in S!Written("start")' /\ i < j /\ j <= n
      BY <1>1, <2>1, <3>1 DEF S!Opens
    <3>3. \A k \in S!Written("finished")' : ~(i < k /\ k < j)
      BY <1>1, <3>1, <3>2 DEF S!Opens
    <3> QED BY <3>2, <3>3 DEF S!Opens
  <2>2. CASE kind = "chunk" /\ j = n + 1
    <3>1. PICK i \in S!Written("start") : \A k \in S!Written("finished") : k < i
      BY <2>2
    <3>2. i \in S!Written("start")' /\ i < j /\ S!Written("finished")' = S!Written("finished")
      BY <1>1, <2>2, <3>1
    <3>3. \A k \in S!Written("finished")' : ~(i < k /\ k < j)
      BY <1>1, <3>1, <3>2
    <3> QED BY <3>2, <3>3 DEF S!Opens
  <2> QED BY <1>1, <2>1, <2>2
<1>4. ASSUME NEW i \in S!Written("start")', NEW j \in S!Written("finished")', S!Opens(i, j)'
      PROVE  S!ChunksBetween(i, j)' = out'[j].n
  <2>1. i < j /\ \A k \in S!Written("finished")' : ~(i < k /\ k < j)
    BY <1>4 DEF S!Opens
  <2>2. i \in S!Written("start") /\ i \in 1..n /\ i \in Nat
    BY <1>1, <2>1
  <2>3. j \in Nat /\ j <= n + 1
    BY <1>1
  <2>4. S!ChunksBetween(i, j)' = S!ChunksBetween(i, j)
    BY <2>2, <2>3, CountIs
  <2>5. CASE j \in S!Written("finished")
    <3>1. \A k \in S!Written("finished") : ~(i < k /\ k < j)
      BY <1>1, <2>1
    <3>2. S!Opens(i, j)
      BY <2>1, <2>2, <3>1 DEF S!Opens
    <3>3. out'[j] = out[j]
      BY <1>1, <1>2, <2>5
    <3> QED BY <2>2, <2>4, <2>5, <3>2, <3>3 DEF S!BatchesAreWhole
  <2>6. CASE kind = "finished" /\ j = n + 1
    <3>1. ~(\E k \in S!Written("finished") : i < k)
      BY <1>1, <2>1, <2>6
    <3>2. S!ChunksBetween(i, n + 1) = m
      BY <2>2, <2>6, <3>1
    <3>3. out'[n + 1] = [kind |-> kind, n |-> m]
      BY WrittenNext, Zenon
    <3> QED BY <2>4, <2>6, <3>2, <3>3
  <2> QED BY <1>1, <2>5, <2>6
<1> QED BY <1>3, <1>4 DEF S!BatchesAreWhole

\* Nothing is written yet.
LEMMA StartInit == S!Init /\ S!CapturesAssumption /\ S!ChunksAssumption => StartInv
<1> SUFFICES ASSUME S!Init, S!CapturesAssumption, S!ChunksAssumption PROVE StartInv
  OBVIOUS
<1>1. burst \in Seq(S!Kinds)
  <2>1. capture \in Seq(S!Kinds)
    BY DEF S!Init, S!CapturesAssumption
  <2>2. S!DynamicBurst \in Seq(S!Kinds)
    BY DEF S!DynamicBurst, S!Kinds
  <2> QED BY <2>1, <2>2 DEF S!Init
<1>2. StartTypeOK
  BY <1>1 DEF StartTypeOK, S!Init, S!ChunksAssumption
<1>3. \A k : S!Written(k) = {}
  BY DEF S!Init, S!Written
<1>4. BatchInv /\ S!BatchesAreWhole
  BY <1>3 DEF BatchInv, AllEndedBut, S!BatchesAreWhole, S!Init
<1> QED BY <1>2, <1>4 DEF StartInv

\* A packet that neither opens nor closes a batch, outside of one.
LEMMA OutsideKeeps ==
  ASSUME StartInv, NEW kind \in S!Kinds \ {"start", "chunk"}, NEW m \in Nat, S!Write(kind, m),
         s_pc # "chunks", s_pc' # "chunks"
  PROVE  out' \in Seq(Sent) /\ BatchInv' /\ S!BatchesAreWhole'
<1> PICK n \in Nat : n = Len(out)
  BY LenProperties DEF StartInv, StartTypeOK
<1>1. out \in Seq(Sent) /\ AllEndedBut(0) /\ S!BatchesAreWhole
  BY DEF StartInv, StartTypeOK, BatchInv
<1>2. /\ S!Written("start") \subseteq 1..n /\ S!Written("finished") \subseteq 1..n
      /\ S!Written("start")' = S!Written("start")
      /\ S!Written("finished") \subseteq S!Written("finished")'
  BY <1>1, WrittenIs
<1>3. \A i \in S!Written("start") : \E k \in S!Written("finished") : i < k
  BY <1>1, <1>2 DEF AllEndedBut
<1>4. BatchInv'
  BY <1>2, <1>3 DEF BatchInv, AllEndedBut
<1>5. S!BatchesAreWhole'
  BY <1>1, <1>3, WholeKept
<1> QED BY <1>1, <1>4, <1>5, WrittenNext

\* A step that writes nothing.
LEMMA SameOut ==
  ASSUME StartInv, out' = out, todo' = todo
  PROVE  /\ S!BatchesAreWhole'
         /\ AllEndedBut(0) => AllEndedBut(0)'
         /\ (\E i \in S!Written("start") : Underway(i) /\ AllEndedBut(i)) =>
               (\E i \in S!Written("start") : Underway(i) /\ AllEndedBut(i))'
<1>1. \A k : S!Written(k)' = S!Written(k)
  BY DEF S!Written
<1>2. ASSUME NEW i, NEW j PROVE S!ChunksBetween(i, j)' = S!ChunksBetween(i, j) /\ S!Opens(i, j)' = S!Opens(i, j)
  BY <1>1 DEF S!ChunksBetween, S!Opens
<1>3. S!BatchesAreWhole'
  BY <1>1, <1>2 DEF StartInv, S!BatchesAreWhole
<1>4. ASSUME NEW i PROVE S!ChunksBetween(i, Len(out) + 1)' = S!ChunksBetween(i, Len(out) + 1)
  BY <1>1 DEF S!ChunksBetween
<1> QED BY <1>1, <1>3, <1>4 DEF AllEndedBut, Underway

\* One case for each action.
LEMMA StartKeeps == ASSUME S!ChunksAssumption, StartInv, [S!Next]_(S!vars) PROVE StartInv'
<1> USE DEF StartInv
<1> PICK n \in Nat : n = Len(out)
  BY LenProperties DEF StartTypeOK
<1>0. out \in Seq(Sent) /\ burst \in Seq(S!Kinds) /\ Chunks \in Nat /\ todo \in 0..Chunks
  BY DEF StartTypeOK, S!ChunksAssumption
<1>1. CASE S!SendLogin
  <2>1. S!Write("login", 0) /\ s_pc = "login" /\ s_pc' = "burst"
        /\ burst' = burst /\ todo' = todo /\ tid' = tid
    BY <1>1 DEF S!SendLogin
  <2>2. out' \in Seq(Sent) /\ BatchInv' /\ S!BatchesAreWhole'
    BY <2>1, OutsideKeeps DEF S!Kinds
  <2> QED BY <1>0, <2>1, <2>2 DEF StartTypeOK
<1>2. CASE S!SendPosition
  <2>1. /\ S!Write("position", tid + 1) /\ s_pc = "burst" /\ s_pc' = "burst" /\ todo' = todo
        /\ tid' = tid + 1 /\ burst # <<>> /\ burst' = Tail(burst)
    BY <1>2 DEF S!SendPosition, S!NextPacket, S!Write
  <2>2. tid + 1 \in Nat /\ burst' \in Seq(S!Kinds)
    BY <1>0, <2>1, HeadTailProperties DEF StartTypeOK
  <2>3. out' \in Seq(Sent) /\ BatchInv' /\ S!BatchesAreWhole'
    BY <2>1, <2>2, OutsideKeeps DEF S!Kinds
  <2> QED BY <1>0, <2>1, <2>2, <2>3 DEF StartTypeOK
<1>3. CASE S!SendPacket
  <2>1. /\ S!Write(Head(burst), 0) /\ s_pc = "burst" /\ s_pc' = "burst" /\ todo' = todo /\ tid' = tid
        /\ burst # <<>> /\ burst' = Tail(burst) /\ Head(burst) \in {"dynamic", "bundle", "other", "finished"}
    BY <1>3 DEF S!SendPacket, S!NextPacket
  <2>2. burst' \in Seq(S!Kinds)
    BY <1>0, <2>1, HeadTailProperties
  <2>3. Head(burst) \in S!Kinds \ {"start", "chunk"}
    BY <2>1 DEF S!Kinds
  <2>4. out' \in Seq(Sent) /\ BatchInv' /\ S!BatchesAreWhole'
    BY <2>1, <2>3, OutsideKeeps
  <2> QED BY <1>0, <2>1, <2>2, <2>4 DEF StartTypeOK
<1>4. CASE S!SkipPacket
  <2>1. /\ s_pc = "burst" /\ s_pc' = "burst" /\ todo' = todo /\ tid' = tid /\ out' = out
        /\ burst # <<>> /\ burst' = Tail(burst)
    BY <1>4 DEF S!SkipPacket, S!NextPacket
  <2>2. burst' \in Seq(S!Kinds)
    BY <1>0, <2>1, HeadTailProperties
  <2> QED BY <2>1, <2>2, SameOut DEF StartTypeOK, BatchInv
<1>5. CASE S!BurstDone
  <2>1. /\ s_pc = "burst" /\ s_pc' = "start" /\ todo' = todo /\ tid' = tid /\ out' = out /\ burst' = burst
    BY <1>5 DEF S!BurstDone
  <2> QED BY <2>1, SameOut DEF StartTypeOK, BatchInv
<1>6. CASE S!BatchStart
  <2>1. /\ S!Write("start", 0) /\ s_pc = "start" /\ s_pc' = "chunks" /\ todo' = Chunks
        /\ tid' = tid /\ burst' = burst
    BY <1>6 DEF S!BatchStart
  <2>2. /\ S!Written("start")' = S!Written("start") \cup {n + 1}
        /\ S!Written("finished")' = S!Written("finished") /\ S!Written("finished") \subseteq 1..n
        /\ S!Written("chunk")' = S!Written("chunk") /\ S!Written("chunk") \subseteq 1..n
        /\ S!Written("start") \subseteq 1..n
    BY <1>0, <2>1, WrittenIs DEF S!Kinds
  <2>3. Len(out') = n + 1 /\ out' \in Seq(Sent)
    BY <1>0, <2>1, WrittenNext DEF S!Kinds
  <2> PICK i \in Nat : i = n + 1
    OBVIOUS
  <2>4. S!ChunksBetween(i, Len(out) + 1)' = 0
    <3>1. {k \in S!Written("chunk")' : i < k /\ k < Len(out') + 1} = {}
      BY <2>2, <2>3
    <3>2. S!ChunksBetween(i, Len(out) + 1)' = Cardinality({})
      BY <3>1, SameCount DEF S!ChunksBetween
    <3> QED BY <3>2, FS_EmptySet
  <2>5. Underway(i)'
    BY <1>0, <2>1, <2>2, <2>4 DEF Underway
  <2>6. AllEndedBut(i)'
    BY <2>1, <2>2 DEF BatchInv, AllEndedBut
  <2>7. BatchInv'
    BY <2>1, <2>2, <2>5, <2>6 DEF BatchInv
  <2>8. S!BatchesAreWhole'
    BY <1>0, <2>1, WholeKept DEF S!Kinds
  <2> QED BY <1>0, <2>1, <2>3, <2>7, <2>8 DEF StartTypeOK
<1>7. CASE S!SendChunk
  <2>1. /\ S!Write("chunk", 0) /\ s_pc = "chunks" /\ s_pc' = "chunks" /\ todo > 0 /\ todo' = todo - 1
        /\ tid' = tid /\ burst' = burst
    BY <1>7 DEF S!SendChunk
  <2>2. /\ S!Written("start")' = S!Written("start") /\ S!Written("start") \subseteq 1..n
        /\ S!Written("finished")' = S!Written("finished")
    BY <1>0, <2>1, WrittenIs DEF S!Kinds
  <2>3. Len(out') = n + 1 /\ out' \in Seq(Sent)
    BY <1>0, <2>1, WrittenNext DEF S!Kinds
  <2> PICK i \in S!Written("start") : Underway(i) /\ AllEndedBut(i)
    BY <2>1 DEF BatchInv
  <2>4. i \in Nat /\ i <= n
    BY <2>2
  <2> PICK j \in Nat : j = n + 2
    OBVIOUS
  <2>5. S!ChunksBetween(i, j)' = S!ChunksBetween(i, n + 1) + 1 /\ S!ChunksBetween(i, n + 1) \in Nat
    BY <1>0, <2>1, <2>4, CountIs DEF S!Kinds
  <2>6. S!ChunksBetween(i, Len(out) + 1)' = S!ChunksBetween(i, j)'
    BY <2>3 DEF S!ChunksBetween
  <2>7. Underway(i)'
    <3>1. S!ChunksBetween(i, n + 1) + todo = Chunks /\ \A k \in S!Written("finished")' : k < i
      BY <2>2 DEF Underway
    <3>2. todo \in Nat /\ Chunks \in Nat
      BY <1>0
    <3>3. S!ChunksBetween(i, Len(out) + 1)' + todo' = Chunks
      BY ONLY <2>1, <2>5, <2>6, <3>1, <3>2
    <3> QED BY ONLY <3>1, <3>3 DEF Underway
  <2>8. AllEndedBut(i)'
    BY <2>2 DEF AllEndedBut
  <2>9. BatchInv'
    BY <2>1, <2>2, <2>7, <2>8 DEF BatchInv
  <2>10. S!BatchesAreWhole'
    <3>1. \E l \in S!Written("start") : \A k \in S!Written("finished") : k < l
      BY DEF Underway
    <3> QED BY <1>0, <2>1, <3>1, WholeKept DEF S!Kinds
  <2> QED BY <1>0, <2>1, <2>3, <2>9, <2>10 DEF StartTypeOK
<1>8. CASE S!BatchFinished
  <2>1. /\ S!Write("finished", Chunks) /\ s_pc = "chunks" /\ s_pc' = "center" /\ todo = 0 /\ todo' = todo
        /\ tid' = tid /\ burst' = burst
    BY <1>8 DEF S!BatchFinished
  <2>2. /\ S!Written("start")' = S!Written("start") /\ S!Written("start") \subseteq 1..n
        /\ S!Written("finished")' = S!Written("finished") \cup {n + 1}
    BY <1>0, <2>1, WrittenIs DEF S!Kinds
  <2>3. out' \in Seq(Sent)
    BY <1>0, <2>1, WrittenNext DEF S!Kinds
  <2> PICK i \in S!Written("start") : Underway(i) /\ AllEndedBut(i)
    BY <2>1 DEF BatchInv
  <2>4. i \in Nat /\ S!ChunksBetween(i, n + 1) \in Nat
    <3>1. i \in Nat /\ n + 1 \in Nat
      BY <2>2
    <3> QED BY <1>0, <2>1, <3>1, CountIs DEF S!Kinds
  <2>5. S!ChunksBetween(i, n + 1) = Chunks
    BY <1>0, <2>1, <2>4 DEF Underway
  <2>6. \A j \in S!Written("start") :
           (\E k \in S!Written("finished") : j < k) \/ S!ChunksBetween(j, Len(out) + 1) = Chunks
    BY <2>5 DEF AllEndedBut
  <2>7. S!BatchesAreWhole'
    BY <1>0, <2>1, <2>6, WholeKept DEF S!Kinds
  <2>8. BatchInv'
    BY <2>1, <2>2 DEF BatchInv, AllEndedBut
  <2> QED BY <1>0, <2>1, <2>3, <2>7, <2>8 DEF StartTypeOK
<1>9. CASE S!SendCenter
  <2>1. /\ S!Write("center", 0) /\ s_pc = "center" /\ s_pc' \in {"loop", "start"}
        /\ burst' = burst /\ todo' = todo /\ tid' = tid
    BY <1>9 DEF S!SendCenter
  <2>2. out' \in Seq(Sent) /\ BatchInv' /\ S!BatchesAreWhole'
    BY <2>1, OutsideKeeps DEF S!Kinds
  <2> QED BY <1>0, <2>1, <2>2 DEF StartTypeOK
<1>10. CASE UNCHANGED S!vars
  <2>1. /\ s_pc' = s_pc /\ todo' = todo /\ tid' = tid /\ out' = out /\ burst' = burst
    BY <1>10 DEF S!vars
  <2> QED BY <2>1, SameOut DEF StartTypeOK, BatchInv
<1> QED BY <1>1, <1>2, <1>3, <1>4, <1>5, <1>6, <1>7, <1>8, <1>9, <1>10 DEF S!Next

\* No captured terrain reaches the client, and every batch closes with the chunks
\* it announced, whatever was captured and however many chunks a batch has
\* (server.rs: send_chunks).
THEOREM BatchesWhole == S!Spec => []BatchesAreWhole
<1>1. S!Init => StartInv
  BY StartInit, ConstantsFit
<1>2. StartInv /\ [S!Next]_(S!vars) => StartInv'
  BY StartKeeps, ConstantsFit
<1>3. StartInv => BatchesAreWhole
  BY DEF StartInv, BatchesAreWhole
<1> QED BY <1>1, <1>2, <1>3, PTL DEF S!Spec
-----------------------------------------------------------------------------
\* The ping responder: what opens a conversation.
Opening == DOMAIN G!Conversations

\* The types of what is sent, pending and answered.
PingTypeOK == /\ {plan, asked, p_wire, p_buf} \subseteq Seq(G!Frames)
              /\ p_down \in Seq({"status", "pong", "disconnect"})
              /\ p_pc \in {"read", "parse", "closed"}
              /\ p_state \in {"handshake", "status", "login"}

\* The frames sent and not handled yet, and all that are still to be handled.
Pending == p_buf \o p_wire
Coming  == Pending \o plan

\* Until the handshake is handled it is in front of the requests; from then on,
\* what is pending is what has been asked and not answered.
Begins == /\ p_down = <<>>
          /\ Coming # <<>> => Coming[1] \in Opening
          /\ \A i \in 2..Len(Coming) : Coming[i] \in G!Conversations[Coming[1]]
          /\ Len(asked) = IF Pending = <<>> THEN 0 ELSE Len(Pending) - 1
          /\ \A i \in 1..Len(asked) : asked[i] = Pending[i + 1]
Goes(k) == /\ \A i \in 1..Len(Coming) : Coming[i] \in G!Conversations[k]
           /\ Len(asked) = Len(p_down) + Len(Pending)
           /\ \A i \in 1..Len(Pending) : asked[Len(p_down) + i] = Pending[i]
           /\ \A i \in 1..Len(p_down) : p_down[i] = G!Reply[asked[i]]

\* The inductive invariant.
PingInv == /\ PingTypeOK
           /\ p_state = "handshake" => Begins
           /\ p_state = "status" => Goes("toStatus")
           /\ p_state = "login" => Goes("toLogin")
-----------------------------------------------------------------------------
\* What has a reply, and what the replies are.
Request == {"statusRequest", "ping", "loginStart"}
Replies == {"status", "pong", "disconnect"}

\* Every frame opens a conversation or asks for a reply.
LEMMA FramesOf ==
  /\ DOMAIN G!Reply = Request /\ Opening = {"toStatus", "toLogin"} /\ Opening \cap Request = {}
  /\ \A k \in Opening : G!Conversations[k] \subseteq Request
  /\ G!Frames = Opening \cup Request
  /\ \A f \in Request : G!Reply[f] \in Replies
BY DEF G!Reply, Request, Opening, G!Conversations, G!Frames, G!Id, Replies

\* What is pending comes first.
LEMMA PendingIs ==
  ASSUME PingTypeOK
  PROVE  /\ Pending \in Seq(G!Frames) /\ Coming \in Seq(G!Frames)
         /\ Len(Pending) \in Nat /\ Len(Coming) \in Nat /\ Len(Pending) <= Len(Coming)
         /\ \A i \in 1..Len(Pending) : Coming[i] = Pending[i]
         /\ Len(asked) \in Nat /\ Len(p_down) \in Nat
<1>1. Pending \in Seq(G!Frames)
  BY ConcatProperties DEF PingTypeOK, Pending
<1>2. /\ Coming \in Seq(G!Frames) /\ Len(Coming) = Len(Pending) + Len(plan)
      /\ \A i \in 1 .. (Len(Pending) + Len(plan)) : Coming[i] = IF i <= Len(Pending) THEN Pending[i] ELSE plan[i - Len(Pending)]
  <2> HIDE DEF Pending
  <2> QED BY <1>1, ConcatProperties DEF PingTypeOK, Coming
<1>3. Len(Pending) \in Nat /\ Len(plan) \in Nat /\ Len(asked) \in Nat /\ Len(p_down) \in Nat
  BY <1>1, LenProperties DEF PingTypeOK
<1> QED BY <1>1, <1>2, <1>3

\* Sending a frame, and reading some, change nothing in the order of what the
\* server has to handle; taking one drops the first.
LEMMA SendMoves ==
  ASSUME PingTypeOK, G!Send
  PROVE  /\ PingTypeOK' /\ Coming' = Coming /\ Head(plan) \in G!Frames
         /\ Pending' = Append(Pending, Head(plan)) /\ Coming[Len(Pending) + 1] = Head(plan)
         /\ Len(Pending) < Len(Coming)
<1>1. /\ p_buf' = p_buf /\ p_wire' = Append(p_wire, Head(plan)) /\ plan' = Tail(plan) /\ plan # <<>>
      /\ asked' = (IF Head(plan) \in DOMAIN G!Reply THEN Append(asked, Head(plan)) ELSE asked)
      /\ p_pc' = p_pc /\ p_state' = p_state /\ p_down' = p_down
  BY DEF G!Send
<1>2. PICK f \in G!Frames, t \in Seq(G!Frames) : f = Head(plan) /\ t = Tail(plan) /\ plan = <<f>> \o t
  <2>1. plan \in Seq(G!Frames) /\ Head(plan) \in G!Frames /\ Tail(plan) \in Seq(G!Frames)
    BY <1>1, HeadTailProperties DEF PingTypeOK
  <2>2. plan = <<Head(plan)>> \o Tail(plan)
    BY <1>1, <2>1
  <2> QED BY <2>1, <2>2
<1>3. <<f>> \in Seq(G!Frames) /\ p_wire \in Seq(G!Frames) /\ p_buf \in Seq(G!Frames) /\ asked \in Seq(G!Frames)
  BY DEF PingTypeOK
<1>4. Pending \in Seq(G!Frames)
  BY PendingIs
<1>5. Append(p_wire, f) = p_wire \o <<f>> /\ Append(Pending, f) = Pending \o <<f>>
  BY <1>3, <1>4, AppendIsConcat
<1>6. Pending' = Append(Pending, f)
  <2>1. Pending' = p_buf \o (p_wire \o <<f>>)
    BY <1>1, <1>2, <1>5 DEF Pending
  <2> QED BY <1>3, <1>5, <2>1, ConcatAssociative DEF Pending
<1>7. Coming' = Coming
  <2>1. Coming' = (Pending \o <<f>>) \o t
    BY <1>1, <1>2, <1>5, <1>6 DEF Coming
  <2>2. Coming = Pending \o (<<f>> \o t)
    BY <1>2 DEF Coming
  <2> HIDE DEF Pending
  <2> QED BY <1>3, <1>4, <2>1, <2>2, ConcatAssociative
<1>8. PingTypeOK'
  <2>1. plan' \in Seq(G!Frames) /\ p_wire' \in Seq(G!Frames) /\ asked' \in Seq(G!Frames)
    BY <1>1, <1>2, <1>3, AppendProperties
  <2> QED BY <1>1, <2>1 DEF PingTypeOK
<1>9. Len(Pending) < Len(Coming) /\ Coming[Len(Pending) + 1] = f
  <2>1. plan \in Seq(G!Frames) /\ Len(plan) \in Nat \ {0} /\ plan[1] = f /\ Len(Pending) \in Nat
    BY <1>1, <1>2, <1>4, EmptySeq, LenProperties DEF PingTypeOK
  <2>2. /\ Len(Coming) = Len(Pending) + Len(plan)
        /\ \A i \in 1 .. (Len(Pending) + Len(plan)) : Coming[i] = IF i <= Len(Pending) THEN Pending[i] ELSE plan[i - Len(Pending)]
    <3> HIDE DEF Pending
    <3> QED BY <1>4, <2>1, ConcatProperties DEF Coming
  <2> QED BY <2>1, <2>2
<1> QED BY <1>2, <1>6, <1>7, <1>8, <1>9

LEMMA ReadMoves ==
  ASSUME PingTypeOK, G!Read
  PROVE  PingTypeOK' /\ Pending' = Pending /\ Coming' = Coming
<1> PICK w \in Nat : w = Len(p_wire)
  BY LenProperties DEF PingTypeOK
<1>1. PICK n \in 1..w : /\ p_buf' = p_buf \o SubSeq(p_wire, 1, n)
                        /\ p_wire' = SubSeq(p_wire, n + 1, w)
  BY DEF G!Read
<1>2. plan' = plan /\ asked' = asked /\ p_down' = p_down /\ p_state' = p_state /\ p_pc' = "parse"
  BY DEF G!Read
<1>3. p_wire \in Seq(G!Frames) /\ p_buf \in Seq(G!Frames) /\ \A i \in 1..w : p_wire[i] \in G!Frames
  BY ElementOfSeq DEF PingTypeOK
<1> PICK s, t : s = SubSeq(p_wire, 1, n) /\ t = SubSeq(p_wire, n + 1, w)
  OBVIOUS
<1>4. s \in Seq(G!Frames) /\ t \in Seq(G!Frames)
  <2>1. n \in Int /\ 1 \in Int /\ n + 1 \in Int /\ w \in Int /\ \A i \in 1..n : i \in 1..w
    OBVIOUS
  <2>2. \A i \in (n + 1)..w : i \in 1..w
    OBVIOUS
  <2> QED BY <1>3, <2>1, <2>2, SubSeqProperties
<1>5. s \o t = p_wire
  <2>1. 1 \in 1 .. (w + 1) /\ n \in (1 - 1) .. w /\ w \in n..w
    OBVIOUS
  <2>2. s \o t = SubSeq(p_wire, 1, w)
    BY <1>3, <2>1, ConcatAdjacentSubSeq
  <2> QED BY <1>3, <2>2, SubSeqFull
<1>6. Pending' = Pending
  <2>1. Pending' = (p_buf \o s) \o t
    BY <1>1 DEF Pending
  <2>2. (p_buf \o s) \o t = p_buf \o (s \o t)
    BY ONLY <1>3, <1>4, ConcatAssociative
  <2> QED BY <1>5, <2>1, <2>2 DEF Pending
<1>7. Coming' = Coming
  BY <1>2, <1>6 DEF Coming
<1>8. PingTypeOK'
  BY <1>1, <1>2, <1>3, <1>4, ConcatProperties DEF PingTypeOK
<1> QED BY <1>6, <1>7, <1>8

LEMMA TakeMoves ==
  ASSUME PingTypeOK, p_buf # <<>>, p_buf' = Tail(p_buf), p_wire' = p_wire, plan' = plan
  PROVE  /\ p_buf' \in Seq(G!Frames) /\ Pending # <<>>
         /\ Pending' = Tail(Pending) /\ Coming' = Tail(Coming)
         /\ Head(p_buf) = Pending[1] /\ Head(p_buf) = Coming[1] /\ Head(p_buf) \in G!Frames
<1>1. p_wire \in Seq(G!Frames) /\ p_buf \in Seq(G!Frames) /\ plan \in Seq(G!Frames)
  BY DEF PingTypeOK
<1>2. ASSUME NEW E, NEW s \in Seq(E), NEW t \in Seq(E), s # <<>>
      PROVE  s \o t \in Seq(E) /\ s \o t # <<>> /\ Tail(s \o t) = Tail(s) \o t /\ (s \o t)[1] = s[1] /\ s[1] = Head(s)
  <2> PICK m \in Nat, n \in Nat : m = Len(s) /\ n = Len(t) /\ m > 0
    BY <1>2, EmptySeq, LenProperties
  <2>1. s \o t \in Seq(E) /\ Len(s \o t) = m + n /\ \A i \in 1 .. (m + n) : (s \o t)[i] = IF i <= m THEN s[i] ELSE t[i - m]
    BY ConcatProperties
  <2>2. s \o t # <<>>
    BY <2>1, EmptySeq
  <2>3. /\ Tail(s \o t) \in Seq(E) /\ Len(Tail(s \o t)) = m + n - 1
        /\ \A i \in 1 .. (m + n - 1) : Tail(s \o t)[i] = (s \o t)[i + 1]
    BY <2>1, <2>2, HeadTailProperties
  <2>4. Tail(s) \in Seq(E) /\ Len(Tail(s)) = m - 1 /\ \A i \in 1 .. (m - 1) : Tail(s)[i] = s[i + 1]
    BY <1>2, HeadTailProperties
  <2>5. /\ Tail(s) \o t \in Seq(E) /\ Len(Tail(s) \o t) = m - 1 + n
        /\ \A i \in 1 .. (m - 1 + n) : (Tail(s) \o t)[i] = IF i <= m - 1 THEN Tail(s)[i] ELSE t[i - (m - 1)]
    BY <2>4, ConcatProperties
  <2>6. ASSUME NEW i \in 1 .. (m + n - 1) PROVE Tail(s \o t)[i] = (Tail(s) \o t)[i]
    BY <2>1, <2>3, <2>4, <2>5
  <2>7. Tail(s \o t) = Tail(s) \o t
    BY <2>3, <2>5, <2>6, SeqEqual
  <2> QED BY <2>1, <2>2, <2>7
<1>3. /\ Pending \in Seq(G!Frames) /\ Pending # <<>> /\ Tail(Pending) = Tail(p_buf) \o p_wire
      /\ Pending[1] = Head(p_buf)
  BY <1>1, <1>2 DEF Pending
<1>4. Tail(Coming) = Tail(Pending) \o plan /\ Coming[1] = Pending[1]
  <2> HIDE DEF Pending
  <2>1. Pending \in Seq(G!Frames) /\ plan \in Seq(G!Frames) /\ Pending # <<>>
    BY <1>1, <1>3
  <2>2. Coming = Pending \o plan
    BY DEF Coming
  <2> QED BY ONLY <1>2, <2>1, <2>2
<1>5. Pending' = Tail(Pending)
  BY <1>3 DEF Pending
<1>6. Coming' = Tail(Coming)
  BY <1>4, <1>5 DEF Coming
<1> QED BY <1>1, <1>3, <1>4, <1>5, <1>6, HeadTailProperties

\* The whole plan is still to be sent.
LEMMA PingInit == ASSUME G!Init, G!PlansAssumption PROVE PingInv
<1>1. plan \in Seq(G!Frames) /\ Len(plan) \in Nat
  BY LenProperties DEF G!Init, G!PlansAssumption
<1>2. /\ asked = <<>> /\ p_wire = <<>> /\ p_buf = <<>> /\ p_down = <<>> /\ p_pc = "read"
      /\ p_state = "handshake"
  BY DEF G!Init
<1>3. PingTypeOK
  BY <1>1, <1>2 DEF PingTypeOK
<1>4. Pending = <<>> /\ Coming = plan
  BY <1>1, <1>2 DEF Pending, Coming
<1>5. plan # <<>> => plan[1] \in Opening /\ \A i \in 2..Len(plan) : plan[i] \in G!Conversations[plan[1]]
  BY DEF G!Init, G!PlansAssumption, Opening
<1>6. plan = <<>> => Len(plan) = 0
  OBVIOUS
<1>7. Begins
  BY <1>1, <1>2, <1>4, <1>5, <1>6 DEF Begins
<1> QED BY <1>2, <1>3, <1>7 DEF PingInv

\* A frame sent is asked for and pending, unless it is the handshake.
LEMMA PingSend == ASSUME PingInv, G!Send PROVE PingInv'
<1> PICK f : f = Head(plan)
  OBVIOUS
<1> PICK m \in Nat, d \in Nat, a \in Nat : m = Len(Pending) /\ d = Len(p_down) /\ a = Len(asked)
  BY PendingIs DEF PingInv
<1>1. /\ PingTypeOK' /\ Coming' = Coming /\ Pending' = Append(Pending, f) /\ Coming[m + 1] = f
      /\ m < Len(Coming) /\ f \in G!Frames
  BY SendMoves DEF PingInv
<1>2. /\ Pending \in Seq(G!Frames) /\ Len(Coming) \in Nat /\ asked \in Seq(G!Frames)
      /\ \A i \in 1..m : Coming[i] = Pending[i]
  BY PendingIs DEF PingInv, PingTypeOK
<1>3. /\ p_state' = p_state /\ p_down' = p_down
      /\ asked' = (IF f \in Request THEN Append(asked, f) ELSE asked)
  BY FramesOf DEF G!Send
<1>4. Len(Pending') = m + 1 /\ Pending' # <<>> /\ Pending'[m + 1] = f /\ \A i \in 1..m : Pending'[i] = Pending[i]
  BY <1>1, <1>2, AppendProperties
<1>5. /\ Len(Append(asked, f)) = a + 1 /\ Append(asked, f)[a + 1] = f
      /\ \A i \in 1..a : Append(asked, f)[i] = asked[i]
  BY <1>1, <1>2, AppendProperties
<1>6. ASSUME Begins PROVE Begins'
  <2>1. /\ p_down = <<>> /\ Coming[1] \in Opening
        /\ \A i \in 2..Len(Coming) : Coming[i] \in G!Conversations[Coming[1]]
        /\ a = (IF Pending = <<>> THEN 0 ELSE m - 1)
        /\ \A i \in 1..a : asked[i] = Pending[i + 1]
    <3>1. Coming # <<>>
      BY <1>1, <1>2
    <3> QED BY <1>6, <3>1 DEF Begins
  <2>2. CASE Pending = <<>>
    <3>1. m = 0 /\ a = 0 /\ f = Coming[1]
      BY <1>1, <2>1, <2>2
    <3>2. asked' = asked
      BY <1>3, <2>1, <3>1, FramesOf
    <3>3. p_down' = <<>> /\ (Coming # <<>> => Coming[1] \in Opening)
      BY <1>3, <2>1
    <3>4. Len(asked') = (IF Pending' = <<>> THEN 0 ELSE Len(Pending') - 1)
      <4>1. Len(asked') = 0 /\ Len(Pending') = 1 /\ Pending' # <<>>
        <5>1. Len(asked') = Len(asked) /\ Len(asked) = a
          BY <3>2
        <5>2. m + 1 = 1
          BY <3>1
        <5> QED BY ONLY <1>4, <3>1, <5>1, <5>2
      <4> QED BY ONLY <4>1
    <3>5. \A i \in 1..Len(asked') : asked'[i] = Pending'[i + 1]
      <4>1. Len(asked') = 0
        BY <3>1, <3>2
      <4> QED BY ONLY <4>1
    <3> HIDE DEF Coming, Pending
    <3> QED BY <1>1, <2>1, <3>3, <3>4, <3>5 DEF Begins
  <2>3. CASE Pending # <<>>
    <3>1. m > 0 /\ a = m - 1
      BY <1>2, <2>1, <2>3, EmptySeq
    <3>2. f \in G!Conversations[Coming[1]]
      BY <1>1, <1>2, <2>1, <3>1
    <3>3. asked' = Append(asked, f)
      BY <1>3, <2>1, <3>2, FramesOf
    <3>4. ASSUME NEW i \in 1 .. (a + 1) PROVE asked'[i] = Pending'[i + 1]
      BY <1>4, <1>5, <2>1, <3>1, <3>3
    <3>5. Len(asked') = a + 1 /\ Len(Pending') = m + 1 /\ Pending' # <<>>
      BY <1>4, <1>5, <3>3
    <3> QED BY <1>1, <1>3, <2>1, <3>1, <3>4, <3>5 DEF Begins
  <2> QED BY <2>2, <2>3
<1>7. ASSUME NEW k \in Opening, Goes(k) PROVE Goes(k)'
  <2>1. f \in G!Conversations[k]
    <3>1. m + 1 \in 1..Len(Coming)
      BY <1>1, <1>2
    <3>2. \A i \in 1..Len(Coming) : Coming[i] \in G!Conversations[k]
      BY <1>7 DEF Goes
    <3>3. Coming[m + 1] \in G!Conversations[k]
      BY ONLY <3>1, <3>2, Zenon
    <3> QED BY ONLY <1>1, <3>3
  <2>2. asked' = Append(asked, f)
    BY <1>3, <2>1, FramesOf
  <2>3. /\ a = d + m /\ \A i \in 1..m : asked[d + i] = Pending[i]
        /\ \A i \in 1..d : p_down[i] = G!Reply[asked[i]]
    BY <1>7 DEF Goes
  <2>4. ASSUME NEW i \in 1 .. (m + 1) PROVE asked'[d + i] = Pending'[i]
    <3>1. CASE i \in 1..m
      <4>1. d + i \in 1..a
        BY <2>3, <3>1
      <4>2. asked'[d + i] = asked[d + i]
        BY ONLY <1>5, <2>2, <4>1
      <4>3. asked[d + i] = Pending[i]
        BY <2>3, <3>1
      <4> QED BY <1>4, <3>1, <4>2, <4>3
    <3>2. CASE i = m + 1
      <4>1. d + i = a + 1
        BY <2>3, <3>2
      <4> QED BY <1>4, <1>5, <2>2, <3>2, <4>1
    <3> QED BY <3>1, <3>2
  <2>5. ASSUME NEW i \in 1..d PROVE p_down'[i] = G!Reply[asked'[i]]
    <3>1. asked'[i] = asked[i]
      BY <1>5, <2>2, <2>3
    <3> QED BY <1>3, <2>3, <3>1
  <2>6. Len(asked') = Len(p_down') + Len(Pending')
    BY <1>3, <1>4, <1>5, <2>2, <2>3
  <2> QED BY <1>1, <1>3, <1>4, <1>7, <2>4, <2>5, <2>6 DEF Goes
<1>8. "toStatus" \in Opening /\ "toLogin" \in Opening
  BY FramesOf
<1> QED BY <1>1, <1>3, <1>6, <1>7, <1>8 DEF PingInv

\* The server answers what is in front as it asks to be.
LEMMA ReplyKeeps ==
  ASSUME PingTypeOK, NEW k \in Opening, Goes(k), p_buf # <<>>, p_buf' = Tail(p_buf),
         p_wire' = p_wire, plan' = plan, asked' = asked, NEW r, r = G!Reply[Head(p_buf)], p_down' = Append(p_down, r)
  PROVE  Goes(k)' /\ p_buf' \in Seq(G!Frames) /\ p_down' \in Seq(Replies)
<1> PICK m \in Nat, d \in Nat, n \in Nat : m = Len(Pending) /\ d = Len(p_down) /\ n = Len(Coming)
  BY PendingIs
<1>1. /\ Pending \in Seq(G!Frames) /\ Coming \in Seq(G!Frames) /\ m <= n
  BY PendingIs
<1>2. /\ p_buf' \in Seq(G!Frames) /\ Pending # <<>> /\ Pending' = Tail(Pending) /\ Coming' = Tail(Coming)
      /\ Head(p_buf) = Pending[1] /\ Head(p_buf) = Coming[1]
  BY TakeMoves
<1>3. m > 0 /\ n > 0 /\ Coming # <<>>
  BY <1>1, <1>2, EmptySeq
<1>4. Len(Pending') = m - 1 /\ \A i \in 1 .. (m - 1) : Pending'[i] = Pending[i + 1]
  BY <1>1, <1>2, HeadTailProperties
<1>5. Len(Coming') = n - 1 /\ \A i \in 1 .. (n - 1) : Coming'[i] = Coming[i + 1]
  BY <1>1, <1>2, <1>3, HeadTailProperties
<1>6. /\ \A i \in 1..n : Coming[i] \in G!Conversations[k]
      /\ Len(asked) = d + m /\ \A i \in 1..m : asked[d + i] = Pending[i]
      /\ \A i \in 1..d : p_down[i] = G!Reply[asked[i]]
  BY DEF Goes
<1>7. r \in Replies
  <2>1. 1 \in 1..n
    BY <1>3
  <2>2. Coming[1] \in G!Conversations[k]
    BY <1>6, <2>1, Zenon
  <2>3. Head(p_buf) \in Request
    BY <1>2, <2>2, FramesOf
  <2> QED BY <2>3, FramesOf
<1>8. /\ p_down' \in Seq(Replies) /\ Len(p_down') = d + 1 /\ p_down'[d + 1] = r
      /\ \A i \in 1..d : p_down'[i] = p_down[i]
  <2>1. p_down \in Seq(Replies)
    BY DEF PingTypeOK, Replies
  <2> QED BY <1>7, <2>1, AppendProperties
<1>9. \A i \in 1 .. (n - 1) : Coming'[i] \in G!Conversations[k]
  BY <1>5, <1>6
<1>10. Len(asked') = Len(p_down') + Len(Pending')
  BY <1>4, <1>6, <1>8
<1>11. ASSUME NEW i \in 1 .. (m - 1) PROVE asked'[(d + 1) + i] = Pending'[i]
  <2>1. i + 1 \in 1..m /\ (d + 1) + i = d + (i + 1)
    OBVIOUS
  <2> QED BY <1>4, <1>6, <2>1
<1>12. ASSUME NEW i \in 1 .. (d + 1) PROVE p_down'[i] = G!Reply[asked'[i]]
  <2>1. CASE i \in 1..d
    BY <1>6, <1>8, <2>1
  <2>2. CASE i = d + 1
    <3>1. asked[d + 1] = Pending[1]
      BY <1>3, <1>6
    <3> QED BY <1>2, <1>8, <2>2, <3>1
  <2> QED BY <2>1, <2>2
<1>13. Goes(k)'
  <2> HIDE DEF Coming, Pending
  <2>1. \A i \in 1..Len(Coming)' : Coming'[i] \in G!Conversations[k]
    BY ONLY <1>5, <1>9
  <2>2. \A i \in 1..Len(Pending)' : asked'[Len(p_down)' + i] = Pending'[i]
    BY ONLY <1>4, <1>8, <1>11
  <2>3. \A i \in 1..Len(p_down)' : p_down'[i] = G!Reply[asked'[i]]
    BY ONLY <1>8, <1>12
  <2> QED BY ONLY <1>10, <2>1, <2>2, <2>3 DEF Goes
<1> QED BY <1>2, <1>8, <1>13

\* The handshake selects the conversation that follows.
LEMMA HandshakeSelects ==
  ASSUME PingTypeOK, Begins, p_buf # <<>>, p_buf' = Tail(p_buf),
         p_wire' = p_wire, plan' = plan, asked' = asked, p_down' = p_down
  PROVE  /\ p_buf' \in Seq(G!Frames) /\ Head(p_buf) \in Opening
         /\ \A k : k = Head(p_buf) => Goes(k)'
<1> PICK m \in Nat, n \in Nat : m = Len(Pending) /\ n = Len(Coming)
  BY PendingIs
<1>1. /\ Pending \in Seq(G!Frames) /\ Coming \in Seq(G!Frames) /\ m <= n
  BY PendingIs
<1>2. /\ p_buf' \in Seq(G!Frames) /\ Pending # <<>> /\ Pending' = Tail(Pending) /\ Coming' = Tail(Coming)
      /\ Head(p_buf) = Coming[1]
  BY TakeMoves
<1>3. m > 0 /\ n > 0 /\ Coming # <<>>
  BY <1>1, <1>2, EmptySeq
<1>4. Len(Pending') = m - 1 /\ \A i \in 1 .. (m - 1) : Pending'[i] = Pending[i + 1]
  BY <1>1, <1>2, HeadTailProperties
<1>5. Len(Coming') = n - 1 /\ \A i \in 1 .. (n - 1) : Coming'[i] = Coming[i + 1]
  BY <1>1, <1>2, <1>3, HeadTailProperties
<1>6. /\ p_down = <<>> /\ Coming[1] \in Opening
      /\ \A i \in 2..n : Coming[i] \in G!Conversations[Coming[1]]
      /\ Len(asked) = m - 1
      /\ \A i \in 1 .. (m - 1) : asked[i] = Pending[i + 1]
  BY <1>2, <1>3 DEF Begins
<1>7. ASSUME NEW k, k = Head(p_buf) PROVE Goes(k)'
  <2>1. \A i \in 1 .. (n - 1) : Coming'[i] \in G!Conversations[k]
    BY <1>2, <1>5, <1>6, <1>7
  <2>2. Len(p_down') = 0 /\ Len(asked') = m - 1
    BY <1>6
  <2>3. \A i \in 1 .. (m - 1) : asked'[0 + i] = Pending'[i]
    BY <1>4, <1>6
  <2> QED BY <1>4, <1>5, <2>1, <2>2, <2>3 DEF Goes
<1> QED BY <1>2, <1>6, <1>7

\* A step that neither sends nor handles a frame.
LEMMA PingSame ==
  ASSUME PingInv, PingTypeOK', Pending' = Pending, Coming' = Coming,
         asked' = asked, p_down' = p_down, p_state' = p_state
  PROVE  PingInv'
BY DEF PingInv, Begins, Goes

\* One case for each kind of action.
LEMMA PingKeeps == ASSUME PingInv, [G!Next]_(G!vars) PROVE PingInv'
<1>0. PingTypeOK
  BY DEF PingInv
<1>1. CASE G!Send
  BY <1>1, PingSend
<1>2. CASE G!Read
  <2>1. PingTypeOK' /\ Pending' = Pending /\ Coming' = Coming
    BY <1>0, <1>2, ReadMoves
  <2> QED BY <1>2, <2>1, PingSame DEF G!Read
<1>3. CASE G!Leave \/ G!Eof \/ G!NeedMore \/ UNCHANGED G!vars
  <2>1. /\ plan' = plan /\ asked' = asked /\ p_wire' = p_wire /\ p_buf' = p_buf /\ p_down' = p_down
        /\ p_state' = p_state /\ p_pc' \in {p_pc, "closed", "read"}
    BY <1>3 DEF G!Leave, G!Eof, G!NeedMore, G!vars
  <2>2. PingTypeOK' /\ Pending' = Pending /\ Coming' = Coming
    BY <1>0, <2>1 DEF PingTypeOK, Pending, Coming
  <2> QED BY <2>1, <2>2, PingSame
<1>4. CASE G!HandleHandshake
  <2>1. /\ p_state = "handshake" /\ p_buf # <<>> /\ p_buf' = Tail(p_buf) /\ p_wire' = p_wire /\ plan' = plan
        /\ asked' = asked /\ p_down' = p_down /\ p_pc' = p_pc
        /\ p_state' = IF Head(p_buf) = "toLogin" THEN "login" ELSE "status"
    BY <1>4 DEF G!HandleHandshake, G!Take
  <2>2. Begins
    BY <2>1 DEF PingInv
  <2> PICK k : k = Head(p_buf)
    OBVIOUS
  <2>3. p_buf' \in Seq(G!Frames) /\ k \in Opening /\ Goes(k)'
    BY <1>0, <2>1, <2>2, HandshakeSelects
  <2>4. PingTypeOK'
    BY <1>0, <2>1, <2>3 DEF PingTypeOK
  <2>5. CASE k = "toLogin"
    BY <2>1, <2>3, <2>4, <2>5 DEF PingInv
  <2>6. CASE k = "toStatus"
    BY <2>1, <2>3, <2>4, <2>6 DEF PingInv
  <2> QED BY <2>3, <2>5, <2>6, FramesOf
<1>5. CASE G!HandleStatus \/ G!HandlePing \/ G!HandleLogin
  <2> PICK k, r :
        /\ k \in Opening /\ Goes(k) /\ p_buf # <<>> /\ p_buf' = Tail(p_buf) /\ p_wire' = p_wire /\ plan' = plan /\ asked' = asked
        /\ r = G!Reply[Head(p_buf)] /\ p_down' = Append(p_down, r)
        /\ p_pc' \in {p_pc, "read"} /\ p_state' = p_state
        /\ p_state = (IF k = "toStatus" THEN "status" ELSE "login")
    <3>1. /\ p_buf # <<>> /\ p_buf' = Tail(p_buf) /\ p_wire' = p_wire /\ plan' = plan /\ asked' = asked
          /\ p_pc' \in {p_pc, "read"} /\ p_state' = p_state
      BY <1>5 DEF G!HandleStatus, G!HandlePing, G!HandleLogin, G!Take
    <3>2. Head(p_buf) = Coming[1] /\ Len(Coming) \in Nat /\ Len(Coming) > 0
      <4>1. Pending # <<>> /\ Head(p_buf) = Coming[1]
        BY <1>0, <3>1, TakeMoves
      <4>2. Pending \in Seq(G!Frames) /\ Len(Pending) \in Nat /\ Len(Coming) \in Nat /\ Len(Pending) <= Len(Coming)
        BY <1>0, PendingIs
      <4> QED BY <4>1, <4>2, EmptySeq
    <3>3. CASE p_state = "status"
      <4>1. Goes("toStatus") /\ "toStatus" \in Opening
        BY <3>3, FramesOf DEF PingInv
      <4>2. Head(p_buf) \in {"statusRequest", "ping"}
        BY <3>2, <4>1 DEF Goes, G!Conversations
      <4>3. p_down' = Append(p_down, G!Reply[Head(p_buf)])
        BY <1>5, <3>3, <4>2 DEF G!HandleStatus, G!HandlePing, G!HandleLogin, G!Take, G!Answer, G!Reply, G!Id
      <4> QED BY <3>1, <3>3, <4>1, <4>3
    <3>4. CASE p_state = "login"
      <4>1. Goes("toLogin") /\ "toLogin" \in Opening
        BY <3>4, FramesOf DEF PingInv
      <4>2. Head(p_buf) = "loginStart"
        BY <3>2, <4>1 DEF Goes, G!Conversations
      <4>3. p_down' = Append(p_down, G!Reply[Head(p_buf)])
        BY <1>5, <3>4, <4>2 DEF G!HandleStatus, G!HandlePing, G!HandleLogin, G!Take, G!Answer, G!Reply, G!Id
      <4> QED BY <3>1, <3>4, <4>1, <4>3
    <3> QED BY <1>5, <3>3, <3>4 DEF G!HandleStatus, G!HandlePing, G!HandleLogin, G!Take
  <2>1. Goes(k)' /\ p_buf' \in Seq(G!Frames) /\ p_down' \in Seq(Replies)
    BY <1>0, ReplyKeeps
  <2>2. PingTypeOK'
    BY <1>0, <2>1 DEF PingTypeOK, Replies
  <2>3. CASE k = "toLogin"
    BY <2>1, <2>2, <2>3 DEF PingInv
  <2>4. CASE k = "toStatus"
    BY <2>1, <2>2, <2>4 DEF PingInv
  <2> QED BY <2>3, <2>4, FramesOf
<1> QED BY <1>1, <1>2, <1>3, <1>4, <1>5 DEF G!Next, G!Server

\* In all three states what has been written answers the first requests.
LEMMA Matching == ASSUME PingInv PROVE G!RepliesMatchRequests
<1> PICK d \in Nat, a \in Nat, m \in Nat : d = Len(p_down) /\ a = Len(asked) /\ m = Len(Pending)
  BY PendingIs DEF PingInv
<1>1. d <= a /\ \A i \in 1..d : p_down[i] = G!Reply[asked[i]]
  <2>1. CASE p_state = "handshake"
    BY <2>1 DEF PingInv, Begins
  <2>2. CASE p_state = "status"
    BY <2>2 DEF PingInv, Goes
  <2>3. CASE p_state = "login"
    BY <2>3 DEF PingInv, Goes
  <2> QED BY <2>1, <2>2, <2>3 DEF PingInv, PingTypeOK
<1> PICK f : f = G!Answered(asked)
  OBVIOUS
<1>2. DOMAIN asked = 1..a /\ \A i \in 1..a : f[i] = G!Reply[asked[i]]
  <2>1. DOMAIN asked = 1..a
    BY LenProperties DEF PingInv, PingTypeOK
  <2> QED BY <2>1 DEF G!Answered
<1>3. \A i \in 1..d : f[i] = p_down[i] /\ p_down[i] \in Replies
  <2>1. \A i \in 1..d : p_down[i] \in Replies
    BY ElementOfSeq DEF PingInv, PingTypeOK, Replies
  <2> QED BY <1>1, <1>2, <2>1
<1>4. p_down = SubSeq(f, 1, d)
  <2>1. SubSeq(f, 1, d) \in Seq(Replies) /\ Len(SubSeq(f, 1, d)) = d /\ \A i \in 1..d : SubSeq(f, 1, d)[i] = f[i]
    BY <1>3, SubSeqProperties
  <2>2. p_down \in Seq(Replies)
    BY DEF PingInv, PingTypeOK, Replies
  <2> QED BY <1>3, <2>1, <2>2, SeqEqual
<1> QED BY <1>1, <1>4 DEF G!RepliesMatchRequests

\* A client that keeps to one of the two conversations gets the replies it asks
\* for, one by one and in order, however many frames it sends ahead and however
\* they are cut into reads (ping.rs: handle).
THEOREM PingAnswers == G!Spec => []RepliesMatchRequests
<1>1. G!Init => PingInv
  BY PingInit, ConstantsFit
<1>2. PingInv /\ [G!Next]_(G!vars) => PingInv'
  BY PingKeeps
<1>3. PingInv => RepliesMatchRequests
  BY Matching DEF RepliesMatchRequests
<1> QED BY <1>1, <1>2, <1>3, PTL DEF G!Spec
-----------------------------------------------------------------------------
\* The server's connection: what is proved of Connection holds of it here.
J == INSTANCE ConnectionProofs WITH wire <- c_wire, down <- c_down, pc <- c_pc, buf <- c_buf

\* ConnectionProofs' induction, told of the instance.
LEMMA JoinKeeps ==
  /\ C!Init => J!IInv
  /\ J!IInv /\ [C!Next]_(C!vars) => J!IInv'
<1>1. C!Init => J!IInv
  <2>1. C!Init => J!Init
    BY DEF C!Init, J!Init
  <2> QED BY <2>1, J!Initial
<1>2. J!IInv /\ [C!Next]_(C!vars) => J!IInv'
  <2>1. [C!Next]_(C!vars) => [J!Next]_(J!vars)
    BY DEF C!Next, C!vars, C!Server, C!Read, C!Eof, C!Broken, C!NeedMore, C!HandleHandshake,
           C!HandleLoginStart, C!HandleLoginAck, C!HandleFinish, C!HandleConfigOther, C!HandlePlay,
           C!Open, C!Take, C!Tick, C!Quit, C!ConsumeIn, C!Reply, C!SendUp, C!Pieces, C!Frame,
           C!Complete, C!Id, C!Decodes, C!Opening, C!client,
           J!Next, J!vars, J!Server, J!Read, J!Eof, J!Broken, J!NeedMore, J!HandleHandshake,
           J!HandleLoginStart, J!HandleLoginAck, J!HandleFinish, J!HandleConfigOther, J!HandlePlay,
           J!Open, J!Take, J!Tick, J!Quit, J!ConsumeIn, J!Reply, J!SendUp, J!Pieces, J!Frame,
           J!Complete, J!Id, J!Decodes, J!Opening, J!client
  <2> QED BY <2>1, J!Step
<1> QED BY <1>1, <1>2

\* However the stream is cut, every complete frame the server looks at belongs to
\* the state it is in (server.rs: handle_connection).
THEOREM FramesReadInTheirState == C!Spec => []ReadInItsState
<1>1. J!IInv => ReadInItsState
  <2>1. J!ReadInItsState => C!ReadInItsState
    BY DEF J!ReadInItsState, C!ReadInItsState, J!Complete, C!Complete, J!Frame, C!Frame, J!State, C!State
  <2> QED BY <2>1, J!InItsState DEF ReadInItsState
<1> QED BY <1>1, JoinKeeps, PTL DEF C!Spec

\* Every packet reaches the client in the protocol state that gives its id its
\* meaning (server.rs: handle_connection, config_handler.rs).
THEOREM AnswersDecodable == C!Spec => []DecodableOnArrival
<1>1. J!IInv => DecodableOnArrival
  <2>1. J!DecodableOnArrival => C!DecodableOnArrival
    BY DEF J!DecodableOnArrival, C!DecodableOnArrival, J!Decodes, C!Decodes
  <2> QED BY <2>1, J!Decodable DEF DecodableOnArrival
<1> QED BY <1>1, JoinKeeps, PTL DEF C!Spec

\* When run_play_phase takes the socket without the old buffer, nothing is in it.
THEOREM SwitchLosesNothing == C!Spec => []NothingLostAtSwitch
<1>1. J!IInv => NothingLostAtSwitch
  BY DEF J!IInv, NothingLostAtSwitch, C!NothingLostAtSwitch
<1> QED BY <1>1, JoinKeeps, PTL DEF C!Spec
-----------------------------------------------------------------------------
\* The frame codec: what is proved of Framing holds of it here.
K == INSTANCE FramingProofs WITH Streams <- FrameStreams,
        wire <- f_wire, sent <- f_sent, got <- f_got

LEMMA SameCodec ==
  /\ F!Byte = K!Byte
  /\ \A n : F!ToBytes(n) = K!ToBytes(n) /\ F!EncodedLen(n) = K!EncodedLen(n)
  /\ \A s : F!FromBytes(s) = K!FromBytes(s)
<1>1. F!Byte = K!Byte /\ \A b : F!More(b) <=> K!More(b)
  BY DEF F!Byte, K!Byte, F!More, K!More
<1>2. \A T : F!Min(T) = K!Min(T)
  BY DEF F!Min, K!Min
<1>3. \A n : F!EncodedLen(n) = K!EncodedLen(n) /\ F!Groups(n) = K!Groups(n)
  BY <1>2 DEF F!EncodedLen, K!EncodedLen, F!Groups, K!Groups
<1>4. \A n : F!ToBytes(n) = K!ToBytes(n)
  BY <1>3 DEF F!ToBytes, K!ToBytes
<1>5. \A s : F!Ends(s) = K!Ends(s)
  BY <1>1 DEF F!Ends, K!Ends
<1>6. \A s, n : F!ValueOf(s, n) = K!ValueOf(s, n)
  BY DEF F!ValueOf, K!ValueOf
<1>7. \A s : F!FromBytes(s) = K!FromBytes(s)
  BY <1>2, <1>5, <1>6 DEF F!FromBytes, K!FromBytes
<1> QED BY <1>1, <1>3, <1>4, <1>7

LEMMA SameFrames ==
  /\ \A p : /\ F!Length(p) = K!Length(p) /\ F!End(p) = K!End(p) /\ (F!Stuck(p) <=> K!Stuck(p))
            /\ F!Frames(p) = K!Frames(p)
  /\ \A raw, z : F!PacketsIn(raw, z) = K!PacketsIn(raw, z)
  /\ \A id, body, z : F!FramePacket(id, body, z) = K!FramePacket(id, body, z)
  /\ \A w : F!Compressed(w) = K!Compressed(w)
<1>1. \A p : F!Length(p) = K!Length(p) /\ F!End(p) = K!End(p) /\ (F!Stuck(p) <=> K!Stuck(p))
  BY DEF F!Length, K!Length, F!Signed, K!Signed, F!End, K!End, F!Stuck, K!Stuck
<1>2. \A s : F!Reverse(s) = K!Reverse(s)
  BY DEF F!Reverse, K!Reverse
<1>3. \A s : F!Deflate(s) = K!Deflate(s) /\ (F!Inflates(s) <=> K!Inflates(s)) /\ F!Inflate(s) = K!Inflate(s)
  BY <1>2 DEF F!Deflate, K!Deflate, F!Inflates, K!Inflates, F!Inflate, K!Inflate
<1>4. \A raw, z : F!Unpacked(raw, z) = K!Unpacked(raw, z)
  BY <1>3, SameCodec DEF F!Unpacked, K!Unpacked
<1>5. \A inner : F!Packets(inner) = K!Packets(inner)
  BY SameCodec DEF F!Packets, K!Packets
<1>6. \A raw, z : F!PacketsIn(raw, z) = K!PacketsIn(raw, z)
  BY <1>4, <1>5 DEF F!PacketsIn, K!PacketsIn
<1>7. \A w : F!Compressed(w) = K!Compressed(w)
  BY <1>3, SameCodec DEF F!Compressed, K!Compressed
<1>8. \A w : F!Prefixed(w) = K!Prefixed(w)
  BY SameCodec DEF F!Prefixed, K!Prefixed
<1>9. \A id, body, z : F!FramePacket(id, body, z) = K!FramePacket(id, body, z)
  BY <1>7, <1>8, SameCodec DEF F!FramePacket, K!FramePacket, F!EncodePacket, K!EncodePacket
<1>10. \A p : F!Frames(p) = K!Frames(p)
  BY <1>1, <1>6 DEF F!Frames, K!Frames
<1> QED BY <1>1, <1>6, <1>7, <1>9, <1>10

LEMMA SameStreams == K!Assumptions
<1>1. F!Packet = K!Packet
  BY SameCodec DEF F!Packet, K!Packet
<1>2. \A f, z : F!Frameable(f, z) <=> K!Frameable(f, z)
  BY SameCodec, SameFrames DEF F!Frameable, K!Frameable
<1>3. \A raw, z : F!Packetless(raw, z) <=> K!Packetless(raw, z)
  BY SameCodec, SameFrames DEF F!Packetless, K!Packetless
<1>4. \A e, z : F!Sendable(e, z) <=> K!Sendable(e, z)
  BY <1>2, <1>3 DEF F!Sendable, K!Sendable
<1>5. F!StreamsAssumption => K!StreamsAssumption
  BY <1>1, <1>4, SameCodec DEF F!StreamsAssumption, K!StreamsAssumption
<1> QED BY <1>5, ConstantsFit
        DEF K!Assumptions, F!BaseAssumption, K!BaseAssumption, F!SizeAssumption, K!SizeAssumption,
            F!WeightAssumption, K!WeightAssumption

\* FramingProofs' induction, told of the instance.
LEMMA FramesKept ==
  /\ F!Init => K!IInv
  /\ K!IInv /\ [F!Next]_(F!vars) => K!IInv'
<1>1. F!Init => K!IInv
  <2>1. F!Init => K!Init
    BY DEF F!Init, K!Init
  <2> QED BY <2>1, SameStreams, K!Initial
<1>2. K!IInv /\ [F!Next]_(F!vars) => K!IInv'
  <2>1. F!Send => K!Send
    BY SameFrames DEF F!Send, K!Send, F!BytesOf, K!BytesOf
  <2>2. \A n : F!Receive(n) => K!Receive(n)
    BY DEF F!Receive, K!Receive
  <2>3. F!Eof => K!Eof
    BY DEF F!Eof, K!Eof
  <2>4. F!TryReadFrame => K!TryReadFrame
    <3>1. \A p : (F!Complete(p) <=> K!Complete(p)) /\ (F!Wraps(p) <=> K!Wraps(p))
      BY SameFrames DEF F!Complete, K!Complete, F!Wraps, K!Wraps
    <3>2. \A p : /\ F!NeedMore(p) => K!NeedMore(p)
                 /\ F!Decode(p) => K!Decode(p)
                 /\ F!Skip(p) => K!Skip(p)
                 /\ F!Panic(p) => K!Panic(p)
      BY <3>1, SameFrames DEF F!NeedMore, K!NeedMore, F!Decode, K!Decode, F!Skip, K!Skip, F!Panic, K!Panic
    <3> QED BY <3>2, SameCodec DEF F!TryReadFrame, K!TryReadFrame
  <2>5. [F!Next]_(F!vars) => [K!Next]_(K!vars)
    <3>1. F!Receiver => K!Receiver
      BY <2>2, <2>3, <2>4 DEF F!Receiver, K!Receiver
    <3>2. F!Next => K!Next
      BY <2>1, <3>1 DEF F!Next, K!Next
    <3> QED BY <3>2 DEF F!vars, K!vars
  <2> QED BY <2>5, SameStreams, K!Inductive
<1> QED BY <1>1, <1>2

\* However the stream is cut and whatever bytes without a packet lie between them,
\* the frames handed on are those sent, compressed or not (packet.rs:
\* try_read_frame, config_handler.rs: try_read_frame_compressed).
THEOREM FramesHandedOn == F!Spec => []FramesIntact
<1>1. K!IInv => FramesIntact
  <2>1. K!FramesIntact => F!FramesIntact
    BY DEF K!FramesIntact, F!FramesIntact
  <2> QED BY <2>1, K!AllIntact DEF FramesIntact
<1> QED BY <1>1, FramesKept, PTL DEF F!Spec

\* No frame is kept back: once every byte is handled, every frame sent has been
\* handed on.
THEOREM NothingKeptBack == F!Spec => [](buf = <<>> /\ f_wire = <<>> => f_got = f_sent)
<1>1. K!IInv => (buf = <<>> /\ f_wire = <<>> => f_got = f_sent)
  BY SameStreams, K!NoPieceIsEmpty
<1> QED BY <1>1, FramesKept, PTL DEF F!Spec
=============================================================================
