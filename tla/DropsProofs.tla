---------------------------- MODULE DropsProofs ----------------------------
(***************************************************************************)
(* Proofs about Drops for any slots, blocks and places to stand, any stack *)
(* limit and any number of frames in flight: type correctness, a placement *)
(* that meets its slot whatever is queued before it, a client that shows   *)
(* what the server holds, and items of which none is made or lost.         *)
(***************************************************************************)
EXTENDS Drops, SequenceTheorems, FunctionTheorems, FiniteSetTheorems, TLAPS

Of(k, op) == k \in DOMAIN up /\ up[k].op = op

\* Nothing is selected by the frames between i and k.
Quiet(i, k) == \A j \in (i + 1) .. (k - 1) : ~Of(j, "carry")

\* The slot in force behind frame i, when it selects one; 0 stands for what the
\* server has handled.
Sets(i) == i = 0 \/ Of(i, "carry")
SlotFrom(i) == IF i = 0 THEN held ELSE up[i].slot

\* The slot in force at every placement in flight is the one it was made from,
\* and the one in force behind them all is the client's.
QueueInv == \A i \in 0..Len(up) : Sets(i) =>
    /\ \A k \in (i + 1)..Len(up) : Of(k, "place") /\ Quiet(i, k) => up[k].slot = SlotFrom(i)
    /\ Quiet(i, Len(up) + 1) => hand = SlotFrom(i)

\* A loop that stores entities goes by the scan of its tick, and skips some of
\* those it has passed; one that removes them has no scan left, and has yet to
\* remove what was skipped.
LoopInv == /\ pc = "pickup" => queue \subseteq picked /\ skipped \subseteq picked \ queue
           /\ pc = "remove" => picked = {} /\ skipped \subseteq queue
           /\ pc = "idle" => skipped = {}

\* Outside the loop that stores, the client shows what the server holds, less
\* what it has placed ahead of it.
ShownInv == pc # "pickup" =>
    \A s \in Slots : inv[s] # Empty =>
        /\ client[s].count + Cardinality(Ahead(s)) >= inv[s].count
        /\ client[s] # Empty => client[s].item = inv[s].item

IInv == TypeOK /\ LoopInv /\ QueueInv

-----------------------------------------------------------------------------
\* The queue behind a frame that is sent.
LEMMA Sent ==
  ASSUME up \in Seq(Frame), NEW f \in Frame, up' = Append(up, f)
  PROVE  /\ Len(up) \in Nat /\ Len(up') = Len(up) + 1 /\ up' \in Seq(Frame)
         /\ DOMAIN up = 1..Len(up) /\ DOMAIN up' = 1..(Len(up) + 1)
         /\ up'[Len(up) + 1] = f
         /\ \A j \in 1..Len(up) : up'[j] = up[j]
<1> QED BY AppendProperties, LenProperties

\* A frame that selects nothing, and places from the client's slot if at all.
LEMMA SendKeepsQueue ==
  ASSUME up \in Seq(Frame), QueueInv, NEW f \in Frame, up' = Append(up, f),
         f.op # "carry", f.op = "place" => f.slot = hand, hand' = hand, held' = held
  PROVE  QueueInv'
<1> PICK n \in Nat : n = Len(up)
  BY Sent
<1>1. /\ n = Len(up) /\ Len(up') = n + 1
      /\ DOMAIN up = 1..n /\ DOMAIN up' = 1..(n + 1)
      /\ up'[n + 1] = f /\ \A j \in 1..n : up'[j] = up[j]
  BY Sent
<1>2. \A j, op : j # n + 1 => (Of(j, op)' <=> Of(j, op))
  BY <1>1 DEF Of
<1>3. ~Of(n + 1, "carry")' /\ ~Of(n + 1, "carry") /\ (Of(n + 1, "place")' => up'[n + 1].slot = hand)
  BY <1>1 DEF Of
<1>4. \A i, k \in Nat : Quiet(i, k)' <=> Quiet(i, k)
  BY <1>2, <1>3 DEF Quiet
<1>5. SUFFICES ASSUME NEW i \in 0..(n + 1), Sets(i)'
               PROVE  /\ \A k \in (i + 1)..(n + 1) :
                            Of(k, "place")' /\ Quiet(i, k)' => up'[k].slot = SlotFrom(i)'
                      /\ Quiet(i, n + 2)' => hand' = SlotFrom(i)'
  BY <1>1 DEF QueueInv
<1>6. i \in 0..n /\ Sets(i) /\ SlotFrom(i)' = SlotFrom(i)
  BY <1>1, <1>2, <1>3, <1>5 DEF Sets, SlotFrom
<1>7. /\ \A k \in (i + 1)..n : Of(k, "place") /\ Quiet(i, k) => up[k].slot = SlotFrom(i)
      /\ Quiet(i, n + 1) => hand = SlotFrom(i)
  BY <1>1, <1>6 DEF QueueInv
<1>8. Quiet(i, n + 2) => Quiet(i, n + 1)
  BY <1>1 DEF Quiet
<1>9. Quiet(i, n + 2)' => hand' = SlotFrom(i)'
  BY <1>1, <1>4, <1>6, <1>7, <1>8
<1>10. ASSUME NEW k \in (i + 1)..(n + 1), Of(k, "place")', Quiet(i, k)'
       PROVE  up'[k].slot = SlotFrom(i)'
  <2>1. CASE k = n + 1
    BY <2>1, <1>10, <1>1, <1>3, <1>4, <1>6, <1>7
  <2>2. CASE k # n + 1
    BY <2>2, <1>10, <1>1, <1>2, <1>4, <1>6, <1>7
  <2> QED BY <2>1, <2>2
<1> QED BY <1>9, <1>10

\* A selection: behind it the client's new slot is in force.
LEMMA CarryKeepsQueue ==
  ASSUME up \in Seq(Frame), QueueInv, NEW f \in Frame, up' = Append(up, f),
         f.op = "carry", hand' = f.slot, held' = held
  PROVE  QueueInv'
<1> PICK n \in Nat : n = Len(up)
  BY Sent
<1>1. /\ n = Len(up) /\ Len(up') = n + 1
      /\ DOMAIN up = 1..n /\ DOMAIN up' = 1..(n + 1)
      /\ up'[n + 1] = f /\ \A j \in 1..n : up'[j] = up[j]
  BY Sent
<1>2. \A j, op : j # n + 1 => (Of(j, op)' <=> Of(j, op))
  BY <1>1 DEF Of
<1>3. Of(n + 1, "carry")' /\ ~Of(n + 1, "place")'
  BY <1>1 DEF Of
<1>4. \A i \in Nat, k \in 0..(n + 1) : Quiet(i, k)' <=> Quiet(i, k)
  BY <1>1, <1>2 DEF Quiet
<1>5. SUFFICES ASSUME NEW i \in 0..(n + 1), Sets(i)'
               PROVE  /\ \A k \in (i + 1)..(n + 1) :
                            Of(k, "place")' /\ Quiet(i, k)' => up'[k].slot = SlotFrom(i)'
                      /\ Quiet(i, n + 2)' => hand' = SlotFrom(i)'
  BY <1>1 DEF QueueInv
<1>6. CASE i = n + 1
  BY <1>6, <1>1 DEF SlotFrom
<1>7. CASE i # n + 1
  <2>1. i \in 0..n /\ Sets(i) /\ SlotFrom(i)' = SlotFrom(i)
    BY <1>1, <1>2, <1>5, <1>7 DEF Sets, SlotFrom
  <2>2. \A k \in (i + 1)..n : Of(k, "place") /\ Quiet(i, k) => up[k].slot = SlotFrom(i)
    BY <1>1, <2>1 DEF QueueInv
  <2>3. ~Quiet(i, n + 2)'
    BY <1>1, <1>3, <2>1 DEF Quiet
  <2>4. ASSUME NEW k \in (i + 1)..(n + 1), Of(k, "place")', Quiet(i, k)'
        PROVE  up'[k].slot = SlotFrom(i)'
    BY <2>4, <2>1, <2>2, <1>1, <1>2, <1>3, <1>4
  <2> QED BY <2>3, <2>4
<1> QED BY <1>6, <1>7

\* The server handles the first frame: its slot is in force from then on, or
\* the one that was.
LEMMA ReceiveKeepsQueue ==
  ASSUME up \in Seq(Frame), QueueInv, up # <<>>, up' = Tail(up), hand' = hand,
         held' = IF Head(up).op = "carry" THEN Head(up).slot ELSE held
  PROVE  QueueInv'
<1> PICK n \in Nat : n = Len(up')
  BY HeadTailProperties, LenProperties, EmptySeq
<1>1. /\ n = Len(up') /\ Len(up) = n + 1
      /\ DOMAIN up = 1..(n + 1) /\ DOMAIN up' = 1..n
      /\ up[1] = Head(up) /\ \A j \in 1..n : up'[j] = up[j + 1]
  BY HeadTailProperties, LenProperties, EmptySeq
<1>2. \A op : \A j \in 1..(n + 1) : Of(j, op)' <=> Of(j + 1, op)
  BY <1>1 DEF Of
<1>3. \A i \in 0..n, k \in 0..(n + 1) : Quiet(i, k)' <=> Quiet(i + 1, k + 1)
  <2> SUFFICES ASSUME NEW i \in 0..n, NEW k \in 0..(n + 1)
               PROVE  Quiet(i, k)' <=> Quiet(i + 1, k + 1)
    OBVIOUS
  <2>1. ASSUME Quiet(i, k)', NEW j \in (i + 2) .. k PROVE ~Of(j, "carry")
    <3>1. j - 1 \in (i + 1) .. (k - 1) /\ j - 1 \in 1..(n + 1) /\ (j - 1) + 1 = j
      BY <1>1
    <3> QED BY <2>1, <3>1, <1>2 DEF Quiet
  <2>2. ASSUME Quiet(i + 1, k + 1), NEW j \in (i + 1) .. (k - 1) PROVE ~Of(j, "carry")'
    <3>1. j + 1 \in ((i + 1) + 1) .. ((k + 1) - 1) /\ j \in 1..(n + 1)
      BY <1>1
    <3> QED BY <2>2, <3>1, <1>2 DEF Quiet
  <2> QED BY <2>1, <2>2, <1>1 DEF Quiet
<1>4. SUFFICES ASSUME NEW i \in 0..n, Sets(i)'
               PROVE  /\ \A k \in (i + 1)..n :
                            Of(k, "place")' /\ Quiet(i, k)' => up'[k].slot = SlotFrom(i)'
                      /\ Quiet(i, n + 1)' => hand' = SlotFrom(i)'
  BY <1>1 DEF QueueInv
<1>5. PICK p \in 0..(n + 1) : /\ Sets(p) /\ SlotFrom(p) = SlotFrom(i)' /\ p \in {i, i + 1}
                              /\ \A k \in 0..(n + 1) : Quiet(i, k)' => Quiet(p, k + 1)
  <2>1. CASE i # 0 \/ Of(1, "carry")
    <3>1. i + 1 \in 0..(n + 1) /\ Sets(i + 1) /\ SlotFrom(i + 1) = SlotFrom(i)'
      BY <2>1, <1>1, <1>2, <1>4 DEF Sets, SlotFrom, Of
    <3> QED BY <3>1, <1>3
  <2>2. CASE i = 0 /\ ~Of(1, "carry")
    <3>1. Sets(0) /\ SlotFrom(0) = SlotFrom(i)'
      BY <2>2, <1>1 DEF Sets, SlotFrom, Of
    <3>2. \A k \in 0..(n + 1) : Quiet(1, k + 1) => Quiet(0, k + 1)
      BY <2>2, <1>1 DEF Quiet
    <3> QED BY <3>1, <3>2, <1>1, <1>3, <2>2
  <2> QED BY <2>1, <2>2
<1>6. /\ \A k \in (p + 1)..(n + 1) : Of(k, "place") /\ Quiet(p, k) => up[k].slot = SlotFrom(p)
      /\ Quiet(p, n + 2) => hand = SlotFrom(p)
  BY <1>1, <1>5 DEF QueueInv
<1>7. Quiet(i, n + 1)' => hand' = SlotFrom(i)'
  BY <1>1, <1>5, <1>6
<1>8. ASSUME NEW k \in (i + 1)..n, Of(k, "place")', Quiet(i, k)'
      PROVE  up'[k].slot = SlotFrom(i)'
  <2>1. k \in 1..n /\ k + 1 \in (p + 1)..(n + 1) /\ Of(k + 1, "place") /\ Quiet(p, k + 1)
    BY <1>1, <1>2, <1>5, <1>8
  <2> QED BY <2>1, <1>1, <1>5, <1>6
<1> QED BY <1>7, <1>8

\* The frames the client has to send are frames.
LEMMA FramesOf ==
  /\ \A b \in Blocks : [op |-> "dig", block |-> b] \in Frame
  /\ \A p \in Spots : [op |-> "move", spot |-> p] \in Frame
  /\ \A s \in Hotbar : /\ [op |-> "carry", slot |-> s] \in Frame
                        /\ [op |-> "place", slot |-> s] \in Frame
<1> QED BY DEF Frame

\* What a frame of each kind carries.
LEMMA FrameHas ==
  ASSUME NEW f \in Frame
  PROVE  /\ f.op = "dig" => f.block \in Blocks
         /\ f.op = "move" => f.spot \in Spots
         /\ f.op = "carry" => f.slot \in Hotbar
<1> QED BY DEF Frame

\* A step of the client or the server keeps the queue in order.
LEMMA NextKeepsQueue ==
  ASSUME TypeOK, QueueInv, [Next]_vars
  PROVE  QueueInv'
<1> USE DEF TypeOK
<1>1. ASSUME NEW b \in Blocks, SendDig(b) PROVE QueueInv'
  <2> DEFINE f == [op |-> "dig", block |-> b]
  <2>1. f \in Frame /\ up' = Append(up, f) /\ hand' = hand /\ held' = held
    BY <1>1, FramesOf DEF SendDig, Send, server
  <2> QED BY <2>1, SendKeepsQueue
<1>2. ASSUME NEW p \in Spots, SendMove(p) PROVE QueueInv'
  <2> DEFINE f == [op |-> "move", spot |-> p]
  <2>1. f \in Frame /\ up' = Append(up, f) /\ hand' = hand /\ held' = held
    BY <1>2, FramesOf DEF SendMove, Send, server
  <2> QED BY <2>1, SendKeepsQueue
<1>3. ASSUME NEW s \in Hotbar, SendCarry(s) PROVE QueueInv'
  <2> DEFINE f == [op |-> "carry", slot |-> s]
  <2>1. f \in Frame /\ up' = Append(up, f) /\ hand' = s /\ held' = held
    BY <1>3, FramesOf DEF SendCarry, Send, server
  <2> QED BY <2>1, CarryKeepsQueue
<1>4. CASE SendPlace
  <2> DEFINE f == [op |-> "place", slot |-> hand]
  <2>1. f \in Frame /\ up' = Append(up, f) /\ hand' = hand /\ held' = held
    BY <1>4, FramesOf DEF SendPlace, Send, server
  <2> QED BY <2>1, SendKeepsQueue
<1>5. CASE Handle
  <2>1. /\ up # <<>> /\ up' = Tail(up) /\ hand' = hand
        /\ held' = IF Head(up).op = "carry" THEN Head(up).slot ELSE held
    BY <1>5 DEF Handle, HandleDig, HandleMove, HandleCarry, HandlePlace, Receive
  <2> QED BY <2>1, ReceiveKeepsQueue
<1>6. CASE TickStep \/ UNCHANGED vars
  <2>1. up' = up /\ hand' = hand /\ held' = held
    BY <1>6 DEF TickStep, Tick, Pickup, Sync, Remove, vars
  <2>2. \A k, op : Of(k, op)' <=> Of(k, op)
    BY <2>1 DEF Of
  <2>3. \A i, k : Quiet(i, k)' <=> Quiet(i, k)
    BY <2>2 DEF Quiet
  <2> QED BY <2>1, <2>2, <2>3 DEF QueueInv, Sets, SlotFrom
<1> QED BY <1>1, <1>2, <1>3, <1>4, <1>5, <1>6 DEF Next, Client

-----------------------------------------------------------------------------
\* Taking an entity off the ground leaves those before it where they are.
LEMMA Removed ==
  ASSUME ground \in Seq(Entity), NEW i \in 1..Len(ground)
  PROVE  /\ SeqOps!RemoveAt(ground, i) \in Seq(Entity)
         /\ Len(SeqOps!RemoveAt(ground, i)) = Len(ground) - 1
         /\ \A k \in 1..(Len(ground) - 1) :
               SeqOps!RemoveAt(ground, i)[k] = IF k < i THEN ground[k] ELSE ground[k + 1]
<1> PICK n \in Nat : n = Len(ground)
  BY LenProperties
<1>1. \A k \in 1..n : ground[k] \in Entity
  BY ElementOfSeq
<1>2. 1 \in Int /\ i - 1 \in Int /\ i + 1 \in Int /\ n \in Int /\ i <= n
  OBVIOUS
<1>3. SubSeq(ground, 1, i - 1) \in Seq(Entity) /\ Len(SubSeq(ground, 1, i - 1)) = i - 1
      /\ \A k \in 1..(i - 1) : SubSeq(ground, 1, i - 1)[k] = ground[k]
  <2>1. \A k \in 1..(i - 1) : ground[k] \in Entity
    BY <1>1
  <2> QED BY <2>1, <1>2, SubSeqProperties
<1>4. SubSeq(ground, i + 1, n) \in Seq(Entity) /\ Len(SubSeq(ground, i + 1, n)) = n - i
      /\ \A k \in 1..(n - i) : SubSeq(ground, i + 1, n)[k] = ground[i + k]
  <2>1. \A k \in (i + 1)..n : ground[k] \in Entity
    BY <1>1
  <2> QED BY <2>1, <1>2, SubSeqProperties
<1> DEFINE a == SubSeq(ground, 1, i - 1)
           b == SubSeq(ground, i + 1, n)
<1>5. SeqOps!RemoveAt(ground, i) = a \o b
  BY DEF SeqOps!RemoveAt
<1> HIDE DEF a, b
<1>6. /\ a \o b \in Seq(Entity) /\ Len(a \o b) = n - 1
      /\ \A k \in 1..(n - 1) : (a \o b)[k] = IF k <= i - 1 THEN a[k] ELSE b[k - (i - 1)]
  <2>1. a \in Seq(Entity) /\ b \in Seq(Entity) /\ Len(a) = i - 1 /\ Len(b) = n - i
    BY <1>3, <1>4 DEF a, b
  <2>2. /\ a \o b \in Seq(Entity) /\ Len(a \o b) = Len(a) + Len(b)
        /\ \A k \in 1..(Len(a) + Len(b)) :
              (a \o b)[k] = IF k <= Len(a) THEN a[k] ELSE b[k - Len(a)]
    BY <2>1, ConcatProperties, Zenon
  <2>3. Len(a) + Len(b) = n - 1
    BY <2>1
  <2> QED BY <2>1, <2>2, <2>3
<1>7. i \in 1..n
  OBVIOUS
<1>8. ASSUME NEW k \in 1..(n - 1) PROVE (a \o b)[k] = IF k < i THEN ground[k] ELSE ground[k + 1]
  <2>1. CASE k < i
    <3>1. k \in 1..(i - 1) /\ (a \o b)[k] = a[k]
      BY <1>6, <1>7, <2>1
    <3> QED BY <1>3, <2>1, <3>1 DEF a
  <2>2. CASE k >= i
    <3>1. k - (i - 1) \in 1..(n - i) /\ i + (k - (i - 1)) = k + 1
      BY <1>7, <2>2
    <3>2. (a \o b)[k] = b[k - (i - 1)]
      <4>1. ~(k <= i - 1)
        BY <1>7, <2>2
      <4> QED BY <1>6, <4>1
    <3>3. b[k - (i - 1)] = ground[k + 1] /\ ~(k < i)
      BY <1>4, <1>7, <2>2, <3>1 DEF b
    <3> QED BY <3>2, <3>3
  <2>3. k < i \/ k >= i
    BY <1>7
  <2> QED BY <2>1, <2>2, <2>3
<1> QED BY <1>5, <1>6, <1>8

\* A stack that gives or takes one item is still one.
LEMMA Stacks ==
  ASSUME TypeOK, NEW s \in Slots
  PROVE  /\ \A item \in Items : s \in Room(item) => Stored(s, item) \in Stack
         /\ inv[s] # Empty => inv[s].item \in Items /\ OneLess(inv[s]) \in Stack \cup {Empty}
         /\ client[s] # Empty => OneLess(client[s]) \in Stack \cup {Empty}
<1>1. MaxStack \in Nat /\ 1 <= MaxStack
  BY StackAssumption
<1>2. inv[s] \in Stack \cup {Empty} /\ client[s] \in Stack \cup {Empty}
  BY DEF TypeOK
<1>3. ASSUME NEW item \in Items, s \in Room(item) PROVE Stored(s, item) \in Stack
  BY <1>1, <1>2, <1>3 DEF Room, Stored, Stack
<1>4. \A x \in Stack : OneLess(x) \in Stack \cup {Empty} /\ x.item \in Items
  BY <1>1 DEF OneLess, Stack
<1> QED BY <1>2, <1>3, <1>4

\* A drop lies at integers, whatever becomes of its z.
LEMMA DropLies ==
  ASSUME NEW b \in Int \X Int \X Int
  PROVE  DropAt(b) \in Int \X Int \X Int
<1>1. b[1] \in Int /\ b[2] \in Int /\ b[3] \in Int
  OBVIOUS
<1>2. \A z, m \in Int : m > 0 => z % m \in Int
  OBVIOUS
<1>3. b[3] % 67108864 \in Int
  BY <1>1, <1>2, SMT
<1> QED BY <1>1, <1>3, SMT DEF DropAt

\* The types are kept, since no scan is under way while entities are removed.
LEMMA NextKeepsTypes ==
  ASSUME TypeOK, LoopInv, [Next]_vars
  PROVE  TypeOK' /\ LoopInv'
<1> USE DEF TypeOK, LoopInv
<1>1. ASSUME NEW f \in Frame, Send(f) PROVE up' \in Seq(Frame)
  BY <1>1, AppendProperties DEF Send
<1>2. ASSUME NEW b \in Blocks, SendDig(b) PROVE TypeOK' /\ LoopInv'
  BY <1>1, <1>2, FramesOf DEF SendDig, server
<1>3. ASSUME NEW p \in Spots, SendMove(p) PROVE TypeOK' /\ LoopInv'
  BY <1>1, <1>3, FramesOf DEF SendMove, server
<1>4. ASSUME NEW s \in Hotbar, SendCarry(s) PROVE TypeOK' /\ LoopInv'
  BY <1>1, <1>4, FramesOf DEF SendCarry, server
<1>5. CASE SendPlace
  <2>1. hand \in Slots
    BY SlotsAssumption
  <2>2. client' \in [Slots -> Stack \cup {Empty}]
    BY <1>5, <2>1, Stacks DEF SendPlace
  <2> QED BY <1>1, <1>5, <2>2, FramesOf DEF SendPlace, server
<1>6. ASSUME NEW op, Receive(op)
      PROVE  Head(up) \in Frame /\ up' \in Seq(Frame) /\ UNCHANGED <<client, hand, tick>>
  BY <1>6, HeadTailProperties DEF Receive
<1>7. CASE HandleDig
  <2> DEFINE b == Head(up).block
             e == [id |-> nextId, item |-> DropItem(b[2]), at |-> DropAt(b), of |-> b]
  <2>1. b \in Blocks /\ Head(up) \in Frame /\ up' \in Seq(Frame) /\ UNCHANGED <<client, hand, tick>>
    BY <1>6, <1>7, FrameHas DEF HandleDig, Receive
  <2>2. DropItem(b[2]) \in Items
    BY DEF DropItem, Items
  <2>3. DropAt(b) \in Int \X Int \X Int
    BY <2>1, SpaceAssumption, DropLies
  <2>4. e \in Entity
    BY <2>1, <2>2, <2>3 DEF Entity
  <2>5. ground' \in Seq(Entity) /\ Len(ground') = Len(ground) + 1 /\ Len(ground) \in Nat
    BY <1>7, <2>4, AppendProperties, LenProperties DEF HandleDig
  <2>6. dug' \in [Items -> Nat] /\ nextId' \in Nat
    BY <1>7, <2>2 DEF HandleDig
  <2>7. LoopInv'
    BY <1>7, <2>1 DEF HandleDig, Receive, tick
  <2>8. /\ picked' \subseteq 1..Len(ground') /\ queue' \subseteq 1..Len(ground')
        /\ skipped' \subseteq 1..Len(ground')
    BY <2>1, <2>5 DEF tick
  <2> QED BY <1>7, <2>1, <2>5, <2>6, <2>7, <2>8 DEF HandleDig, tick
<1>8. CASE HandleMove
  BY <1>6, <1>8, FrameHas DEF HandleMove, Receive, tick
<1>9. CASE HandleCarry
  BY <1>6, <1>9, FrameHas DEF HandleCarry, Receive, tick
<1>10. CASE HandlePlace
  <2>1. held \in Slots
    BY SlotsAssumption
  <2>2. inv' \in [Slots -> Stack \cup {Empty}]
    BY <1>10, <2>1, Stacks DEF HandlePlace
  <2>3. used' \in [Items -> Nat]
    BY <1>10, <2>1, Stacks DEF HandlePlace
  <2> QED BY <1>6, <1>10, <2>2, <2>3 DEF HandlePlace, tick
<1>11. CASE Tick
  BY <1>11 DEF Tick
<1>12. CASE Pickup
  <2> PICK i \in queue :
        LET item == ground[i].item IN
        /\ queue' = queue \ {i}
        /\ \/ skipped' = skipped \cup {i} /\ UNCHANGED inv
           \/ \E s \in Room(item) :
                 inv' = [inv EXCEPT ![s] = Stored(s, item)] /\ UNCHANGED skipped
    BY <1>12 DEF Pickup
  <2> DEFINE item == ground[i].item
  <2>1. item \in Items
    <3>1. ground[i] \in Entity
      BY ElementOfSeq
    <3> QED BY <3>1 DEF Entity
  <2>2. inv' \in [Slots -> Stack \cup {Empty}]
    <3>1. \A s \in Slots : \A x \in Stack :
             [inv EXCEPT ![s] = x] \in [Slots -> Stack \cup {Empty}]
      OBVIOUS
    <3>2. \A s \in Room(item) : s \in Slots /\ Stored(s, item) \in Stack
      BY <2>1, Stacks DEF Room
    <3>3. inv' = inv \/ \E s \in Room(item) : inv' = [inv EXCEPT ![s] = Stored(s, item)]
      OBVIOUS
    <3> QED BY <3>1, <3>2, <3>3
  <2>3. skipped' = skipped \/ skipped' = skipped \cup {i}
    OBVIOUS
  <2>4. /\ queue' \subseteq 1..Len(ground) /\ skipped' \subseteq 1..Len(ground)
        /\ queue' \subseteq picked /\ skipped' \subseteq picked \ queue'
    BY <1>12, <2>3 DEF Pickup
  <2> QED BY <1>12, <2>2, <2>4 DEF Pickup
<1>13. CASE Sync
  <2>1. client' \in [Slots -> Stack \cup {Empty}]
    BY <1>13 DEF Sync
  <2> QED BY <1>13, <2>1 DEF Sync
<1>14. CASE Remove
  <2> PICK i \in queue : NextIndex(i) /\ TakeOff(i)
    BY <1>14 DEF Remove
  <2>1. /\ ground' \in Seq(Entity) /\ Len(ground') = Len(ground) - 1
        /\ Len(ground) \in Nat
    BY Removed, LenProperties DEF TakeOff
  <2>2. queue' \subseteq 1..Len(ground') /\ skipped' \subseteq queue'
    BY <1>14, <2>1 DEF Remove, NextIndex, TakeOff
  <2>3. picked' = {}
    BY <1>14 DEF Remove
  <2>4. lost' \in [Items -> Nat]
    <3>1. \A x \in Items : [lost EXCEPT ![x] = @ + 1] \in [Items -> Nat]
      OBVIOUS
    <3>2. ground[i].item \in Items
      <4>1. ground[i] \in Entity
        BY ElementOfSeq
      <4> QED BY <4>1 DEF Entity
    <3> QED BY <3>1, <3>2 DEF TakeOff
  <2> QED BY <1>14, <2>1, <2>2, <2>3, <2>4 DEF Remove
<1>15. CASE UNCHANGED vars
  BY <1>15 DEF vars
<1> QED BY <1>2, <1>3, <1>4, <1>5, <1>7, <1>8, <1>9, <1>10, <1>11, <1>12, <1>13, <1>14, <1>15
        DEF Next, Client, Handle, TickStep

\* Indices behind i that move up by one are as many as they were.
LEMMA MovedUp ==
  ASSUME NEW i \in Int, NEW S \in SUBSET Int, NEW T \in SUBSET Int, IsFiniteSet(S), i \notin S,
         \A k \in Int : k \in T <=> (k < i /\ k \in S) \/ (k >= i /\ k + 1 \in S)
  PROVE  Cardinality(T) = Cardinality(S)
<1> DEFINE f == [k \in S |-> IF k < i THEN k ELSE k - 1]
<1>1. f \in [S -> T]
  <2>1. ASSUME NEW k \in S PROVE (IF k < i THEN k ELSE k - 1) \in T
    <3>1. k \in Int /\ k # i
      OBVIOUS
    <3>2. CASE k < i
      BY <3>1, <3>2
    <3>3. CASE k > i
      <4>1. k - 1 \in Int /\ k - 1 >= i /\ (k - 1) + 1 = k
        BY <3>1, <3>3
      <4> QED BY <3>3, <4>1
    <3> QED BY <3>1, <3>2, <3>3
  <2> QED BY <2>1
<1>2. ASSUME NEW a \in S, NEW b \in S, f[a] = f[b] PROVE a = b
  <2>1. a \in Int /\ b \in Int /\ a # i /\ b # i
    OBVIOUS
  <2> QED BY <1>2, <2>1
<1>3. ASSUME NEW t \in T PROVE \E k \in S : f[k] = t
  <2>1. t \in Int
    OBVIOUS
  <2>2. CASE t < i
    <3>1. t \in S /\ f[t] = t
      BY <2>1, <2>2
    <3> QED BY <3>1
  <2>3. CASE t >= i
    <3>1. t + 1 \in S /\ f[t + 1] = t
      BY <2>1, <2>3
    <3> QED BY <3>1
  <2> QED BY <2>1, <2>2, <2>3
<1>4. f \in Bijection(S, T)
  BY <1>1, <1>2, <1>3 DEF Bijection, Injection, Surjection, IsInjective
<1>5. ExistsBijection(S, T)
  BY <1>4, Fun_ExistsBij
<1> QED BY <1>5, FS_Bijection

\* Some positions of a sequence are finitely many.
LEMMA PositionsFinite ==
  ASSUME NEW n \in Nat, NEW S \in SUBSET (1..n)
  PROVE  IsFiniteSet(S) /\ Cardinality(S) \in Nat
<1>1. IsFiniteSet(1..n)
  BY FS_Interval
<1> QED BY <1>1, FS_Subset, FS_CardinalityType

\* One more position at the end, and the first one gone.
LEMMA AheadSent ==
  ASSUME up \in Seq(Frame), NEW f \in Frame, up' = Append(up, f), NEW s
  PROVE  /\ Cardinality(Ahead(s)) \in Nat
         /\ Cardinality(Ahead(s)') =
              Cardinality(Ahead(s)) + IF f.op = "place" /\ f.slot = s THEN 1 ELSE 0
<1> PICK n \in Nat : n = Len(up)
  BY LenProperties
<1>1. Len(up') = n + 1 /\ up'[n + 1] = f /\ \A j \in 1..n : up'[j] = up[j]
  BY Sent
<1>2. Ahead(s) \in SUBSET (1..n)
  BY DEF Ahead
<1>3. IsFiniteSet(Ahead(s)) /\ Cardinality(Ahead(s)) \in Nat /\ n + 1 \notin Ahead(s)
  <2>1. n + 1 \notin Ahead(s)
    BY <1>2
  <2> HIDE DEF Ahead
  <2> QED BY <1>2, <2>1, PositionsFinite
<1>4. CASE f.op = "place" /\ f.slot = s
  <2>1. Ahead(s)' = Ahead(s) \cup {n + 1}
    BY <1>1, <1>4 DEF Ahead
  <2>2. Cardinality(Ahead(s) \cup {n + 1}) = Cardinality(Ahead(s)) + 1
    BY <1>3, FS_AddElement
  <2> QED BY <1>3, <1>4, <2>1, <2>2
<1>5. CASE ~(f.op = "place" /\ f.slot = s)
  <2>1. Ahead(s)' = Ahead(s)
    BY <1>1, <1>5 DEF Ahead
  <2> QED BY <1>3, <1>5, <2>1
<1> QED BY <1>4, <1>5

\* One placement less in the queue when it is the one handled.
LEMMA AheadReceived ==
  ASSUME up \in Seq(Frame), up # <<>>, up' = Tail(up), NEW s
  PROVE  /\ Cardinality(Ahead(s)) \in Nat
         /\ Cardinality(Ahead(s)') =
              Cardinality(Ahead(s)) - IF Head(up).op = "place" /\ Head(up).slot = s THEN 1 ELSE 0
<1> PICK n \in Nat : n = Len(up)
  BY LenProperties
<1>1. n >= 1 /\ Head(up) = up[1] /\ Len(up') = n - 1 /\ \A j \in 1..(n - 1) : up'[j] = up[j + 1]
  BY EmptySeq, HeadTailProperties
<1> DEFINE A == Ahead(s)
           B == Ahead(s)'
           C == A \ {1}
<1>2. A \in SUBSET (1..n)
  BY DEF Ahead
<1>3. IsFiniteSet(A) /\ Cardinality(A) \in Nat
  BY <1>2, PositionsFinite
<1>4. IsFiniteSet(C) /\ Cardinality(C) = IF 1 \in A THEN Cardinality(A) - 1 ELSE Cardinality(A)
  <2> HIDE DEF A
  <2> QED BY <1>3, FS_RemoveElement
<1>5. 1 \in A <=> Head(up).op = "place" /\ Head(up).slot = s
  BY <1>1 DEF Ahead
<1>6. \A k \in Int : k \in B <=> (k < 1 /\ k \in C) \/ (k >= 1 /\ k + 1 \in C)
  <2> SUFFICES ASSUME NEW k \in Int PROVE k \in B <=> (k < 1 /\ k \in C) \/ (k >= 1 /\ k + 1 \in C)
    OBVIOUS
  <2>1. k \in B <=> k \in 1..(n - 1) /\ up[k + 1].op = "place" /\ up[k + 1].slot = s
    BY <1>1 DEF Ahead
  <2>2. k >= 1 => (k + 1 \in C <=> k + 1 \in 1..n /\ up[k + 1].op = "place" /\ up[k + 1].slot = s)
    BY DEF Ahead
  <2>3. ~(k < 1 /\ k \in C)
    BY <1>2
  <2> QED BY <2>1, <2>2, <2>3
<1>7. C \in SUBSET Int /\ B \in SUBSET Int
  BY <1>1, <1>2 DEF Ahead
<1> HIDE DEF A, B, C
<1>8. 1 \notin C
  BY DEF C
<1>9. Cardinality(B) = Cardinality(C)
  BY <1>4, <1>6, <1>7, <1>8, MovedUp
<1> QED BY <1>3, <1>4, <1>5, <1>9 DEF A, B

\* A stack of the inventory: how many it holds.
LEMMA CountOf ==
  ASSUME NEW x \in Stack \cup {Empty}
  PROVE  /\ x.count \in Nat
         /\ x # Empty => x.item \in Items /\ x.count \in 1..MaxStack
         /\ x = Empty => x.count = 0 /\ x.item \notin Items
<1>1. CASE x = Empty
  BY <1>1 DEF Empty, Items, Bedrock, Dirt
<1>2. CASE x \in Stack
  <2>1. x.item \in Items /\ x.count \in 1..MaxStack
    BY <1>2 DEF Stack
  <2>2. x # Empty
    BY <2>1 DEF Empty, Items, Bedrock, Dirt
  <2>3. x.count \in Nat
    BY <2>1, StackAssumption
  <2> QED BY <2>1, <2>2, <2>3
<1> QED BY <1>1, <1>2

\* A stack less one item.
LEMMA LessOf ==
  ASSUME NEW x \in Stack \cup {Empty}, x # Empty
  PROVE  /\ OneLess(x).count = x.count - 1
         /\ OneLess(x) # Empty => OneLess(x).item = x.item
         /\ OneLess(x) = Empty <=> x.count = 1
<1>1. x \in Stack /\ x.count \in Nat /\ x.count >= 1 /\ x.item \in Items
  BY CountOf
<1>2. CASE x.count = 1
  BY <1>1, <1>2 DEF OneLess, Empty
<1>3. CASE x.count > 1
  <2>1. OneLess(x) = [x EXCEPT !.count = @ - 1]
    BY <1>1, <1>3 DEF OneLess
  <2>2. OneLess(x).count = x.count - 1 /\ OneLess(x).item = x.item
    BY <1>1, <2>1 DEF Stack
  <2>3. OneLess(x) # Empty
    <3>1. OneLess(x).item \in Items /\ Empty.item \notin Items
      BY <1>1, <2>2 DEF Empty, Items, Bedrock, Dirt
    <3> QED BY <3>1
  <2> QED BY <1>3, <2>2, <2>3
<1> QED BY <1>1, <1>2, <1>3

\* What the client shows of a slot.
Shows(s) == /\ client[s].count + Cardinality(Ahead(s)) >= inv[s].count
            /\ client[s] # Empty => client[s].item = inv[s].item

\* A frame of the client leaves the view right, a placement because it is
\* counted as ahead.
LEMMA SendKeepsShown ==
  ASSUME TypeOK, ShownInv, NEW f \in Frame, up' = Append(up, f), UNCHANGED <<pc, inv>>,
         f.op # "place" => client' = client,
         f.op = "place" => /\ f.slot = hand /\ client[hand] # Empty
                           /\ client' = [client EXCEPT ![hand] = OneLess(@)]
  PROVE  ShownInv'
<1>1. SUFFICES ASSUME pc # "pickup", NEW s \in Slots, inv[s] # Empty PROVE Shows(s)'
  BY DEF ShownInv, Shows
<1>2. Shows(s)
  BY <1>1 DEF ShownInv, Shows
<1>3. /\ Cardinality(Ahead(s)) \in Nat
      /\ Cardinality(Ahead(s)') = Cardinality(Ahead(s)) + IF f.op = "place" /\ f.slot = s THEN 1 ELSE 0
  BY AheadSent DEF TypeOK
<1>4. inv[s].count \in Nat /\ client[s].count \in Nat /\ client[s] \in Stack \cup {Empty}
  BY CountOf DEF TypeOK
<1>5. CASE f.op = "place" /\ f.slot = s
  <2>1. client'[s] = OneLess(client[s]) /\ client[s] # Empty
    BY <1>5 DEF TypeOK
  <2>2. client'[s].count = client[s].count - 1 /\ (client'[s] # Empty => client'[s].item = client[s].item)
    BY <1>4, <2>1, LessOf
  <2> QED BY <1>2, <1>3, <1>4, <1>5, <2>1, <2>2 DEF Shows
<1>6. CASE ~(f.op = "place" /\ f.slot = s)
  <2>1. client'[s] = client[s]
    BY <1>6 DEF TypeOK
  <2> QED BY <1>2, <1>3, <1>4, <1>6, <2>1 DEF Shows
<1> QED BY <1>5, <1>6

\* A frame handled, a placement being counted as ahead no longer.
LEMMA ReceiveKeepsShown ==
  ASSUME TypeOK, ShownInv, PlacementHitsItsSlot, up # <<>>, up' = Tail(up),
         UNCHANGED <<pc, client>>,
         Head(up).op # "place" => inv' = inv,
         Head(up).op = "place" => inv' = [inv EXCEPT ![held] = IF @ = Empty THEN @ ELSE OneLess(@)]
  PROVE  ShownInv'
<1>1. SUFFICES ASSUME pc # "pickup", NEW s \in Slots, inv'[s] # Empty PROVE Shows(s)'
  BY DEF ShownInv, Shows
<1>2. /\ Cardinality(Ahead(s)) \in Nat
      /\ Cardinality(Ahead(s)') =
           Cardinality(Ahead(s)) - IF Head(up).op = "place" /\ Head(up).slot = s THEN 1 ELSE 0
  BY AheadReceived DEF TypeOK
<1>3. inv[s] \in Stack \cup {Empty} /\ inv[s].count \in Nat /\ client[s].count \in Nat
  BY CountOf DEF TypeOK
<1>4. Head(up).op = "place" => Head(up).slot = held
  BY DEF PlacementHitsItsSlot
<1>5. CASE Head(up).op = "place" /\ s = held
  <2>1. inv'[s] = OneLess(inv[s]) /\ inv[s] # Empty
    BY <1>1, <1>5 DEF TypeOK
  <2>2. inv'[s].count = inv[s].count - 1 /\ inv'[s].item = inv[s].item
    BY <1>1, <1>3, <2>1, LessOf
  <2>3. Shows(s)
    BY <1>1, <2>1 DEF ShownInv, Shows
  <2> QED BY <1>2, <1>3, <1>4, <1>5, <2>2, <2>3 DEF Shows
<1>6. CASE ~(Head(up).op = "place" /\ s = held)
  <2>1. inv'[s] = inv[s]
    BY <1>6 DEF TypeOK
  <2>2. Shows(s)
    BY <1>1, <2>1 DEF ShownInv, Shows
  <2> QED BY <1>2, <1>3, <1>4, <1>6, <2>1, <2>2 DEF Shows
<1> QED BY <1>5, <1>6

\* A placement next in the queue meets its slot.
LEMMA NextPlacement == IInv => PlacementHitsItsSlot
<1> SUFFICES ASSUME IInv, up # <<>>, Head(up).op = "place" PROVE Head(up).slot = held
  BY DEF PlacementHitsItsSlot
<1>1. up \in Seq(Frame) /\ QueueInv
  BY DEF IInv, TypeOK
<1>2. Len(up) \in Nat /\ 1 <= Len(up) /\ DOMAIN up = 1..Len(up) /\ up[1] = Head(up)
  BY <1>1, LenProperties, EmptySeq, HeadTailProperties
<1>3. 0 \in 0..Len(up) /\ Sets(0) /\ 1 \in (0 + 1)..Len(up) /\ Of(1, "place") /\ Quiet(0, 1)
  BY <1>2 DEF Sets, Of, Quiet
<1>4. up[1].slot = SlotFrom(0)
  BY <1>1, <1>3 DEF QueueInv
<1> QED BY <1>2, <1>4 DEF SlotFrom

\* The client's view is kept by every step; the write of the slots restores it.
LEMMA NextKeepsShown ==
  ASSUME IInv, ShownInv, [Next]_vars
  PROVE  ShownInv'
<1>1. TypeOK /\ PlacementHitsItsSlot
  BY NextPlacement DEF IInv
<1>2. ASSUME NEW b \in Blocks, SendDig(b) PROVE ShownInv'
  <2> DEFINE f == [op |-> "dig", block |-> b]
  <2>1. f \in Frame /\ up' = Append(up, f) /\ UNCHANGED <<client, pc, inv>> /\ f.op # "place"
    BY <1>2, FramesOf DEF SendDig, Send, server
  <2> HIDE DEF f
  <2> QED BY <1>1, <2>1, SendKeepsShown
<1>3. ASSUME NEW p \in Spots, SendMove(p) PROVE ShownInv'
  <2> DEFINE f == [op |-> "move", spot |-> p]
  <2>1. f \in Frame /\ up' = Append(up, f) /\ UNCHANGED <<client, pc, inv>> /\ f.op # "place"
    BY <1>3, FramesOf DEF SendMove, Send, server
  <2> HIDE DEF f
  <2> QED BY <1>1, <2>1, SendKeepsShown
<1>4. ASSUME NEW s \in Hotbar, SendCarry(s) PROVE ShownInv'
  <2> DEFINE f == [op |-> "carry", slot |-> s]
  <2>1. f \in Frame /\ up' = Append(up, f) /\ UNCHANGED <<client, pc, inv>> /\ f.op # "place"
    BY <1>4, FramesOf DEF SendCarry, Send, server
  <2> HIDE DEF f
  <2> QED BY <1>1, <2>1, SendKeepsShown
<1>5. CASE SendPlace
  <2> DEFINE f == [op |-> "place", slot |-> hand]
  <2>1. /\ f \in Frame /\ up' = Append(up, f) /\ UNCHANGED <<pc, inv>> /\ f.op = "place" /\ f.slot = hand
        /\ client[hand] # Empty /\ client' = [client EXCEPT ![hand] = OneLess(@)]
    BY <1>1, <1>5, FramesOf DEF SendPlace, Send, server, TypeOK
  <2> HIDE DEF f
  <2> QED BY <1>1, <2>1, SendKeepsShown
<1>6. CASE Handle
  <2>1. /\ up # <<>> /\ up' = Tail(up) /\ UNCHANGED <<pc, client>>
        /\ Head(up).op # "place" => inv' = inv
        /\ Head(up).op = "place" => inv' = [inv EXCEPT ![held] = IF @ = Empty THEN @ ELSE OneLess(@)]
    BY <1>6 DEF Handle, HandleDig, HandleMove, HandleCarry, HandlePlace, Receive, tick
  <2> QED BY <1>1, <2>1, ReceiveKeepsShown
<1>7. CASE Tick \/ Pickup
  BY <1>7 DEF Tick, Pickup, ShownInv
<1>8. CASE Sync
  <2>1. SUFFICES ASSUME NEW s \in Slots, inv'[s] # Empty PROVE Shows(s)'
    BY DEF ShownInv, Shows
  <2>2. up' = up /\ inv' = inv /\ client'[s] = inv[s]
    BY <1>8, <2>1 DEF Sync
  <2>3. inv[s].count \in Nat
    BY <1>1, CountOf DEF TypeOK
  <2>4. Cardinality(Ahead(s)') \in Nat
    <3>1. Ahead(s)' = Ahead(s)
      BY <2>2 DEF Ahead
    <3>2. Len(up) \in Nat /\ Ahead(s) \in SUBSET (1..Len(up))
      BY <1>1, LenProperties DEF Ahead, TypeOK
    <3> QED BY <3>1, <3>2, PositionsFinite
  <2> QED BY <2>2, <2>3, <2>4 DEF Shows
<1>9. CASE Remove \/ UNCHANGED vars
  <2>1. UNCHANGED <<up, client, inv>> /\ (pc' # "pickup" => pc # "pickup")
    BY <1>9 DEF Remove, vars
  <2> QED BY <2>1 DEF ShownInv, Ahead
<1> QED BY <1>2, <1>3, <1>4, <1>5, <1>6, <1>7, <1>8, <1>9 DEF Next, Client, TickStep

-----------------------------------------------------------------------------
\* What is counted: finitely many entities and items.
LEMMA Counted ==
  ASSUME TypeOK, NEW i
  PROVE  /\ IsFiniteSet(OnGround(i)) /\ Cardinality(OnGround(i)) \in Nat
         /\ IsFiniteSet(InInventory(i)) /\ Cardinality(InInventory(i)) \in Nat
<1>1. Len(ground) \in Nat /\ OnGround(i) \in SUBSET (1..Len(ground))
  BY LenProperties DEF TypeOK, OnGround
<1>2. IsFiniteSet(OnGround(i)) /\ Cardinality(OnGround(i)) \in Nat
  <2> HIDE DEF OnGround
  <2> QED BY <1>1, PositionsFinite
<1>3. IsFiniteSet(1..MaxStack) /\ IsFiniteSet(Slots)
  BY StackAssumption, SlotsAssumption, FS_Interval
<1>4. IsFiniteSet(Slots \X (1..MaxStack))
  BY <1>3, FS_Product
<1>5. InInventory(i) \in SUBSET (Slots \X (1..MaxStack))
  BY DEF InInventory
<1> HIDE DEF InInventory
<1>6. IsFiniteSet(InInventory(i)) /\ Cardinality(InInventory(i)) \in Nat
  BY <1>4, <1>5, FS_Subset, FS_CardinalityType
<1> QED BY <1>2, <1>6

\* An item on top of a stack, or off it.
LEMMA InventoryGains ==
  ASSUME TypeOK, NEW item \in Items, NEW s \in Room(item), inv' = [inv EXCEPT ![s] = Stored(s, item)],
         NEW i \in Items
  PROVE  Cardinality(InInventory(i)') = Cardinality(InInventory(i)) + IF i = item THEN 1 ELSE 0
<1> DEFINE c == inv[s].count + 1
<1>1. s \in Slots /\ (inv[s] = Empty \/ (inv[s].item = item /\ inv[s].count < MaxStack))
  BY DEF Room
<1>2. inv[s] \in Stack \cup {Empty} /\ MaxStack \in Nat /\ MaxStack >= 1
  BY <1>1, StackAssumption DEF TypeOK
<1>3. /\ inv[s].count \in Nat /\ (inv[s] # Empty => inv[s].item \in Items)
      /\ (inv[s] = Empty => inv[s].count = 0 /\ inv[s].item \notin Items)
  BY <1>2, CountOf
<1>4. c \in 1..MaxStack
  BY <1>1, <1>2, <1>3
<1>5. inv'[s].item = item /\ inv'[s].count = c /\ \A t \in Slots : t # s => inv'[t] = inv[t]
  <2>1. inv'[s] = Stored(s, item) /\ \A t \in Slots : t # s => inv'[t] = inv[t]
    BY <1>1 DEF TypeOK
  <2>2. CASE inv[s] = Empty
    BY <1>3, <2>1, <2>2 DEF Stored
  <2>3. CASE inv[s] # Empty
    <3>1. inv[s] \in Stack
      BY <1>2, <2>3
    <3> QED BY <1>1, <2>1, <2>3, <3>1 DEF Stored, Stack
  <2> QED BY <2>1, <2>2, <2>3
<1>6. ASSUME NEW u \in Slots \X (1..MaxStack)
      PROVE  u \in InInventory(i)' <=> u \in InInventory(i) \/ (i = item /\ u = <<s, c>>)
  <2>1. u[1] \in Slots /\ u[2] \in 1..MaxStack /\ u = <<u[1], u[2]>>
    OBVIOUS
  <2>2. CASE u[1] # s
    <3>1. inv'[u[1]] = inv[u[1]] /\ u # <<s, c>>
      BY <1>5, <2>1, <2>2
    <3> QED BY <3>1 DEF InInventory
  <2>3. CASE u[1] = s
    <3>1. u \in InInventory(i)' <=> i = item /\ u[2] <= c
      BY <1>5, <2>3 DEF InInventory
    <3>2. u \in InInventory(i) <=> inv[s].item = i /\ u[2] <= inv[s].count
      BY <2>3 DEF InInventory
    <3>3. u = <<s, c>> <=> u[2] = c
      BY <2>1, <2>3
    <3>4. CASE inv[s] = Empty
      <4>1. u \notin InInventory(i)
        BY <1>3, <3>2, <3>4
      <4>2. c = 1 /\ (u[2] <= c <=> u[2] = c)
        BY <1>3, <2>1, <3>4
      <4> QED BY <3>1, <3>3, <4>1, <4>2
    <3>5. CASE inv[s] # Empty
      <4>1. inv[s].item = item
        BY <1>1, <3>5
      <4>2. u[2] <= c <=> u[2] <= inv[s].count \/ u[2] = c
        BY <1>3, <2>1
      <4> QED BY <3>1, <3>2, <3>3, <4>1, <4>2
    <3> QED BY <3>4, <3>5
  <2> QED BY <2>2, <2>3
<1>7. <<s, c>> \notin InInventory(i) /\ <<s, c>> \in Slots \X (1..MaxStack)
  <2>1. ~(c <= inv[s].count)
    BY <1>3
  <2> QED BY <1>1, <1>4, <2>1 DEF InInventory
<1>8. /\ InInventory(i) \subseteq Slots \X (1..MaxStack)
      /\ InInventory(i)' \subseteq Slots \X (1..MaxStack)
  BY DEF InInventory
<1>9. IsFiniteSet(InInventory(i)) /\ Cardinality(InInventory(i)) \in Nat
  BY Counted
<1> HIDE DEF c
<1>10. CASE i = item
  <2>1. InInventory(i)' = InInventory(i) \cup {<<s, c>>}
    <3>1. \A u : u \in InInventory(i)' <=> u \in InInventory(i) \cup {<<s, c>>}
      BY <1>6, <1>7, <1>8, <1>10
    <3> HIDE DEF InInventory
    <3> QED BY <3>1
  <2>2. Cardinality(InInventory(i) \cup {<<s, c>>}) = Cardinality(InInventory(i)) + 1
    BY <1>7, <1>9, FS_AddElement
  <2> QED BY <1>10, <2>1, <2>2
<1>11. CASE i # item
  <2>1. InInventory(i)' = InInventory(i)
    <3>1. \A u : u \in InInventory(i)' <=> u \in InInventory(i)
      BY <1>6, <1>8, <1>11
    <3> HIDE DEF InInventory
    <3> QED BY <3>1
  <2> QED BY <1>9, <1>11, <2>1
<1> QED BY <1>10, <1>11

\* An item off the stack it lay on.
LEMMA InventoryGives ==
  ASSUME TypeOK, NEW s \in Slots, inv[s] # Empty, inv' = [inv EXCEPT ![s] = OneLess(@)],
         NEW i \in Items
  PROVE  Cardinality(InInventory(i)') = Cardinality(InInventory(i)) - IF i = inv[s].item THEN 1 ELSE 0
<1> DEFINE c == inv[s].count
<1>1. inv[s] \in Stack \cup {Empty} /\ inv[s].item \in Items /\ c \in Nat /\ c \in 1..MaxStack
  BY CountOf DEF TypeOK
<1>2. /\ inv'[s].count = c - 1 /\ (inv'[s] # Empty => inv'[s].item = inv[s].item)
      /\ inv'[s] = Empty <=> c = 1
      /\ \A t \in Slots : t # s => inv'[t] = inv[t]
  <2>1. inv'[s] = OneLess(inv[s]) /\ \A t \in Slots : t # s => inv'[t] = inv[t]
    BY DEF TypeOK
  <2> QED BY <1>1, <2>1, LessOf
<1>3. ASSUME NEW u \in Slots \X (1..MaxStack)
      PROVE  u \in InInventory(i)' <=> u \in InInventory(i) /\ ~(i = inv[s].item /\ u = <<s, c>>)
  <2>1. u[1] \in Slots /\ u[2] \in 1..MaxStack /\ u = <<u[1], u[2]>>
    OBVIOUS
  <2>2. CASE u[1] # s
    <3>1. inv'[u[1]] = inv[u[1]] /\ u # <<s, c>>
      BY <1>2, <2>1, <2>2
    <3> QED BY <3>1 DEF InInventory
  <2>3. CASE u[1] = s
    <3>1. u \in InInventory(i)' <=> inv'[s].item = i /\ u[2] <= c - 1
      BY <1>2, <2>3 DEF InInventory
    <3>2. u \in InInventory(i) <=> inv[s].item = i /\ u[2] <= c
      BY <2>3 DEF InInventory
    <3>3. u = <<s, c>> <=> u[2] = c
      BY <2>1, <2>3
    <3>4. u[2] <= c - 1 <=> u[2] <= c /\ u[2] # c
      BY <1>1, <2>1
    <3>5. u[2] <= c - 1 => inv'[s].item = inv[s].item
      BY <1>1, <1>2, <2>1
    <3> QED BY <3>1, <3>2, <3>3, <3>4, <3>5
  <2> QED BY <2>2, <2>3
<1>4. i = inv[s].item => <<s, c>> \in InInventory(i)
  BY <1>1 DEF InInventory
<1>5. /\ InInventory(i) \subseteq Slots \X (1..MaxStack)
      /\ InInventory(i)' \subseteq Slots \X (1..MaxStack)
  BY DEF InInventory
<1>6. IsFiniteSet(InInventory(i)) /\ Cardinality(InInventory(i)) \in Nat
  BY Counted
<1> HIDE DEF c
<1>7. CASE i = inv[s].item
  <2>1. InInventory(i)' = InInventory(i) \ {<<s, c>>}
    <3>1. \A u : u \in InInventory(i)' <=> u \in InInventory(i) \ {<<s, c>>}
      BY <1>3, <1>5, <1>7
    <3> HIDE DEF InInventory
    <3> QED BY <3>1
  <2>2. Cardinality(InInventory(i) \ {<<s, c>>}) = Cardinality(InInventory(i)) - 1
    BY <1>4, <1>6, <1>7, FS_RemoveElement
  <2> QED BY <1>7, <2>1, <2>2
<1>8. CASE i # inv[s].item
  <2>1. InInventory(i)' = InInventory(i)
    <3>1. \A u : u \in InInventory(i)' <=> u \in InInventory(i)
      BY <1>3, <1>5, <1>8
    <3> HIDE DEF InInventory
    <3> QED BY <3>1
  <2> QED BY <1>6, <1>8, <2>1
<1> QED BY <1>7, <1>8

\* An entity more on the ground.
LEMMA GroundGains ==
  ASSUME TypeOK, NEW e \in Entity, ground' = Append(ground, e), Taken = {}, Taken' = {}, NEW i
  PROVE  Cardinality(OnGround(i)') = Cardinality(OnGround(i)) + IF e.item = i THEN 1 ELSE 0
<1> PICK n \in Nat : n = Len(ground)
  BY LenProperties DEF TypeOK
<1>1. Len(ground') = n + 1 /\ ground'[n + 1] = e /\ \A j \in 1..n : ground'[j] = ground[j]
  BY AppendProperties DEF TypeOK
<1>2. IsFiniteSet(OnGround(i)) /\ Cardinality(OnGround(i)) \in Nat
  BY Counted
<1>3. n + 1 \notin OnGround(i)
  BY DEF OnGround
<1>4. CASE e.item = i
  <2>1. OnGround(i)' = OnGround(i) \cup {n + 1}
    BY <1>1, <1>4 DEF OnGround
  <2>2. Cardinality(OnGround(i) \cup {n + 1}) = Cardinality(OnGround(i)) + 1
    BY <1>2, <1>3, FS_AddElement
  <2> QED BY <1>4, <2>1, <2>2
<1>5. CASE e.item # i
  <2>1. OnGround(i)' = OnGround(i)
    BY <1>1, <1>5 DEF OnGround
  <2> QED BY <1>2, <1>5, <2>1
<1> QED BY <1>4, <1>5

\* An entity whose item is stored.
LEMMA GroundTaken ==
  ASSUME TypeOK, ground' = ground, NEW k \in 1..Len(ground), k \notin Taken, Taken' = Taken \cup {k},
         NEW i
  PROVE  Cardinality(OnGround(i)') = Cardinality(OnGround(i)) - IF ground[k].item = i THEN 1 ELSE 0
<1>1. IsFiniteSet(OnGround(i)) /\ Cardinality(OnGround(i)) \in Nat
  BY Counted
<1>2. OnGround(i)' = OnGround(i) \ {k}
  BY DEF OnGround
<1>3. k \in OnGround(i) <=> ground[k].item = i
  BY DEF OnGround
<1> HIDE DEF OnGround
<1>4. Cardinality(OnGround(i) \ {k}) =
         IF k \in OnGround(i) THEN Cardinality(OnGround(i)) - 1 ELSE Cardinality(OnGround(i))
  BY <1>1, FS_RemoveElement
<1> QED BY <1>1, <1>2, <1>3, <1>4

\* An entity goes that has none with a stored item behind it: those before it
\* stay where they are, and those behind move up.
LEMMA GroundDrops ==
  ASSUME TypeOK, NEW k \in 1..Len(ground), Taken' = Taken \ {k}, \A j \in Taken : j <= k,
         ground' = SeqOps!RemoveAt(ground, k), NEW i
  PROVE  Cardinality(OnGround(i)') =
           Cardinality(OnGround(i)) - IF k \notin Taken /\ ground[k].item = i THEN 1 ELSE 0
<1> PICK n \in Nat : n = Len(ground)
  BY LenProperties DEF TypeOK
<1>1. /\ k \in 1..n /\ Len(ground') = n - 1
      /\ \A j \in 1..(n - 1) : ground'[j] = IF j < k THEN ground[j] ELSE ground[j + 1]
  BY Removed DEF TypeOK
<1> DEFINE S == OnGround(i) \ {k}
           T == OnGround(i)'
<1>2. S \in SUBSET Int /\ T \in SUBSET Int /\ k \notin S
  <2>1. OnGround(i) \subseteq 1..n /\ OnGround(i)' \subseteq 1..(n - 1)
    BY <1>1 DEF OnGround
  <2> QED BY <2>1
<1>6. /\ IsFiniteSet(S) /\ Cardinality(OnGround(i)) \in Nat
      /\ Cardinality(S) = Cardinality(OnGround(i)) - IF k \in OnGround(i) THEN 1 ELSE 0
  <2>1. IsFiniteSet(OnGround(i)) /\ Cardinality(OnGround(i)) \in Nat
    BY Counted
  <2> HIDE DEF OnGround
  <2> QED BY <2>1, FS_RemoveElement
<1>7. k \in OnGround(i) <=> k \notin Taken /\ ground[k].item = i
  BY DEF OnGround
<1>3. ASSUME NEW j \in Int PROVE j \in T <=> (j < k /\ j \in S) \/ (j >= k /\ j + 1 \in S)
  <2>1. j \in T <=> j \in 1..(n - 1) /\ j \notin Taken' /\ ground'[j].item = i
    BY <1>1 DEF OnGround
  <2>2. CASE j < k
    <3>1. j \in 1..(n - 1) <=> j \in 1..n
      BY <1>1, <2>2
    <3>2. j \notin Taken' <=> j \notin Taken
      BY <2>2
    <3>3. j \in 1..(n - 1) => ground'[j] = ground[j]
      BY <1>1, <2>2
    <3>4. j \in S <=> j \in 1..n /\ j \notin Taken /\ ground[j].item = i
      BY <1>1, <2>2 DEF OnGround
    <3>5. ~(j >= k)
      BY <1>1, <2>2
    <3> HIDE DEF S, T
    <3> QED BY <2>1, <2>2, <3>1, <3>2, <3>3, <3>4, <3>5
  <2>3. CASE j >= k
    <3>1. j \in 1..(n - 1) <=> j + 1 \in 1..n
      BY <1>1, <2>3
    <3>2. j \notin Taken' /\ j + 1 \notin Taken
      BY <1>1, <2>3
    <3>3. j \in 1..(n - 1) => ground'[j] = ground[j + 1]
      BY <1>1, <2>3
    <3>4. j + 1 \in S <=> j + 1 \in 1..n /\ j + 1 \notin Taken /\ ground[j + 1].item = i
      BY <1>1, <2>3 DEF OnGround
    <3>5. ~(j < k)
      BY <1>1, <2>3
    <3> HIDE DEF S, T
    <3> QED BY <2>1, <2>3, <3>1, <3>2, <3>3, <3>4, <3>5
  <2>4. j < k \/ j >= k
    BY <1>1
  <2> QED BY <2>2, <2>3, <2>4
<1> HIDE DEF S, T
<1>4. k \in Int
  BY <1>1
<1>5. Cardinality(T) = Cardinality(S)
  BY <1>2, <1>3, <1>4, <1>6, MovedUp
<1> QED BY <1>5, <1>6, <1>7 DEF T

\* The account of one kind of item.
Kept(i) == dug[i] = Cardinality(OnGround(i)) + Cardinality(InInventory(i)) + used[i] + lost[i]

\* What the steps of the client, the moves and the selections leave alone.
LEMMA SameKept ==
  ASSUME TypeOK, Conserved, UNCHANGED <<inv, ground, dug, used, lost>>, Taken' = Taken
  PROVE  Conserved'
<1>1. SUFFICES ASSUME NEW i \in Items PROVE Kept(i)'
  BY DEF Conserved, Kept
<1>2. OnGround(i)' = OnGround(i) /\ InInventory(i)' = InInventory(i)
  BY DEF OnGround, InInventory
<1> QED BY <1>2 DEF Conserved, Kept

\* No step makes an item or loses one unseen: a pickup stores the item of the
\* entity it visits, and the removals find the entities that were scanned.
LEMMA NextConserves ==
  ASSUME IInv, Conserved, [Next]_vars
  PROVE  Conserved'
<1>1. TypeOK /\ LoopInv
  BY DEF IInv
<1>2. CASE Client \/ UNCHANGED vars
  <2>1. UNCHANGED <<pc, picked, queue, skipped, inv, ground, dug, used, lost>>
    BY <1>2 DEF Client, SendDig, SendMove, SendCarry, SendPlace, server, vars
  <2> QED BY <1>1, <2>1, SameKept DEF Taken
<1>3. CASE HandleMove \/ HandleCarry
  <2>1. UNCHANGED <<pc, picked, queue, skipped, inv, ground, dug, used, lost>>
    BY <1>3 DEF HandleMove, HandleCarry, Receive, tick
  <2> QED BY <1>1, <2>1, SameKept DEF Taken
<1>4. CASE HandleDig
  <2> DEFINE b == Head(up).block
             e == [id |-> nextId, item |-> DropItem(b[2]), at |-> DropAt(b), of |-> b]
  <2>1. /\ pc = "idle" /\ pc' = pc /\ Head(up).op = "dig" /\ Head(up) \in Frame
        /\ ground' = Append(ground, e) /\ dug' = [dug EXCEPT ![e.item] = @ + 1]
        /\ UNCHANGED <<inv, used, lost>>
    BY <1>1, <1>4, HeadTailProperties DEF HandleDig, Receive, tick, TypeOK
  <2>2. b \in Blocks
    BY <2>1, FrameHas
  <2>3. e \in Entity /\ e.item \in Items
    <3>1. DropAt(b) \in Int \X Int \X Int /\ DropItem(b[2]) \in Items
      BY <2>2, SpaceAssumption, DropLies DEF DropItem, Items
    <3> QED BY <1>1, <2>2, <3>1 DEF Entity, TypeOK
  <2> HIDE DEF e
  <2>4. Taken = {} /\ Taken' = {}
    BY <2>1 DEF Taken
  <2>5. SUFFICES ASSUME NEW i \in Items PROVE Kept(i)'
    BY DEF Conserved, Kept
  <2>6. Cardinality(OnGround(i)') = Cardinality(OnGround(i)) + IF e.item = i THEN 1 ELSE 0
    BY <1>1, <2>1, <2>3, <2>4, GroundGains
  <2>7. /\ Cardinality(OnGround(i)) \in Nat /\ Cardinality(InInventory(i)) \in Nat
        /\ dug[i] \in Nat /\ used[i] \in Nat /\ lost[i] \in Nat
    BY <1>1, Counted DEF TypeOK
  <2>8. dug'[i] = dug[i] + IF e.item = i THEN 1 ELSE 0
    BY <1>1, <2>1, <2>3, <2>7 DEF TypeOK
  <2>9. InInventory(i)' = InInventory(i) /\ used'[i] = used[i] /\ lost'[i] = lost[i]
    BY <2>1 DEF InInventory
  <2> QED BY <2>6, <2>7, <2>8, <2>9 DEF Conserved, Kept
<1>5. CASE HandlePlace
  <2>1. /\ pc = "idle" /\ pc' = pc /\ UNCHANGED <<ground, dug, lost>>
        /\ inv' = [inv EXCEPT ![held] = IF @ = Empty THEN @ ELSE OneLess(@)]
        /\ used' = IF inv[held] = Empty THEN used
                   ELSE [used EXCEPT ![inv[held].item] = @ + 1]
    BY <1>5 DEF HandlePlace, Receive, tick
  <2>2. Taken' = Taken
    BY <2>1 DEF Taken
  <2>3. held \in Slots
    BY <1>1, SlotsAssumption DEF TypeOK
  <2>4. CASE inv[held] = Empty
    <3>1. inv' = inv /\ used' = used
      BY <1>1, <2>1, <2>3, <2>4 DEF TypeOK
    <3> QED BY <1>1, <2>1, <2>2, <3>1, SameKept
  <2>5. CASE inv[held] # Empty
    <3>1. inv' = [inv EXCEPT ![held] = OneLess(@)] /\ used' = [used EXCEPT ![inv[held].item] = @ + 1]
      BY <2>1, <2>5
    <3>2. SUFFICES ASSUME NEW i \in Items PROVE Kept(i)'
      BY DEF Conserved, Kept
    <3>3. Cardinality(InInventory(i)') =
             Cardinality(InInventory(i)) - IF i = inv[held].item THEN 1 ELSE 0
      BY <1>1, <2>3, <2>5, <3>1, InventoryGives
    <3>4. /\ Cardinality(OnGround(i)) \in Nat /\ Cardinality(InInventory(i)) \in Nat
          /\ dug[i] \in Nat /\ used[i] \in Nat /\ lost[i] \in Nat
      BY <1>1, Counted DEF TypeOK
    <3>5. used'[i] = used[i] + IF i = inv[held].item THEN 1 ELSE 0
      BY <1>1, <3>1, <3>4 DEF TypeOK
    <3>6. OnGround(i)' = OnGround(i) /\ dug'[i] = dug[i] /\ lost'[i] = lost[i]
      BY <2>1, <2>2 DEF OnGround
    <3> QED BY <3>3, <3>4, <3>5, <3>6 DEF Conserved, Kept
  <2> QED BY <2>4, <2>5
<1>6. CASE Tick
  <2>1. Taken = {} /\ Taken' = {} /\ UNCHANGED <<inv, ground, dug, used, lost>>
    BY <1>1, <1>6 DEF Tick, Taken, LoopInv
  <2> QED BY <1>1, <2>1, SameKept
<1>7. CASE Pickup
  <2> PICK k \in queue :
        LET item == ground[k].item IN
        /\ queue' = queue \ {k}
        /\ \/ skipped' = skipped \cup {k} /\ UNCHANGED inv
           \/ \E s \in Room(item) :
                 inv' = [inv EXCEPT ![s] = Stored(s, item)] /\ UNCHANGED skipped
    BY <1>7 DEF Pickup
  <2> DEFINE item == ground[k].item
  <2>1. /\ pc = "pickup" /\ UNCHANGED <<pc, ground, picked, dug, used, lost>>
        /\ queue \subseteq picked /\ skipped \subseteq picked \ queue /\ k \in 1..Len(ground)
    BY <1>1, <1>7 DEF Pickup, LoopInv, TypeOK
  <2>2. item \in Items
    <3>1. ground[k] \in Entity
      BY <1>1, <2>1, ElementOfSeq DEF TypeOK
    <3> QED BY <3>1 DEF Entity
  <2>3. \/ skipped' = skipped \cup {k} /\ inv' = inv
        \/ \E s \in Room(item) : inv' = [inv EXCEPT ![s] = Stored(s, item)] /\ skipped' = skipped
    OBVIOUS
  <2> HIDE DEF item
  <2>4. CASE skipped' = skipped \cup {k} /\ inv' = inv
    <3>1. Taken' = Taken
      BY <2>1, <2>4 DEF Taken
    <3> QED BY <1>1, <2>1, <2>4, <3>1, SameKept
  <2>5. CASE \E s \in Room(item) : inv' = [inv EXCEPT ![s] = Stored(s, item)] /\ skipped' = skipped
    <3>1. k \notin Taken /\ Taken' = Taken \cup {k}
      BY <2>1, <2>5 DEF Taken
    <3>2. SUFFICES ASSUME NEW i \in Items PROVE Kept(i)'
      BY DEF Conserved, Kept
    <3>3. Cardinality(OnGround(i)') = Cardinality(OnGround(i)) - IF i = item THEN 1 ELSE 0
      BY <1>1, <2>1, <3>1, GroundTaken DEF item
    <3>4. /\ Cardinality(OnGround(i)) \in Nat /\ Cardinality(InInventory(i)) \in Nat
          /\ dug[i] \in Nat /\ used[i] \in Nat /\ lost[i] \in Nat
      BY <1>1, Counted DEF TypeOK
    <3>5. Cardinality(InInventory(i)') = Cardinality(InInventory(i)) + IF i = item THEN 1 ELSE 0
      BY <1>1, <2>2, <2>5, InventoryGains
    <3>6. used'[i] = used[i] /\ dug'[i] = dug[i] /\ lost'[i] = lost[i]
      BY <2>1
    <3> QED BY <3>3, <3>4, <3>5, <3>6 DEF Conserved, Kept
  <2> QED BY <2>3, <2>4, <2>5
<1>8. CASE Sync
  <2>1. /\ pc = "pickup" /\ queue = {} /\ pc' = "remove" /\ queue' = picked
        /\ UNCHANGED <<skipped, inv, ground, dug, used, lost>>
    BY <1>8 DEF Sync
  <2>2. Taken' = Taken
    BY <2>1 DEF Taken
  <2> QED BY <1>1, <2>1, <2>2, SameKept
<1>9. CASE Remove
  <2> PICK k \in queue : NextIndex(k) /\ TakeOff(k)
    BY <1>9 DEF Remove
  <2>1. /\ pc = "remove" /\ pc' = (IF queue' = {} THEN "idle" ELSE "remove")
        /\ UNCHANGED <<inv, dug, used>> /\ k \in 1..Len(ground)
        /\ ground' = SeqOps!RemoveAt(ground, k)
        /\ queue' = queue \ {k} /\ skipped' = skipped \ {k}
        /\ lost' = IF k \in skipped THEN [lost EXCEPT ![ground[k].item] = @ + 1] ELSE lost
    BY <1>1, <1>9 DEF Remove, TypeOK, TakeOff
  <2>2. Taken = queue \ skipped /\ Taken' = Taken \ {k} /\ (k \in skipped <=> k \notin Taken)
    BY <2>1 DEF Taken
  <2>3. ground[k].item \in Items
    <3>1. ground[k] \in Entity
      BY <1>1, <2>1, ElementOfSeq DEF TypeOK
    <3> QED BY <3>1 DEF Entity
  <2>4. SUFFICES ASSUME NEW i \in Items PROVE Kept(i)'
    BY DEF Conserved, Kept
  <2>5. Cardinality(OnGround(i)') =
          Cardinality(OnGround(i)) - IF k \notin Taken /\ ground[k].item = i THEN 1 ELSE 0
    <3>1. \A j \in Taken : j <= k
      BY <2>2 DEF NextIndex
    <3> QED BY <1>1, <2>1, <2>2, <3>1, GroundDrops
  <2>6. /\ Cardinality(OnGround(i)) \in Nat /\ Cardinality(InInventory(i)) \in Nat
        /\ dug[i] \in Nat /\ used[i] \in Nat /\ lost[i] \in Nat
    BY <1>1, Counted DEF TypeOK
  <2>7. lost'[i] = lost[i] + IF k \notin Taken /\ ground[k].item = i THEN 1 ELSE 0
    BY <1>1, <2>1, <2>2, <2>3, <2>6 DEF TypeOK
  <2>8. InInventory(i)' = InInventory(i) /\ dug'[i] = dug[i] /\ used'[i] = used[i]
    BY <2>1 DEF InInventory
  <2> QED BY <2>5, <2>6, <2>7, <2>8 DEF Conserved, Kept
<1> QED BY <1>2, <1>3, <1>4, <1>5, <1>6, <1>7, <1>8, <1>9 DEF Next, Handle, TickStep

-----------------------------------------------------------------------------
\* The invariant: types, no scan while entities are removed, and a queue whose
\* placements meet their slots.
THEOREM Invariance == Spec => []IInv
<1>1. Init => IInv
  <2> SUFFICES ASSUME Init PROVE IInv
    OBVIOUS
  <2>1. TypeOK
    BY SlotsAssumption, SpaceAssumption, EmptySeq DEF Init, TypeOK, FirstId, Empty, Items
  <2>2. LoopInv
    BY DEF Init, LoopInv
  <2>3. QueueInv
    BY EmptySeq DEF Init, QueueInv, SlotFrom, Of
  <2> QED BY <2>1, <2>2, <2>3 DEF IInv
<1>2. IInv /\ [Next]_vars => IInv'
  BY NextKeepsQueue, NextKeepsTypes DEF IInv
<1> QED BY <1>1, <1>2, PTL DEF Spec, SafeSpec

\* The variables of a session stay in their types: no stack outgrows its limit,
\* and no loop of the tick goes by an index that is gone.
THEOREM TypeCorrect == Spec => []TypeOK
<1>1. IInv => TypeOK
  BY DEF IInv
<1> QED BY <1>1, Invariance, PTL

\* A placement reaches the server while the slot it was made from is held.
THEOREM PlacementsHit == Spec => []PlacementHitsItsSlot
BY NextPlacement, Invariance, PTL

\* Between ticks the client shows what the server holds, but for what it has
\* placed ahead of it: send_per_tick tells it every slot before it goes on.
THEOREM NothingInvisible == Spec => []ClientMissesNothing
<1>1. Init => ShownInv
  BY DEF Init, ShownInv
<1>2. IInv /\ ShownInv /\ [Next]_vars => ShownInv'
  BY NextKeepsShown
<1>3. ShownInv => ClientMissesNothing
  BY DEF ShownInv, ClientMissesNothing
<1> QED BY <1>1, <1>2, <1>3, Invariance, PTL DEF Spec, SafeSpec

\* Every item mined is on the ground, in a slot, placed, or went with an entity
\* that was skipped, at every point of the tick.
THEOREM ItemsConserved == Spec => []Conserved
<1>1. Init => Conserved
  <2> SUFFICES ASSUME Init, NEW i \in Items PROVE Kept(i)
    BY DEF Conserved, Kept
  <2>1. OnGround(i) = {}
    BY DEF Init, OnGround
  <2>2. InInventory(i) = {}
    BY DEF Init, InInventory, Empty, Items, Bedrock, Dirt
  <2> QED BY <2>1, <2>2, FS_EmptySet DEF Init, Kept
<1>2. IInv /\ Conserved /\ [Next]_vars => Conserved'
  BY NextConserves
<1> QED BY <1>1, <1>2, Invariance, PTL DEF Spec, SafeSpec
=============================================================================
