--------------------------- MODULE TerrainProofs ---------------------------
(***************************************************************************)
(* Proofs about the sessions of Terrain, for every radius and every set of *)
(* reachable chunks.  First SharedWorld, for any number of sessions and    *)
(* any blocks in any chunks: a session changes its own state and may add   *)
(* to the mined set, so the invariant is stated per session, and what      *)
(* others do only has to leave it alone.  Then ChunkStream: its inductive  *)
(* invariant, and that every step is a step of TerrainView or leaves it    *)
(* unchanged.                                                              *)
(***************************************************************************)
EXTENDS Terrain, TLAPS

\* The state proper to each session, and the types of TypeOK.
Types == /\ mined \subseteq Blocks
         /\ pc \in [Sessions -> PCs]
         /\ at \in [Sessions -> Reach]
         /\ sent \in [Sessions -> SUBSET Chunk]
         /\ todo \in [Sessions -> SUBSET Chunk]
         /\ replay \in [Sessions -> SUBSET Blocks]
         /\ snap \in [Sessions -> SUBSET Blocks]
         /\ owed \in [Sessions -> SUBSET Blocks]
         /\ holes \in [Sessions -> SUBSET Blocks]

\* Chunks on their way are new to the client and belong to the view of its
\* chunk, which they complete; there are none outside send_chunks.
ChunksInv(s) ==
    /\ todo[s] \cap sent[s] = {}
    /\ pc[s] \in {"load", "stream"} =>
          todo[s] \subseteq Visible(at[s]) /\ Visible(at[s]) \subseteq sent[s] \cup todo[s]
    /\ pc[s] \in {"replay", "select", "frames", "owe"} => todo[s] = {}
    /\ pc[s] \in {"load", "replay"} => at[s] = Spawn
    /\ pc[s] = "replay" => Visible(at[s]) \subseteq sent[s]
    /\ pc[s] \in {"select", "frames", "owe", "stream"} => Visible(Spawn) \subseteq sent[s]

\* Whatever a live session shows, or is about to show, as mined is recorded;
\* at most one update is owed, and only between its frame and the next.
MinedInv(s) ==
    /\ pc[s] # "closed" => holes[s] \subseteq mined /\ replay[s] \subseteq mined
                           /\ owed[s] \subseteq mined
    /\ pc[s] \in {"load", "select", "frames", "owe", "stream"} => replay[s] = {}
    /\ pc[s] \notin {"owe", "closed"} => owed[s] = {}
    /\ pc[s] = "owe" => \E b \in Blocks : owed[s] = {b}

\* Holes are in chunks the client has; those of the snapshot that lie in the
\* spawn view and have been replayed are among them.
HolesInv(s) ==
    /\ \A b \in holes[s] : ChunkOf[b] \in sent[s]
    /\ pc[s] = "load" => holes[s] = {}
    /\ pc[s] \in {"replay", "select", "frames", "owe", "stream"} =>
          \A b \in snap[s] \ replay[s] : ChunkOf[b] \in Visible(Spawn) => b \in holes[s]

SessionInv(s) == ChunksInv(s) /\ MinedInv(s) /\ HolesInv(s)

IInv == Types /\ \A s \in Sessions : SessionInv(s)

-----------------------------------------------------------------------------
\* The view square of any chunk consists of chunks.  (visible_chunks)
LEMMA VisibleType ==
  ASSUME NEW c \in Chunk
  PROVE  Visible(c) \subseteq Chunk
  BY RadiusAssumption DEF Visible, Chunk

\* Reachable positions are chunks, and so is the spawn chunk.
LEMMA ReachType == Reach \subseteq Chunk /\ Spawn \in Reach
  BY ReachAssumption DEF Chunk

\* Every step keeps the types.
LEMMA TypesKept == Types /\ [Next]_vars => Types'
<1> SUFFICES ASSUME Types, [Next]_vars PROVE Types'
  OBVIOUS
<1> USE DEF Types
<1>1. CASE Restart
  BY <1>1 DEF Restart, PCs
<1>2. ASSUME NEW s \in Sessions, Server(s) PROVE Types'
  <2>1. CASE SendChunk(s)
    BY <2>1 DEF SendChunk
  <2>2. CASE Snapshot(s)
    BY <2>2 DEF Snapshot, PCs
  <2>3. CASE Replay(s)
    BY <2>3 DEF Replay, Told
  <2>4. CASE StartLoop(s)
    BY <2>4 DEF StartLoop, PCs
  <2>5. CASE WriteUpdate(s)
    BY <2>5 DEF WriteUpdate, Told, PCs
  <2>6. CASE CheckChunk(s)
    <3>1. Visible(at[s]) \subseteq Chunk
      BY VisibleType, ReachType
    <3> QED BY <2>6, <3>1 DEF CheckChunk, PCs
  <2>7. CASE EndBatch(s)
    BY <2>7 DEF EndBatch, PCs
  <2> QED BY <1>2, <2>1, <2>2, <2>3, <2>4, <2>5, <2>6, <2>7 DEF Server
<1>3. ASSUME NEW s \in Sessions, Client(s) PROVE Types'
  <2>1. CASE Join(s)
    <3>1. Visible(Spawn) \subseteq Chunk
      BY VisibleType, ReachType
    <3> QED BY <2>1, <3>1, ReachType DEF Join, PCs
  <2>2. CASE Close(s)
    BY <2>2 DEF Close, PCs
  <2>3. ASSUME NEW p \in Reach, Move(s, p) PROVE Types'
    BY <2>3 DEF Move, PCs
  <2>4. ASSUME NEW b \in Blocks, Dig(s, b) PROVE Types'
    BY <2>4 DEF Dig, PCs
  <2> QED BY <1>3, <2>1, <2>2, <2>3, <2>4 DEF Client
<1>4. CASE UNCHANGED vars
  BY <1>4 DEF vars
<1> QED BY <1>1, <1>2, <1>3, <1>4 DEF Next

-----------------------------------------------------------------------------
\* Nothing of session t changes, and no mined block is forgotten.
Kept(t) == /\ mined \subseteq mined'
           /\ pc'[t] = pc[t]
           /\ at'[t] = at[t]
           /\ sent'[t] = sent[t]
           /\ todo'[t] = todo[t]
           /\ replay'[t] = replay[t]
           /\ snap'[t] = snap[t]
           /\ owed'[t] = owed[t]
           /\ holes'[t] = holes[t]

\* The tasks of other sessions leave a session's state alone.
LEMMA OthersKept ==
  ASSUME Types, NEW s \in Sessions, NEW t \in Sessions \ {s}, Server(s) \/ Client(s)
  PROVE  Kept(t)
<1> USE DEF Types, Kept
<1>1. CASE Server(s)
  BY <1>1 DEF Server, SendChunk, Snapshot, Replay, StartLoop, WriteUpdate, Told,
              CheckChunk, EndBatch
<1>2. CASE Client(s)
  BY <1>2 DEF Client, Join, Close, Move, Dig
<1> QED BY <1>1, <1>2

\* A session whose state is kept keeps its invariant.
LEMMA KeptInv ==
  ASSUME NEW t \in Sessions, SessionInv(t), Kept(t)
  PROVE  SessionInv(t)'
<1>1. ChunksInv(t)'
  BY DEF SessionInv, ChunksInv, Kept, Visible
<1>2. MinedInv(t)'
  BY DEF SessionInv, MinedInv, Kept
<1>3. HolesInv(t)'
  BY DEF SessionInv, HolesInv, Kept, Visible
<1> QED BY <1>1, <1>2, <1>3 DEF SessionInv

\* A step of a session's task or client keeps the session's own invariant.
LEMMA OwnStep ==
  ASSUME Types, NEW s \in Sessions, SessionInv(s), Server(s) \/ Client(s)
  PROVE  SessionInv(s)'
<1> USE DEF Types, SessionInv
<1>1. CASE SendChunk(s)
  <2> PICK c \in todo[s] : /\ todo' = [todo EXCEPT ![s] = @ \ {c}]
                           /\ sent' = [sent EXCEPT ![s] = @ \cup {c}]
                           /\ holes' = [holes EXCEPT ![s] = @ \ BlocksIn(c)]
    BY <1>1 DEF SendChunk
  <2>1. ChunksInv(s)'
    BY <1>1 DEF SendChunk, ChunksInv, Visible
  <2>2. MinedInv(s)'
    BY <1>1 DEF SendChunk, MinedInv, BlocksIn
  <2>3. HolesInv(s)'
    <3>1. \A b \in holes[s] : b \notin BlocksIn(c)
      BY DEF HolesInv, ChunksInv, BlocksIn
    <3>2. holes'[s] = holes[s]
      BY <3>1
    <3> QED BY <1>1, <3>2 DEF SendChunk, HolesInv, Visible
  <2> QED BY <2>1, <2>2, <2>3
<1>2. CASE Snapshot(s)
  BY <1>2 DEF Snapshot, ChunksInv, MinedInv, HolesInv, Visible
<1>3. CASE Replay(s)
  <2> PICK b \in replay[s] : replay' = [replay EXCEPT ![s] = @ \ {b}] /\ Told(s, b)
    BY <1>3 DEF Replay
  <2>1. ChunksInv(s)'
    BY <1>3 DEF Replay, ChunksInv, Visible
  <2>2. MinedInv(s)'
    BY <1>3 DEF Replay, MinedInv, Told
  <2>3. HolesInv(s)'
    <3>1. Visible(Spawn) \subseteq sent[s]
      BY <1>3 DEF Replay, ChunksInv
    <3> QED BY <1>3, <3>1 DEF Replay, HolesInv, Told, Visible
  <2> QED BY <2>1, <2>2, <2>3
<1>4. CASE StartLoop(s)
  BY <1>4 DEF StartLoop, ChunksInv, MinedInv, HolesInv, Visible
<1>5. CASE WriteUpdate(s)
  <2> PICK b \in owed[s] : owed' = [owed EXCEPT ![s] = @ \ {b}] /\ Told(s, b)
    BY <1>5 DEF WriteUpdate
  <2>1. ChunksInv(s)'
    BY <1>5 DEF WriteUpdate, ChunksInv, Visible
  <2>2. owed'[s] = {}
    BY <1>5 DEF WriteUpdate, MinedInv
  <2>3. MinedInv(s)'
    BY <1>5, <2>2 DEF WriteUpdate, MinedInv, Told
  <2>4. HolesInv(s)'
    BY <1>5 DEF WriteUpdate, HolesInv, Told, Visible
  <2> QED BY <2>1, <2>3, <2>4
<1>6. CASE CheckChunk(s)
  BY <1>6 DEF CheckChunk, ChunksInv, MinedInv, HolesInv, Visible
<1>7. CASE EndBatch(s)
  BY <1>7 DEF EndBatch, ChunksInv, MinedInv, HolesInv, Visible
<1>8. CASE Join(s)
  BY <1>8 DEF Join, ChunksInv, MinedInv, HolesInv, Visible
<1>9. CASE Close(s)
  BY <1>9 DEF Close, ChunksInv, MinedInv, HolesInv, Visible
<1>10. ASSUME NEW p \in Reach, Move(s, p) PROVE SessionInv(s)'
  BY <1>10 DEF Move, ChunksInv, MinedInv, HolesInv, Visible
<1>11. ASSUME NEW b \in Blocks, Dig(s, b) PROVE SessionInv(s)'
  BY <1>11 DEF Dig, ChunksInv, MinedInv, HolesInv, Visible
<1> QED BY <1>1, <1>2, <1>3, <1>4, <1>5, <1>6, <1>7, <1>8, <1>9, <1>10, <1>11
           DEF Server, Client

\* A session that ends with the process keeps its invariant, which says
\* little of closed ones.
LEMMA RestartInv ==
  ASSUME Types, NEW s \in Sessions, SessionInv(s), Restart
  PROVE  SessionInv(s)'
  BY DEF Types, SessionInv, Restart, ChunksInv, MinedInv, HolesInv

\* IInv is inductive.
LEMMA Inductive == IInv /\ [Next]_vars => IInv'
<1> SUFFICES ASSUME IInv, [Next]_vars PROVE IInv'
  OBVIOUS
<1>1. Types'
  BY TypesKept DEF IInv
<1>2. ASSUME NEW t \in Sessions PROVE SessionInv(t)'
  <2>1. CASE Restart
    BY <2>1, RestartInv DEF IInv
  <2>2. ASSUME NEW s \in Sessions, Server(s) \/ Client(s) PROVE SessionInv(t)'
    <3>1. CASE s = t
      BY <2>2, <3>1, OwnStep DEF IInv
    <3>2. CASE s # t
      <4>1. Kept(t)
        BY <2>2, <3>2, OthersKept DEF IInv
      <4> QED BY <4>1, KeptInv DEF IInv
    <3> QED BY <3>1, <3>2
  <2>3. CASE UNCHANGED vars
    <3>1. Kept(t)
      BY <2>3 DEF vars, Kept
    <3> QED BY <3>1, KeptInv DEF IInv
  <2> QED BY <2>1, <2>2, <2>3 DEF Next
<1> QED BY <1>1, <1>2 DEF IInv

\* IInv holds in every reachable state.
THEOREM Invariance == Spec => []IInv
<1>1. Init => IInv
  BY ReachType DEF Init, IInv, Types, SessionInv, ChunksInv, MinedInv, HolesInv, PCs
<1> QED BY <1>1, Inductive, PTL DEF Spec, SafeSpec

\* The sessions' state stays in its types, and updates are owed, or chunks on
\* their way, only while a session is at work.
THEOREM TypeCorrect == Spec => []TypeOK
<1>1. IInv => TypeOK
  BY DEF IInv, Types, SessionInv, ChunksInv, MinedInv, TypeOK
<1> QED BY <1>1, Invariance, PTL

\* No client shows a block as gone that the server does not record as mined.
THEOREM OnlyRecordedHoles == Spec => []HolesAreRecorded
<1>1. IInv => HolesAreRecorded
  BY DEF IInv, SessionInv, MinedInv, HolesAreRecorded
<1> QED BY <1>1, Invariance, PTL

\* Once the replay is over, the client shows every block of the spawn view
\* that was mined when the snapshot was taken.
THEOREM RestoresSpawnView == Spec => []SpawnViewRestored
<1>1. IInv => SpawnViewRestored
  BY DEF IInv, SessionInv, MinedInv, HolesInv, SpawnViewRestored
<1> QED BY <1>1, Invariance, PTL

-----------------------------------------------------------------------------
\* A step of the session itself never closes a hole: the chunks it writes are
\* new to the client, and holes are in chunks the client has.
LEMMA OwnHolesStay ==
  ASSUME IInv, NEW s \in Sessions, Server(s) \/ Client(s), pc[s] # "closed"
  PROVE  holes[s] \subseteq holes'[s]
<1> USE DEF IInv, Types
<1>1. CASE SendChunk(s)
  <2> PICK c \in todo[s] : holes' = [holes EXCEPT ![s] = @ \ BlocksIn(c)]
    BY <1>1 DEF SendChunk
  <2>1. \A b \in holes[s] : b \notin BlocksIn(c)
    BY DEF SessionInv, HolesInv, ChunksInv, BlocksIn
  <2> QED BY <2>1
<1>2. CASE ~SendChunk(s)
  BY <1>2 DEF Server, Client, Snapshot, Replay, StartLoop, WriteUpdate, Told,
              CheckChunk, EndBatch, Join, Close, Move, Dig
<1> QED BY <1>1, <1>2

\* Within a session, no step of anyone closes a hole its client shows.
THEOREM NoHoleCloses == Spec => HolesStayOpen
<1>1. IInv /\ [Next]_vars =>
        [\A s \in Sessions : pc[s] # "closed" => holes[s] \subseteq holes'[s]]_vars
  <2> SUFFICES ASSUME IInv, [Next]_vars, NEW t \in Sessions, pc[t] # "closed"
               PROVE  holes[t] \subseteq holes'[t]
    OBVIOUS
  <2>1. CASE Restart
    BY <2>1 DEF Restart
  <2>2. ASSUME NEW s \in Sessions, Server(s) \/ Client(s) PROVE holes[t] \subseteq holes'[t]
    <3>1. CASE s = t
      BY <2>2, <3>1, OwnHolesStay
    <3>2. CASE s # t
      BY <2>2, <3>2, OthersKept DEF IInv, Kept
    <3> QED BY <3>1, <3>2
  <2>3. CASE UNCHANGED vars
    BY <2>3 DEF vars
  <2> QED BY <2>1, <2>2, <2>3 DEF Next
<1> QED BY <1>1, Invariance, PTL DEF Spec, SafeSpec, HolesStayOpen

-----------------------------------------------------------------------------
\* Both modules draw the same view square.
LEMMA SameVisible == \A s, c : View(s)!Visible(c) = Visible(c)
  BY DEF View!Visible, Visible

\* A step of a session is a step of its own abstract view, or leaves that as
\* it is.
LEMMA OwnView ==
  ASSUME IInv, NEW s \in Sessions, Server(s) \/ Client(s)
  PROVE  [View(s)!Next]_(View(s)!vars)
<1> USE DEF IInv, Types, SessionInv, Phase, View!vars, View!Next
<1>1. CASE SendChunk(s)
  <2> PICK c \in todo[s] : sent' = [sent EXCEPT ![s] = @ \cup {c}]
    BY <1>1 DEF SendChunk
  <2>1. c \in View(s)!Visible(at[s]) \ sent[s]
    BY <1>1, SameVisible DEF SendChunk, ChunksInv
  <2>2. View(s)!Deliver
    BY <1>1, <2>1 DEF SendChunk, View!Deliver
  <2> QED BY <2>2
<1>2. CASE Snapshot(s)
  BY <1>2 DEF Snapshot
<1>3. CASE Replay(s)
  BY <1>3 DEF Replay
<1>4. CASE StartLoop(s)
  <2>1. View(s)!Visible(at[s]) \subseteq sent[s]
    BY <1>4, SameVisible DEF StartLoop, ChunksInv
  <2>2. View(s)!Settle
    BY <1>4, <2>1 DEF StartLoop, View!Settle
  <2> QED BY <2>2
<1>5. CASE WriteUpdate(s)
  BY <1>5 DEF WriteUpdate
<1>6. CASE CheckChunk(s)
  <2>1. CASE Visible(at[s]) \subseteq sent[s]
    <3>1. View(s)!Settle
      BY <1>6, <2>1, SameVisible DEF CheckChunk, View!Settle
    <3> QED BY <3>1
  <2>2. CASE ~(Visible(at[s]) \subseteq sent[s])
    BY <1>6, <2>2 DEF CheckChunk
  <2> QED BY <2>1, <2>2
<1>7. CASE EndBatch(s)
  <2>1. View(s)!Visible(at[s]) \subseteq sent[s]
    BY <1>7, SameVisible DEF EndBatch, ChunksInv
  <2>2. View(s)!Settle
    BY <1>7, <2>1 DEF EndBatch, View!Settle
  <2> QED BY <2>2
<1>8. CASE Join(s)
  BY <1>8 DEF Join, View!Join
<1>9. CASE Close(s)
  BY <1>9 DEF Close, View!Leave
<1>10. ASSUME NEW p \in Reach, Move(s, p) PROVE View(s)!Walk
  BY <1>10 DEF Move, View!Walk
<1>11. ASSUME NEW b \in Blocks, Dig(s, b) PROVE View(s)!Walk
  BY <1>11 DEF Dig, View!Walk
<1> QED BY <1>1, <1>2, <1>3, <1>4, <1>5, <1>6, <1>7, <1>8, <1>9, <1>10, <1>11
           DEF Server, Client

\* Every session keeps TerrainView's promise at every step, whatever the
\* other sessions do.
THEOREM SessionsKeepViews == Spec => EverySessionKeepsView
<1>1. IInv /\ [Next]_vars =>
        [\A s \in Sessions : [View(s)!Next]_(View(s)!vars)]_vars
  <2> SUFFICES ASSUME IInv, [Next]_vars, NEW t \in Sessions
               PROVE  [View(t)!Next]_(View(t)!vars)
    OBVIOUS
  <2>1. CASE Restart
    BY <2>1 DEF Restart, IInv, Types, Phase, View!vars, View!Leave, View!Next
  <2>2. ASSUME NEW s \in Sessions, Server(s) \/ Client(s)
        PROVE  [View(t)!Next]_(View(t)!vars)
    <3>1. CASE s = t
      BY <2>2, <3>1, OwnView
    <3>2. CASE s # t
      <4>1. Kept(t)
        BY <2>2, <3>2, OthersKept DEF IInv
      <4> QED BY <4>1 DEF Kept, Phase, View!vars
    <3> QED BY <3>1, <3>2
  <2>3. CASE UNCHANGED vars
    BY <2>3 DEF vars, Phase, View!vars
  <2> QED BY <2>1, <2>2, <2>3 DEF Next
<1> QED BY <1>1, Invariance, PTL DEF Spec, SafeSpec, EverySessionKeepsView
-----------------------------------------------------------------------------
\* ChunkStream: one session, by its own bookkeeping.

\* The view square of any chunk consists of chunks.  (visible_chunks)
LEMMA OneVisibleType ==
  ASSUME NEW c \in One!Chunk
  PROVE  One!Visible(c) \subseteq One!Chunk
  BY ConstantsFit DEF One!RadiusAssumption, One!Visible, One!Chunk

\* Every reachable position is a chunk, and none is the value for "no center
\* written yet".  (ServerState.last_chunk)
LEMMA OneReachType == Walks \subseteq One!Chunk /\ Spawn \in Walks /\ One!None \notin Walks
  <1>1. Walks \subseteq One!Chunk /\ Spawn \in Walks
    BY ConstantsFit DEF One!ReachAssumption, One!Chunk
  <1>2. \A c \in One!Chunk : c # One!None
    BY DEF One!Chunk, One!None
  <1> QED BY <1>1, <1>2

\* The variables stay in their types through every step of a session.
THEOREM StreamTypeCorrect == One!Spec => []StreamTypeOK
<1> USE DEF StreamTypeOK, One!TypeOK
<1>1. One!Init => One!TypeOK
  BY OneReachType, OneVisibleType, ConstantsFit DEF One!LoadsAssumption, One!Init, One!PCs
<1>2. One!TypeOK /\ [One!Next]_(One!vars) => One!TypeOK'
  <2> SUFFICES ASSUME One!TypeOK, [One!Next]_(One!vars) PROVE One!TypeOK'
    OBVIOUS
  <2>1. CASE One!SendChunk
    BY <2>1 DEF One!SendChunk
  <2>2. CASE One!FinishBatch
    BY <2>2 DEF One!FinishBatch, One!PCs
  <2>3. CASE One!SendCenter
    BY <2>3, OneReachType, OneVisibleType DEF One!SendCenter, One!PCs
  <2>4. CASE One!CheckChunk
    BY <2>4, OneReachType, OneVisibleType DEF One!CheckChunk, One!NewVisible, One!PCs
  <2>5. ASSUME NEW p \in Walks, One!Handle(p) PROVE One!TypeOK'
    BY <2>5 DEF One!Handle, One!PCs
  <2>6. CASE One!Disconnect
    BY <2>6 DEF One!Disconnect, One!PCs
  <2>7. CASE One!Connect
    BY <2>7, OneReachType, OneVisibleType, ConstantsFit DEF One!LoadsAssumption, One!Connect, One!PCs
  <2>8. CASE UNCHANGED One!vars
    BY <2>8 DEF One!vars
  <2> QED BY <2>1, <2>2, <2>3, <2>4, <2>5, <2>6, <2>7, <2>8
             DEF One!Next, One!Server, One!Client
<1> QED BY <1>1, <1>2, PTL DEF One!Spec, One!SafeSpec

-----------------------------------------------------------------------------
\* Inside send_chunks the client has the chunks of earlier batches and the
\* written part of this one; a play-time batch repeats nothing, and the two
\* together cover the player's surroundings.
BatchInv == o_pc = "write" =>
              /\ o_sent = loaded \cup (batch \ o_todo)
              /\ batch \subseteq One!Visible(player)
              /\ One!Visible(player) \subseteq loaded \cup batch
              /\ loads = 0 => batch \cap loaded = {}

\* Between two batches the bookkeeping is exact and covers last_chunk.
RestInv == o_pc \in {"center", "select", "frames"} =>
              /\ loaded = o_sent
              /\ One!Visible(last) \subseteq o_sent
              /\ o_pc = "center" => last = player
              /\ o_pc # "center" => loads = 0
              /\ o_pc = "select" => One!Visible(player) \subseteq o_sent

\* A center the client was told is furnished for the rest of the session.
CenterInv == o_pc # "closed" /\ center # One!None => One!Visible(center) \subseteq o_sent

StreamInv == One!TypeOK /\ BatchInv /\ RestInv /\ CenterInv

\* Chunks are never taken back from a client within its session.
LEMMA SentGrows ==
  ASSUME One!TypeOK, [One!Next]_(One!vars), o_pc # "closed"
  PROVE  o_sent \subseteq o_sent'
  BY DEF One!Next, One!Server, One!Client, One!SendChunk, One!FinishBatch,
         One!SendCenter, One!CheckChunk, One!Handle, One!Disconnect, One!Connect, One!vars

\* StreamInv is inductive.
LEMMA StreamInductive == StreamInv /\ One!TypeOK' /\ [One!Next]_(One!vars) => StreamInv'
<1> SUFFICES ASSUME StreamInv, One!TypeOK', [One!Next]_(One!vars) PROVE StreamInv'
  OBVIOUS
<1> USE DEF StreamInv
<1>1. CASE One!SendChunk
  <2> PICK c \in o_todo : o_todo' = o_todo \ {c} /\ o_sent' = o_sent \cup {c}
    BY <1>1 DEF One!SendChunk
  <2>1. BatchInv'
    BY <1>1 DEF One!SendChunk, BatchInv, One!TypeOK, One!Visible
  <2>2. RestInv'
    BY <1>1 DEF One!SendChunk, RestInv
  <2>3. CenterInv'
    BY <1>1 DEF One!SendChunk, CenterInv, One!Visible
  <2> QED BY <2>1, <2>2, <2>3
<1>2. CASE One!FinishBatch
  <2>1. BatchInv'
    BY <1>2 DEF One!FinishBatch, BatchInv
  <2>2. RestInv'
    BY <1>2 DEF One!FinishBatch, RestInv, BatchInv, One!Visible
  <2>3. CenterInv'
    BY <1>2 DEF One!FinishBatch, CenterInv, One!Visible
  <2> QED BY <2>1, <2>2, <2>3
<1>3. CASE One!SendCenter
  <2>1. loads \in {0, 1, 2}
    BY DEF One!TypeOK
  <2>2. BatchInv'
    BY <1>3, <2>1 DEF One!SendCenter, BatchInv, RestInv, One!Visible
  <2>3. RestInv'
    BY <1>3, <2>1 DEF One!SendCenter, RestInv, One!Visible
  <2>4. CenterInv'
    BY <1>3 DEF One!SendCenter, CenterInv, RestInv, One!Visible
  <2> QED BY <2>2, <2>3, <2>4
<1>4. CASE One!CheckChunk
  <2>1. BatchInv'
    BY <1>4 DEF One!CheckChunk, BatchInv, RestInv, One!NewVisible, One!Visible
  <2>2. RestInv'
    BY <1>4 DEF One!CheckChunk, RestInv, One!NewVisible, One!Visible
  <2>3. CenterInv'
    BY <1>4 DEF One!CheckChunk, CenterInv, One!Visible
  <2> QED BY <2>1, <2>2, <2>3
<1>5. ASSUME NEW p \in Walks, One!Handle(p) PROVE StreamInv'
  <2>1. BatchInv'
    BY <1>5 DEF One!Handle, BatchInv
  <2>2. RestInv'
    BY <1>5 DEF One!Handle, RestInv, One!Visible
  <2>3. CenterInv'
    BY <1>5 DEF One!Handle, CenterInv, One!Visible
  <2> QED BY <2>1, <2>2, <2>3
<1>6. CASE One!Disconnect
  BY <1>6 DEF One!Disconnect, BatchInv, RestInv, CenterInv
<1>7. CASE One!Connect
  BY <1>7, ConstantsFit DEF One!LoadsAssumption, One!Connect, BatchInv, RestInv, CenterInv, One!Visible
<1>8. CASE UNCHANGED One!vars
  BY <1>8 DEF One!vars, BatchInv, RestInv, CenterInv, One!Visible
<1> QED BY <1>1, <1>2, <1>3, <1>4, <1>5, <1>6, <1>7, <1>8
           DEF One!Next, One!Server, One!Client

\* StreamInv holds in every reachable state.
THEOREM StreamInvariance == One!Spec => []StreamInv
<1>1. One!Init /\ One!TypeOK => StreamInv
  BY ConstantsFit DEF One!LoadsAssumption, One!Init, StreamInv, BatchInv, RestInv, CenterInv
<1> QED BY <1>1, StreamTypeCorrect, StreamInductive, PTL DEF One!Spec, One!SafeSpec, StreamTypeOK

\* Whenever the session waits for its client, everything within the view
\* radius of the player's chunk has been written to it.
THEOREM AlwaysSurrounded == One!Spec => []SurroundingsShown
<1>1. StreamInv => SurroundingsShown
  BY DEF StreamInv, RestInv, SurroundingsShown, One!SurroundingsShown
<1> QED BY <1>1, StreamInvariance, PTL

\* loaded_chunks is exactly what this client was sent.
THEOREM BookkeepingExact == One!Spec => []BookkeepingMatchesClient
<1>1. StreamInv => BookkeepingMatchesClient
  BY DEF StreamInv, RestInv, BookkeepingMatchesClient, One!BookkeepingMatchesClient
<1> QED BY <1>1, StreamInvariance, PTL

\* The center the client was told last always has its surroundings sent.
THEOREM CenterFurnished == One!Spec => []CenterIsFurnished
<1>1. StreamInv => CenterIsFurnished
  BY DEF StreamInv, CenterInv, CenterIsFurnished, One!CenterIsFurnished
<1> QED BY <1>1, StreamInvariance, PTL

\* No chunk is written twice to a client in the play loop.
THEOREM NeverStreamedTwice == One!Spec => StreamedOnce
<1>1. StreamInv /\ [One!Next]_(One!vars) =>
        [o_pc = "write" /\ loads = 0 /\ o_todo' # o_todo => o_sent' # o_sent]_(One!vars)
  <2> SUFFICES ASSUME StreamInv, [One!Next]_(One!vars), o_pc = "write", loads = 0, o_todo' # o_todo
               PROVE  o_sent' # o_sent
    OBVIOUS
  <2>1. CASE One!SendChunk
    <3> PICK c \in o_todo : o_sent' = o_sent \cup {c}
      BY <2>1 DEF One!SendChunk
    <3>1. c \notin o_sent
      BY DEF StreamInv, BatchInv, One!TypeOK
    <3> QED BY <3>1
  <2>2. CASE ~One!SendChunk
    BY <2>2 DEF One!Next, One!Server, One!Client, One!FinishBatch, One!SendCenter,
                One!CheckChunk, One!Handle, One!Disconnect, One!Connect, One!vars
  <2> QED BY <2>1, <2>2
<1> QED BY <1>1, StreamInvariance, PTL DEF One!Spec, One!SafeSpec, StreamedOnce, One!StreamedOnce

-----------------------------------------------------------------------------
\* A session starts as the abstract view does.
LEMMA RefinesInit == One!Init => One!View!Init
  BY DEF One!Init, One!View!Init, One!Phase

\* Both modules draw the same view square.
LEMMA OneSameVisible == \A c : One!View!Visible(c) = One!Visible(c)
  BY DEF One!View!Visible, One!Visible

\* Every step of the streaming code is a step of the abstract view, or leaves
\* it as it is.
LEMMA RefinesNext == StreamInv /\ [One!Next]_(One!vars) => [One!View!Next]_(One!View!vars)
<1> SUFFICES ASSUME StreamInv, [One!Next]_(One!vars) PROVE [One!View!Next]_(One!View!vars)
  OBVIOUS
<1> USE DEF One!View!vars, One!Phase
<1>1. CASE One!SendChunk
  <2> PICK c \in o_todo : o_sent' = o_sent \cup {c}
    BY <1>1 DEF One!SendChunk
  <2>1. CASE c \in o_sent
    BY <1>1, <2>1 DEF One!SendChunk
  <2>2. CASE c \notin o_sent
    <3>1. c \in One!View!Visible(player) \ o_sent
      BY <1>1, <2>2, OneSameVisible DEF One!SendChunk, StreamInv, One!TypeOK, BatchInv
    <3>2. One!View!Deliver
      BY <1>1, <3>1 DEF One!SendChunk, One!View!Deliver
    <3> QED BY <3>2 DEF One!View!Next
  <2> QED BY <2>1, <2>2
<1>2. CASE One!FinishBatch
  BY <1>2 DEF One!FinishBatch
<1>3. CASE One!SendCenter
  <2>1. One!Visible(player) \subseteq o_sent
    BY <1>3 DEF One!SendCenter, StreamInv, RestInv
  <2>2. One!View!Settle \/ UNCHANGED <<One!Phase, player, o_sent>>
    BY <1>3, <2>1, OneSameVisible DEF One!SendCenter, One!View!Settle
  <2> QED BY <2>2 DEF One!View!Next
<1>4. CASE One!CheckChunk
  <2>1. CASE o_pc' = "write"
    BY <1>4, <2>1 DEF One!CheckChunk
  <2>2. CASE o_pc' = "select"
    <3>1. One!Visible(player) \subseteq o_sent
      BY <1>4, <2>2 DEF One!CheckChunk, One!NewVisible, StreamInv, RestInv
    <3> QED BY <1>4, <2>2, <3>1, OneSameVisible DEF One!CheckChunk, One!View!Settle, One!View!Next
  <2> QED BY <1>4, <2>1, <2>2 DEF One!CheckChunk
<1>5. ASSUME NEW p \in Walks, One!Handle(p) PROVE One!View!Next
  BY <1>5 DEF One!Handle, One!View!Walk, One!View!Next
<1>6. CASE One!Disconnect
  BY <1>6 DEF One!Disconnect, One!View!Leave, One!View!Next
<1>7. CASE One!Connect
  BY <1>7 DEF One!Connect, One!View!Join, One!View!Next
<1>8. CASE UNCHANGED One!vars
  BY <1>8 DEF One!vars
<1> QED BY <1>1, <1>2, <1>3, <1>4, <1>5, <1>6, <1>7, <1>8
           DEF One!Next, One!Server, One!Client

\* ChunkStream implements the safety part of TerrainView.
THEOREM RefinesView == One!Spec => One!View!SafeSpec
<1> QED BY RefinesInit, RefinesNext, StreamInvariance, PTL DEF One!Spec, One!SafeSpec, One!View!SafeSpec
=============================================================================
