---------------------------- MODULE ChunkStream ----------------------------
(***************************************************************************)
(* The chunk bookkeeping of one play session (server.rs, server_state.rs): *)
(* the initial load, the frames of each socket read, the check for a       *)
(* changed chunk, and send_chunks with its one write per chunk.  A failed  *)
(* write or an EOF ends the session at any step; a new connection starts   *)
(* from ServerState::new.  Positions are kept at chunk granularity.        *)
(***************************************************************************)
EXTENDS Integers

CONSTANTS Radius,        \* VIEW_RADIUS
          Reach,         \* chunks the client may report itself in
          Spawn,         \* chunk of Player::default()
          InitialLoads   \* 2 without captured templates, 1 with them

RadiusAssumption == Radius \in Nat
ReachAssumption  == Reach \subseteq Int \X Int /\ Spawn \in Reach
LoadsAssumption  == InitialLoads \in 1..2

VARIABLES pc,      \* where the session's task is: see PCs
          player,  \* player_chunk(): chunk of the last position handled
          last,    \* ServerState.last_chunk
          loaded,  \* ServerState.loaded_chunks
          batch,   \* argument of the send_chunks call under way
          todo,    \* chunks of batch whose write has not happened yet
          center,  \* last SetChunkCacheCenter written to the client
          sent,    \* chunks written to the client in this session
          loads    \* initial loads still to finish; 0 once in the play loop

vars == <<pc, player, last, loaded, batch, todo, center, sent, loads>>

\* "frames": decoding the frames of one read.  "write": inside send_chunks.
\* "center": between send_chunks and the SetChunkCacheCenter write.
\* "select": parked in select!.  "closed": the task has ended.
PCs == {"frames", "write", "center", "select", "closed"}

Chunk == Int \X Int
None  == <<>>          \* no SetChunkCacheCenter written yet

Visible(c) == ((c[1] - Radius) .. (c[1] + Radius)) \X
              ((c[2] - Radius) .. (c[2] + Radius))

\* Seeded fault: the range is exclusive at its upper end.
NewVisibleExclusive(c) == { d \in Visible(c) :
                              /\ d \notin loaded
                              /\ d[1] < c[1] + Radius }
\* Seeded fault: chunks already sent are not filtered out.
NewVisibleUnfiltered(c) == Visible(c)

NewVisible(c) == Visible(c) \ loaded

\* for dx in -R..=R { for dz in -R..=R }: chunks are written in this order.
Precedes(c, d) == \/ c[1] < d[1]
                  \/ c[1] = d[1] /\ c[2] <= d[2]

-----------------------------------------------------------------------------
\* The listener waits for the client; nothing is kept for it yet.
Init == /\ pc = "closed"
        /\ player = Spawn
        /\ last = Spawn
        /\ loaded = {}
        /\ batch = {}
        /\ todo = {}
        /\ center = None
        /\ sent = {}
        /\ loads = 0

\* One iteration of the loop in send_chunks.
SendChunk == /\ pc = "write"
             /\ \E c \in todo :
                   /\ \A d \in todo : Precedes(c, d)
                   /\ todo' = todo \ {c}
                   /\ sent' = sent \cup {c}
             /\ UNCHANGED <<pc, player, last, loaded, batch, center, loads>>

\* ChunkBatchFinished is written and mark_chunks_loaded runs.
FinishBatch == /\ pc = "write"
               /\ todo = {}
               /\ loaded' = loaded \cup batch
               /\ last' = player
               /\ pc' = "center"
               /\ UNCHANGED <<player, batch, todo, center, sent, loads>>

\* SetChunkCacheCenter is written; the dynamic path then loads once more.
SendCenter == /\ pc = "center"
              /\ center' = last
              /\ IF loads > 1
                   THEN /\ pc' = "write"
                        /\ batch' = Visible(player)
                        /\ todo' = Visible(player)
                        /\ loads' = loads - 1
                   ELSE /\ pc' = "select"
                        /\ loads' = 0
                        /\ UNCHANGED <<batch, todo>>
              /\ UNCHANGED <<player, last, loaded, sent>>

\* A movement frame of the current read: the position is overwritten.
Handle(p) == /\ pc \in {"select", "frames"}
             /\ player' = p
             /\ pc' = "frames"
             /\ UNCHANGED <<last, loaded, batch, todo, center, sent, loads>>

\* Seeded fault: the new chunk is recorded as seen before it is examined.
CheckChunkForgetful == /\ pc = "frames"
                       /\ pc' = "select"
                       /\ last' = player
                       /\ UNCHANGED <<player, loaded, batch, todo, center, sent, loads>>

\* Seeded fault: mark_chunks_loaded is given the chunks of the batch before.
CheckChunkOldBatch == /\ pc = "frames"
                      /\ IF player # last /\ NewVisible(player) # {}
                           THEN pc' = "write" /\ todo' = NewVisible(player)
                           ELSE pc' = "select" /\ UNCHANGED todo
                      /\ UNCHANGED <<player, last, loaded, batch, center, sent, loads>>

\* All frames are handled: chunk_changed() and new_visible_chunks().
CheckChunk == /\ pc = "frames"
              /\ IF player # last /\ NewVisible(player) # {}
                   THEN /\ pc' = "write"
                        /\ batch' = NewVisible(player)
                        /\ todo' = NewVisible(player)
                   ELSE /\ pc' = "select"
                        /\ UNCHANGED <<batch, todo>>
              /\ UNCHANGED <<player, last, loaded, center, sent, loads>>

\* EOF in select!, or any write_all(..).await? that fails.
Disconnect == /\ pc # "closed"
              /\ pc' = "closed"
              /\ UNCHANGED <<player, last, loaded, batch, todo, center, sent, loads>>

\* Seeded fault: a reconnecting client keeps the loaded set of its last session.
ConnectStale == /\ pc = "closed"
                /\ pc' = "write"
                /\ player' = Spawn
                /\ last' = Spawn
                /\ batch' = Visible(Spawn)
                /\ todo' = Visible(Spawn)
                /\ center' = None
                /\ sent' = {}
                /\ loads' = InitialLoads
                /\ UNCHANGED loaded

\* A new connection reaches the play phase with a fresh ServerState, and the
\* first send_chunks call is made.
Connect == /\ pc = "closed"
           /\ pc' = "write"
           /\ player' = Spawn
           /\ last' = Spawn
           /\ loaded' = {}
           /\ batch' = Visible(Spawn)
           /\ todo' = Visible(Spawn)
           /\ center' = None
           /\ sent' = {}
           /\ loads' = InitialLoads

Server == SendChunk \/ FinishBatch \/ SendCenter \/ CheckChunk
Client == \/ \E p \in Reach : Handle(p)
          \/ Disconnect
          \/ Connect
Next == Server \/ Client

Fairness == WF_vars(Server)
SafeSpec == Init /\ [][Next]_vars
Spec     == SafeSpec /\ Fairness
-----------------------------------------------------------------------------
TypeOK == /\ pc \in PCs
          /\ player \in Reach
          /\ last \in Reach
          /\ loaded \subseteq Chunk
          /\ batch \subseteq Chunk
          /\ todo \subseteq batch
          /\ center \in Reach \cup {None}
          /\ sent \subseteq Chunk
          /\ loads \in 0..2

\* Whenever the session waits for the client, everything within the view
\* radius of the player's chunk has been written to this client, whatever the
\* order of moves, skipped batches and reconnects that led there.
SurroundingsShown == pc = "select" => Visible(player) \subseteq sent

\* loaded_chunks, which decides what is never sent again, is exactly what this
\* client has been sent (server_state.rs:124 "Mark chunks as having been sent").
BookkeepingMatchesClient == pc = "select" => loaded = sent

\* The chunk cache center the client was given last is one whose whole
\* surroundings it has.
CenterIsFurnished == pc = "select" /\ center # None => Visible(center) \subseteq sent

\* In the play loop no chunk is written to a client that already has it.
StreamedOnce == [][ pc = "write" /\ loads = 0 /\ todo' # todo => sent' # sent ]_vars
-----------------------------------------------------------------------------
\* The promise this session keeps: TerrainView with everything written counted
\* as the client's view, and any server activity as "filling".
Phase == IF pc = "closed" THEN "gone" ELSE IF pc = "select" THEN "ready" ELSE "filling"

View == INSTANCE TerrainView WITH phase <- Phase, at <- player, view <- sent

\* The streaming code implements TerrainView, its liveness included.
ImplementsView == View!Spec
=============================================================================
