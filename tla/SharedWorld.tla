---------------------------- MODULE SharedWorld ----------------------------
(***************************************************************************)
(* All play sessions of the server and the one thing they share: the       *)
(* static set BLOCK_CHANGES of mined positions (server.rs).  Each session  *)
(* loads the chunks around the spawn point, replays a snapshot of the      *)
(* mined set, and then serves its client: moves, digs, the block update    *)
(* owed for a dig, and the chunks that come into view.  Chunk contents     *)
(* come from a fixed template, in which no block is mined.                 *)
(* A session's loaded_chunks equals what it has sent whenever it is used   *)
(* (ChunkStream!BookkeepingMatchesClient), so one variable stands for both *)
(* here, and last_chunk, whose surroundings are always sent, is left out.  *)
(***************************************************************************)
EXTENDS Integers

CONSTANTS Sessions,  \* client connections
          Radius,    \* VIEW_RADIUS
          Reach,     \* chunks a client may report itself in
          Spawn,     \* chunk of Player::default()
          Blocks,    \* positions that may be mined
          ChunkOf    \* the chunk of each position

ASSUME RadiusAssumption == Radius \in Nat
ASSUME ReachAssumption  == /\ Reach \subseteq Int \X Int
                           /\ Spawn \in Reach
ASSUME BlocksAssumption == ChunkOf \in [Blocks -> Int \X Int]

VARIABLES mined,   \* BLOCK_CHANGES
          pc,      \* per session: where its task is
          at,      \* per session: chunk of the last position handled
          sent,    \* per session: chunks written to its client
          todo,    \* per session: chunks of the send_chunks call still to write
          replay,  \* per session: snapshot positions not yet replayed
          snap,    \* per session: the snapshot it took (history variable)
          owed,    \* per session: pending_block_updates
          holes    \* per session: mined positions its client shows as air

vars == <<mined, pc, at, sent, todo, replay, snap, owed, holes>>

PCs == {"load", "replay", "select", "frames", "owe", "stream", "closed"}

Chunk == Int \X Int

Visible(c) == ((c[1] - Radius) .. (c[1] + Radius)) \X
              ((c[2] - Radius) .. (c[2] + Radius))

Precedes(c, d) == \/ c[1] < d[1]
                  \/ c[1] = d[1] /\ c[2] <= d[2]

BlocksIn(c) == {b \in Blocks : ChunkOf[b] = c}

-----------------------------------------------------------------------------
Init == /\ mined = {}
        /\ pc = [s \in Sessions |-> "closed"]
        /\ at = [s \in Sessions |-> Spawn]
        /\ sent = [s \in Sessions |-> {}]
        /\ todo = [s \in Sessions |-> {}]
        /\ replay = [s \in Sessions |-> {}]
        /\ snap = [s \in Sessions |-> {}]
        /\ owed = [s \in Sessions |-> {}]
        /\ holes = [s \in Sessions |-> {}]

\* A connection enters the play phase with a fresh ServerState.
Join(s) == /\ pc[s] = "closed"
           /\ pc' = [pc EXCEPT ![s] = "load"]
           /\ at' = [at EXCEPT ![s] = Spawn]
           /\ sent' = [sent EXCEPT ![s] = {}]
           /\ todo' = [todo EXCEPT ![s] = Visible(Spawn)]
           /\ replay' = [replay EXCEPT ![s] = {}]
           /\ snap' = [snap EXCEPT ![s] = {}]
           /\ owed' = [owed EXCEPT ![s] = {}]
           /\ holes' = [holes EXCEPT ![s] = {}]
           /\ UNCHANGED mined

\* One LevelChunk write: the client's copy becomes the template again.
SendChunk(s) == /\ pc[s] \in {"load", "stream"}
                /\ \E c \in todo[s] :
                      /\ \A d \in todo[s] : Precedes(c, d)
                      /\ todo' = [todo EXCEPT ![s] = @ \ {c}]
                      /\ sent' = [sent EXCEPT ![s] = @ \cup {c}]
                      /\ holes' = [holes EXCEPT ![s] = @ \ BlocksIn(c)]
                /\ UNCHANGED <<mined, pc, at, replay, snap, owed>>

\* The initial chunks are written; the mined positions are copied under the lock.
Snapshot(s) == /\ pc[s] = "load"
               /\ todo[s] = {}
               /\ pc' = [pc EXCEPT ![s] = "replay"]
               /\ replay' = [replay EXCEPT ![s] = mined]
               /\ snap' = [snap EXCEPT ![s] = mined]
               /\ UNCHANGED <<mined, at, sent, todo, owed, holes>>

\* A BlockUpdate to air reaches the client, which drops it for a chunk it lacks.
Told(s, b) == holes' = [holes EXCEPT ![s] =
                          IF ChunkOf[b] \in sent[s] THEN @ \cup {b} ELSE @]

\* One write of the replay loop, in the hash set's order.
Replay(s) == /\ pc[s] = "replay"
             /\ \E b \in replay[s] :
                   /\ replay' = [replay EXCEPT ![s] = @ \ {b}]
                   /\ Told(s, b)
             /\ UNCHANGED <<mined, pc, at, sent, todo, snap, owed>>

\* Seeded fault: the play loop may start before the replay is finished.
StartLoopEarly(s) == /\ pc[s] = "replay"
                     /\ pc' = [pc EXCEPT ![s] = "select"]
                     /\ UNCHANGED <<mined, at, sent, todo, replay, snap, owed, holes>>

\* The replay loop is over: the play loop starts.
StartLoop(s) == /\ pc[s] = "replay"
                /\ replay[s] = {}
                /\ pc' = [pc EXCEPT ![s] = "select"]
                /\ UNCHANGED <<mined, at, sent, todo, replay, snap, owed, holes>>

\* A movement frame of the current read.
Move(s, p) == /\ pc[s] \in {"select", "frames"}
              /\ pc' = [pc EXCEPT ![s] = "frames"]
              /\ at' = [at EXCEPT ![s] = p]
              /\ UNCHANGED <<mined, sent, todo, replay, snap, owed, holes>>

\* Seeded fault: only the update is queued; the shared set is not written.
DigUnrecorded(s, b) == /\ pc[s] \in {"select", "frames"}
                       /\ ChunkOf[b] \in sent[s]
                       /\ b \notin holes[s]
                       /\ owed' = [owed EXCEPT ![s] = @ \cup {b}]
                       /\ pc' = [pc EXCEPT ![s] = "owe"]
                       /\ UNCHANGED <<mined, at, sent, todo, replay, snap, holes>>

\* A FINISH_DIG frame for a block the client has and does not show as air.
Dig(s, b) == /\ pc[s] \in {"select", "frames"}
             /\ ChunkOf[b] \in sent[s]
             /\ b \notin holes[s]
             /\ owed' = [owed EXCEPT ![s] = @ \cup {b}]
             /\ mined' = mined \cup {b}
             /\ pc' = [pc EXCEPT ![s] = "owe"]
             /\ UNCHANGED <<at, sent, todo, replay, snap, holes>>

\* Seeded fault: the pending update is written but not popped.
WriteUpdateKeep(s) == /\ pc[s] = "owe"
                      /\ \E b \in owed[s] : Told(s, b)
                      /\ UNCHANGED <<mined, pc, at, sent, todo, replay, snap, owed>>

\* The pending update is popped and written; the next frame may follow.
WriteUpdate(s) == /\ pc[s] = "owe"
                  /\ \E b \in owed[s] :
                        /\ owed' = [owed EXCEPT ![s] = @ \ {b}]
                        /\ Told(s, b)
                  /\ pc' = [pc EXCEPT ![s] = "frames"]
                  /\ UNCHANGED <<mined, at, sent, todo, replay, snap>>

\* Seeded fault: the whole view is sent again on every move.
CheckChunkResend(s) ==
    /\ pc[s] = "frames"
    /\ pc' = [pc EXCEPT ![s] = "stream"]
    /\ todo' = [todo EXCEPT ![s] = Visible(at[s])]
    /\ UNCHANGED <<mined, at, sent, replay, snap, owed, holes>>

\* Seeded fault: the first frame of a read is answered, chunks are not checked.
CheckChunkSkip(s) ==
    /\ pc[s] = "frames"
    /\ pc' = [pc EXCEPT ![s] = "select"]
    /\ UNCHANGED <<mined, at, sent, todo, replay, snap, owed, holes>>

\* The read is used up: chunks that came into view and were never sent.
CheckChunk(s) ==
    LET new == Visible(at[s]) \ sent[s] IN
    /\ pc[s] = "frames"
    /\ pc' = [pc EXCEPT ![s] = IF new = {} THEN "select" ELSE "stream"]
    /\ todo' = [todo EXCEPT ![s] = new]
    /\ UNCHANGED <<mined, at, sent, replay, snap, owed, holes>>

\* send_chunks returns and SetChunkCacheCenter is written.
EndBatch(s) == /\ pc[s] = "stream"
               /\ todo[s] = {}
               /\ pc' = [pc EXCEPT ![s] = "select"]
               /\ UNCHANGED <<mined, at, sent, todo, replay, snap, owed, holes>>

\* EOF or a failed write, at any step; pending updates are lost with the task.
Close(s) == /\ pc[s] # "closed"
            /\ pc' = [pc EXCEPT ![s] = "closed"]
            /\ UNCHANGED <<mined, at, sent, todo, replay, snap, owed, holes>>

\* The process dies: every connection with it, and the set is in memory only.
Restart == /\ mined' = {}
           /\ pc' = [s \in Sessions |-> "closed"]
           /\ UNCHANGED <<at, sent, todo, replay, snap, owed, holes>>

Server(s) == \/ SendChunk(s) \/ Snapshot(s) \/ Replay(s) \/ StartLoop(s)
             \/ WriteUpdate(s) \/ CheckChunk(s) \/ EndBatch(s)
Client(s) == \/ Join(s) \/ Close(s)
             \/ \E p \in Reach : Move(s, p)
             \/ \E b \in Blocks : Dig(s, b)

Next == Restart \/ \E s \in Sessions : Server(s) \/ Client(s)

Fairness == \A s \in Sessions : WF_vars(Server(s))
SafeSpec == Init /\ [][Next]_vars
Spec     == SafeSpec /\ Fairness
-----------------------------------------------------------------------------
TypeOK == /\ mined \subseteq Blocks
          /\ pc \in [Sessions -> PCs]
          /\ at \in [Sessions -> Reach]
          /\ sent \in [Sessions -> SUBSET Chunk]
          /\ todo \in [Sessions -> SUBSET Chunk]
          /\ replay \in [Sessions -> SUBSET Blocks]
          /\ snap \in [Sessions -> SUBSET Blocks]
          /\ owed \in [Sessions -> SUBSET Blocks]
          /\ holes \in [Sessions -> SUBSET Blocks]
          /\ \A s \in Sessions :
                /\ pc[s] \in {"select", "frames"} => todo[s] = {} /\ replay[s] = {}
                /\ owed[s] # {} => pc[s] \in {"owe", "closed"}

\* No client shows a block as gone that the server does not record as mined:
\* what one player saw happen, the server will still know when it reconnects.
HolesAreRecorded == \A s \in Sessions : pc[s] # "closed" => holes[s] \subseteq mined

\* From the end of the replay on, the client shows as air every block of the
\* spawn view that was mined when the snapshot was taken (server.rs:470).
SpawnViewRestored ==
    \A s \in Sessions : pc[s] \in {"select", "frames", "owe", "stream"} =>
        \A b \in snap[s] : ChunkOf[b] \in Visible(Spawn) => b \in holes[s]

\* Within a session no chunk written later fills in a block that the client
\* already shows as mined, whatever the interleaving of digs, replay and moves.
HolesStayOpen == [][ \A s \in Sessions : pc[s] # "closed" => holes[s] \subseteq holes'[s] ]_vars

\* server.rs:20 "Track mined block positions so changes survive reconnect": at
\* rest a client shows every block mined before it joined, in any chunk it has.
SurvivesReconnect ==
    \A s \in Sessions : pc[s] = "select" =>
        \A b \in snap[s] : ChunkOf[b] \in sent[s] => b \in holes[s]
-----------------------------------------------------------------------------
Phase(s) == IF pc[s] = "closed" THEN "gone"
            ELSE IF pc[s] = "select" THEN "ready" ELSE "filling"

View(s) == INSTANCE TerrainView WITH phase <- Phase(s), at <- at[s], view <- sent[s]

\* Each session keeps TerrainView's promise, after a first connection, while
\* the others dig, leave and join.
EverySessionKeepsView ==
    [][ \A s \in Sessions : [View(s)!Next]_(View(s)!vars) ]_vars

\* Every session that owes its client anything gets back to waiting for it,
\* or ends: no other session's activity can hold it up.
SessionsSettle == \A s \in Sessions :
    pc[s] \notin {"select", "closed"} ~> pc[s] \in {"select", "closed"}
=============================================================================
