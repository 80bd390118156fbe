------------------------------ MODULE Terrain ------------------------------
(***************************************************************************)
(* What the play sessions do about terrain: SharedWorld, all sessions with *)
(* the set of mined positions they share, and ChunkStream, one session by  *)
(* its own bookkeeping.  The two are views of the same code, and share no  *)
(* state here.                                                             *)
(***************************************************************************)
EXTENDS SharedWorld

CONSTANTS Walks,         \* chunks the one client may report itself in
          InitialLoads   \* see ChunkStream

VARIABLES o_pc, player, last, loaded, batch, o_todo, center, o_sent, loads

One == INSTANCE ChunkStream WITH
          Reach <- Walks, pc <- o_pc, todo <- o_todo, sent <- o_sent

ASSUME ConstantsFit == /\ One!RadiusAssumption
                       /\ One!ReachAssumption
                       /\ One!LoadsAssumption
-----------------------------------------------------------------------------
\* ChunkStream: its variables stay in their types.
StreamTypeOK == One!TypeOK
\* ChunkStream: at rest everything in view has been written to the client.
SurroundingsShown == One!SurroundingsShown
\* ChunkStream: loaded_chunks is what this client has been sent.
BookkeepingMatchesClient == One!BookkeepingMatchesClient
\* ChunkStream: the client's cache center has all its surroundings.
CenterIsFurnished == One!CenterIsFurnished
\* ChunkStream: in the play loop no chunk is written twice.
StreamedOnce == One!StreamedOnce
\* ChunkStream: the session implements TerrainView, its liveness included.
ImplementsView == One!ImplementsView
=============================================================================
