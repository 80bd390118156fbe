---------------------------- MODULE TerrainView ----------------------------
(***************************************************************************)
(* What one play session promises a client about terrain, and nothing of   *)
(* how: while the session is online the client walks between chunks, the   *)
(* server fills in chunks around the chunk it last heard of, each chunk at *)
(* most once, and it is "ready" (waiting for the client again) only when   *)
(* everything within the view radius has been delivered.  ChunkStream and  *)
(* SharedWorld are shown to implement this specification.                  *)
(***************************************************************************)
EXTENDS Integers

CONSTANTS Radius,  \* VIEW_RADIUS: chunks delivered on each side of the player
          Reach,   \* the chunks a client may report itself in
          Spawn    \* the chunk of Player::default()

VARIABLES phase,  \* "gone", "filling" or "ready"
          at,     \* chunk of the last position the server handled
          view    \* chunks delivered to the client in this session

vars == <<phase, at, view>>

\* The square of chunks within the view radius of chunk c.
Visible(c) == ((c[1] - Radius) .. (c[1] + Radius)) \X
              ((c[2] - Radius) .. (c[2] + Radius))

Init == /\ phase = "gone"
        /\ at = Spawn
        /\ view = {}

Deliver == /\ phase = "filling"
           /\ \E c \in Visible(at) \ view : view' = view \cup {c}
           /\ UNCHANGED <<phase, at>>

Settle == /\ phase = "filling"
          /\ Visible(at) \subseteq view
          /\ phase' = "ready"
          /\ UNCHANGED <<at, view>>

Walk == /\ phase # "gone"
        /\ at' \in Reach
        /\ phase' = "filling"
        /\ UNCHANGED view

Leave == /\ phase # "gone"
         /\ phase' = "gone"
         /\ UNCHANGED <<at, view>>

Join == /\ phase = "gone"
        /\ phase' = "filling"
        /\ at' = Spawn
        /\ view' = {}

Next == Deliver \/ Settle \/ Walk \/ Leave \/ Join

SafeSpec == Init /\ [][Next]_vars
Spec     == SafeSpec /\ WF_vars(Deliver \/ Settle)
=============================================================================
