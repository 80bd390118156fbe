------------------------------- MODULE Drops -------------------------------
(***************************************************************************)
(* Item drops and the inventory of one play session (server.rs): a mined   *)
(* block becomes an item entity, the tick scans item_entities for those in *)
(* range, stores them slot by slot, tells the client, and removes the      *)
(* entities by index; placing a block takes from the held slot.  The       *)
(* client sends frames ahead of the server and predicts its own placements.*)
(* Positions are doubled, so that block centers are integers.              *)
(***************************************************************************)
EXTENDS Integers, Sequences, FiniteSets
SeqOps == INSTANCE SequencesExt

CONSTANTS Slots,     \* 0..35: the slots pickups go to
          Hotbar,    \* 0..8: the slots the client can hold
          MaxStack,  \* 64
          Blocks,    \* block positions <<x, y, z>> the client may mine
          Spots,     \* doubled positions the client may stand at
          Home,      \* doubled position of Player::default()
          MaxDigs,   \* bound: blocks mined in a session
          MaxUp      \* bound: frames in flight to the server

ASSUME SlotsAssumption == /\ Slots \subseteq Nat /\ IsFiniteSet(Slots)
                          /\ Hotbar \subseteq Slots
                          /\ 0 \in Hotbar
ASSUME StackAssumption == MaxStack \in Nat \ {0}
ASSUME SpaceAssumption == /\ Blocks \subseteq Int \X Int \X Int
                          /\ Spots \subseteq Int \X Int \X Int
                          /\ Home \in Spots
ASSUME BoundAssumption == MaxDigs \in Nat /\ MaxUp \in Nat

Bedrock == 85
Dirt    == 55
Items   == {Bedrock, Dirt}
Empty   == [item |-> 0, count |-> 0]      \* None in the inventory array
Stack   == [item : Items, count : 1..MaxStack]

VARIABLES up,      \* frames the client has sent and the server not handled
          client,  \* the inventory the client shows
          hand,    \* the hotbar slot the client has selected
          pc,      \* the session's task: "idle" in select!, or inside a tick
          player,  \* position of the last movement handled
          held,    \* ServerState.held_slot
          inv,     \* ServerState.inventory, slots 0..35
          ground,  \* ServerState.item_entities
          nextId,  \* ServerState.next_entity_id
          picked,  \* indices in range, found by the scan of this tick
          queue,   \* indices the loop under way has still to visit
          skipped, \* history: those of this tick for which there was no room
          dug, used, lost  \* history, per item: mined, placed, removed unstored

vars == <<up, client, hand, pc, player, held, inv, ground, nextId, picked,
          queue, skipped, dug, used, lost>>
tick == <<pc, picked, queue, skipped>>

FirstId == 1000

\* get_drop_item_id: what a block at height y drops.
DropItem(y) == IF y = -64 THEN Bedrock ELSE Dirt

\* The position unpacked from a BlockPos: 26-bit z comes out unsigned, since
\* only x and y are shifted back arithmetically; then half a block is added.
DropAt(b) == <<2 * b[1] + 1, 2 * b[2] + 1, 2 * (b[3] % 67108864) + 1>>
Center(b) == <<2 * b[1] + 1, 2 * b[2] + 1, 2 * b[3] + 1>>

\* Distance below 4.0, doubled; a large coordinate difference decides alone.
InRange(e) == LET d(i) == e.at[i] - player[i] IN
              /\ \A i \in 1..3 : d(i) \in -7..7
              /\ d(1) * d(1) + d(2) * d(2) + d(3) * d(3) < 64

\* Seeded fault: a stack may grow to one above its limit.
RoomOver(item) == {s \in Slots : \/ inv[s] = Empty
                                 \/ inv[s].item = item /\ inv[s].count <= MaxStack}
\* Slots that can take one more of an item, and the one the loop meets first.
Room(item) == {s \in Slots : \/ inv[s] = Empty
                             \/ inv[s].item = item /\ inv[s].count < MaxStack}

Stored(s, item) == IF inv[s] = Empty THEN [item |-> item, count |-> 1]
                                     ELSE [inv[s] EXCEPT !.count = @ + 1]
OneLess(stack) == IF stack.count <= 1 THEN Empty
                                      ELSE [stack EXCEPT !.count = @ - 1]

-----------------------------------------------------------------------------
Init == /\ up = <<>>
        /\ client = [s \in Slots |-> Empty]
        /\ hand = 0
        /\ pc = "idle"
        /\ player = Home
        /\ held = 0
        /\ inv = [s \in Slots |-> Empty]
        /\ ground = <<>>
        /\ nextId = FirstId
        /\ picked = {}
        /\ queue = {}
        /\ skipped = {}
        /\ dug = [i \in Items |-> 0]
        /\ used = [i \in Items |-> 0]
        /\ lost = [i \in Items |-> 0]

\* Frames of the client.  It predicts its placements, and never waits.
Send(f) == Len(up) < MaxUp /\ up' = Append(up, f)
server  == <<pc, player, held, inv, ground, nextId, picked, queue, skipped,
             dug, used, lost>>
DigsSent == nextId - FirstId + Cardinality({i \in 1..Len(up) : up[i].op = "dig"})

SendDig(b) == /\ DigsSent < MaxDigs
              /\ Send([op |-> "dig", block |-> b])
              /\ UNCHANGED <<client, hand, server>>

SendMove(p) == /\ Send([op |-> "move", spot |-> p])
               /\ UNCHANGED <<client, hand, server>>

SendCarry(s) == /\ s # hand
                /\ hand' = s
                /\ Send([op |-> "carry", slot |-> s])
                /\ UNCHANGED <<client, server>>

\* The slot in the frame is a history value: UseItemOn does not name one.
SendPlace == /\ client[hand] # Empty
             /\ client' = [client EXCEPT ![hand] = OneLess(@)]
             /\ Send([op |-> "place", slot |-> hand])
             /\ UNCHANGED <<hand, server>>

\* The next frame of the session, in the order the client sent them.
Receive(op) == /\ pc = "idle"
               /\ up # <<>>
               /\ Head(up).op = op
               /\ up' = Tail(up)
               /\ UNCHANGED <<client, hand, tick>>

\* FINISH_DIG: the entity is spawned at the client and tracked.
HandleDig == /\ Receive("dig")
             /\ LET b == Head(up).block IN
                ground' = Append(ground, [id |-> nextId, item |-> DropItem(b[2]),
                                          at |-> DropAt(b), of |-> b])
             /\ dug' = [dug EXCEPT ![DropItem(Head(up).block[2])] = @ + 1]
             /\ nextId' = nextId + 1
             /\ UNCHANGED <<player, held, inv, used, lost>>

HandleMove == /\ Receive("move")
              /\ player' = Head(up).spot
              /\ UNCHANGED <<held, inv, ground, nextId, dug, used, lost>>

\* Seeded fault: the selected slot is not recorded.
HandleCarryIgnored == /\ Receive("carry")
                      /\ UNCHANGED <<player, held, inv, ground, nextId, dug, used, lost>>

HandleCarry == /\ Receive("carry")
               /\ held' = Head(up).slot
               /\ UNCHANGED <<player, inv, ground, nextId, dug, used, lost>>

\* UseItemOn: the held stack shrinks; nothing is sent back.
HandlePlace == /\ Receive("place")
               /\ inv' = [inv EXCEPT ![held] = IF @ = Empty THEN @ ELSE OneLess(@)]
               /\ used' = IF inv[held] = Empty THEN used
                          ELSE [used EXCEPT ![inv[held].item] = @ + 1]
               /\ UNCHANGED <<player, held, ground, nextId, dug, lost>>

\* Seeded fault: one entity alone on the ground is overlooked.
TickOffByOne == /\ pc = "idle"
                /\ Len(ground) > 1
                /\ picked' = {i \in 1..Len(ground) : InRange(ground[i])}
                /\ picked' # {}
                /\ queue' = picked'
                /\ pc' = "pickup"
                /\ UNCHANGED <<up, client, hand, player, held, inv, ground, nextId,
                               skipped, dug, used, lost>>

\* A tick that finds entities in range; any other changes nothing kept here.
Tick == /\ pc = "idle"
        /\ picked' = {i \in 1..Len(ground) : InRange(ground[i])}
        /\ picked' # {}
        /\ queue' = picked'
        /\ pc' = "pickup"
        /\ UNCHANGED <<up, client, hand, player, held, inv, ground, nextId,
                       skipped, dug, used, lost>>

\* The index a loop over picked_up.iter().rev() visits next.
NextIndex(i) == i \in queue /\ \A j \in queue : j <= i

\* One pickup: into the first slot with room, and TakeItemEntity is written;
\* "no space - skip" otherwise.  Every entity holds one item.
Pickup == /\ pc = "pickup"
          /\ \E i \in queue :
                LET item == ground[i].item IN
                /\ NextIndex(i)
                /\ queue' = queue \ {i}
                /\ \/ /\ Room(item) = {}
                      /\ skipped' = skipped \cup {i}
                      /\ UNCHANGED inv
                   \/ \E s \in Room(item) :
                      /\ \A t \in Room(item) : s <= t
                      /\ inv' = [inv EXCEPT ![s] = Stored(s, item)]
                      /\ UNCHANGED skipped
          /\ UNCHANGED <<up, client, hand, pc, player, held, ground, nextId,
                         picked, dug, used, lost>>

\* Seeded fault: only the slots outside the hotbar are told.
SyncMainOnly == /\ pc = "pickup"
                /\ queue = {}
                /\ client' = [s \in Slots |->
                       IF inv[s] = Empty \/ s \in Hotbar THEN client[s] ELSE inv[s]]
                /\ queue' = picked
                /\ picked' = {}
                /\ pc' = "remove"
                /\ UNCHANGED <<up, hand, player, held, inv, ground, nextId, skipped, dug, used, lost>>

\* SetContainerSlot for every slot that is not empty.
Sync == /\ pc = "pickup"
        /\ queue = {}
        /\ client' = [s \in Slots |-> IF inv[s] = Empty THEN client[s] ELSE inv[s]]
        /\ queue' = picked
        /\ picked' = {}
        /\ pc' = "remove"
        /\ UNCHANGED <<up, hand, player, held, inv, ground, nextId, skipped, dug, used, lost>>

\* item_entities.remove(idx), of every entity the scan found; the item of one
\* that was skipped goes with it.
TakeOff(i) == /\ ground' = SeqOps!RemoveAt(ground, i)
              /\ queue' = queue \ {i}
              /\ skipped' = skipped \ {i}
              /\ lost' = IF i \in skipped THEN [lost EXCEPT ![ground[i].item] = @ + 1]
                                          ELSE lost

\* Seeded fault: the indices are removed from the front.
RemoveForward == /\ pc = "remove"
                 /\ \E i \in queue :
                       /\ \A j \in queue : i <= j
                       /\ TakeOff(i)
                 /\ pc' = IF queue' = {} THEN "idle" ELSE "remove"
                 /\ UNCHANGED <<up, client, hand, player, held, inv, nextId, picked, dug, used>>

\* The last index first; the tick ends with the last one.
Remove == /\ pc = "remove"
          /\ \E i \in queue : NextIndex(i) /\ TakeOff(i)
          /\ pc' = IF queue' = {} THEN "idle" ELSE "remove"
          /\ UNCHANGED <<up, client, hand, player, held, inv, nextId, picked, dug, used>>

Handle == HandleDig \/ HandleMove \/ HandleCarry \/ HandlePlace
TickStep == Tick \/ Pickup \/ Sync \/ Remove
Client == \/ \E b \in Blocks : SendDig(b)
          \/ \E p \in Spots : SendMove(p)
          \/ \E s \in Hotbar : SendCarry(s)
          \/ SendPlace
Next == Client \/ Handle \/ TickStep

\* select! serves the timer and the socket whenever either is ready.
SafeSpec == Init /\ [][Next]_vars
Spec == SafeSpec /\ WF_vars(Handle) /\ WF_vars(TickStep)
-----------------------------------------------------------------------------
Frame == [op : {"dig"}, block : Blocks] \cup [op : {"move"}, spot : Spots]
           \cup [op : {"carry", "place"}, slot : Hotbar]
Entity == [id : Nat, item : Items, at : Int \X Int \X Int, of : Blocks]

TypeOK == /\ up \in Seq(Frame)
          /\ client \in [Slots -> Stack \cup {Empty}]
          /\ hand \in Hotbar /\ held \in Hotbar
          /\ pc \in {"idle", "pickup", "remove"}
          /\ player \in Spots
          /\ inv \in [Slots -> Stack \cup {Empty}]
          /\ ground \in Seq(Entity)
          /\ nextId \in Nat
          /\ picked \subseteq 1..Len(ground)
          /\ queue \subseteq 1..Len(ground)
          /\ skipped \subseteq 1..Len(ground)
          /\ dug \in [Items -> Nat]
          /\ used \in [Items -> Nat]
          /\ lost \in [Items -> Nat]

\* Indices of entities whose items are in the inventory already.
Taken == CASE pc = "pickup" -> picked \ (queue \cup skipped)
           [] pc = "remove" -> queue \ skipped
           [] OTHER -> {}
OnGround(i) == {k \in 1..Len(ground) \ Taken : ground[k].item = i}
InInventory(i) == {u \in Slots \X (1..MaxStack) :
                      inv[u[1]].item = i /\ u[2] <= inv[u[1]].count}

\* Every item mined is on the ground, in a slot, placed, or went with an entity
\* that was skipped: at no point of a tick is one duplicated or the wrong entity
\* taken off the ground (server.rs:718 "in reverse order to remove correctly").
Conserved == \A i \in Items :
    dug[i] = Cardinality(OnGround(i)) + Cardinality(InInventory(i)) + used[i] + lost[i]

\* A placement reaches the server while the slot it was made from is the held
\* one, however selections and placements are queued.
PlacementHitsItsSlot ==
    up # <<>> /\ Head(up).op = "place" => Head(up).slot = held

Ahead(s) == {k \in 1..Len(up) : up[k].op = "place" /\ up[k].slot = s}

\* Between ticks the client shows at least what the server holds, less its own
\* placements on the way: no stored item is invisible to it.
ClientMissesNothing == pc = "idle" =>
    \A s \in Slots : inv[s] # Empty =>
        /\ client[s].count + Cardinality(Ahead(s)) >= inv[s].count
        /\ client[s] # Empty => client[s].item = inv[s].item

\* An entity the player stays in range of leaves the ground.
Near(id) == \E k \in 1..Len(ground) : ground[k].id = id /\ InRange(ground[k])
EntitiesAreCollected ==
    \A id \in FirstId .. (FirstId + MaxDigs - 1) : Near(id) ~> ~Near(id)

\* server.rs:745 "no space - skip": an entity that was skipped is not removed,
\* so no item leaves the ground unless it was stored.
NothingLost == \A i \in Items : lost[i] = 0

\* server.rs:587 "Spawn item entity at broken block".
DropsAtBlock == \A k \in 1..Len(ground) : ground[k].at = Center(ground[k].of)
=============================================================================
