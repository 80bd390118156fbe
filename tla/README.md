# picoServer-rs in TLA+

A verification project for the Rust workspace under `src/`: a Minecraft server
that serves one fixed superflat world (`mc-proxy`, binary `mc_rust_server`), a
recording TCP proxy (`mc-proxy`, `main.rs`), the protocol's wire formats
(`mc-core`, `mc-proto`) and a reader of world files (`mc-world`). The modules
here model the code, TLC checks them on small instances (`MC*.tla`, `*.cfg`),
and TLAPS checks the theorems in `*Proofs.tla` for every value of the constants.
`PROJECT.json` lists the runs, the source lines behind every definition, the
hazards, the findings and the theorems.

## 1. Inventory

| Component | Source | State | Operations | Talks to | Modelled by |
|---|---|---|---|---|---|
| Server connection | `server.rs:152-233`, `config_handler.rs` | phase, read buffer | handle_connection: read, frame loop, one arm per phase and id | client (TCP); starts the play phase | `Connection` |
| Start of play | `server.rs:235-456`, `relay.rs:109-117` | capture files, captured burst, teleport id | dump, load, run_play_phase, send_initial_packet | client; files of the proxy | `Capture`, `PlayStart` |
| Chunk streaming | `server.rs:72-112, 458-531`, `server_state.rs` | player, last_chunk, loaded_chunks | send_chunks, movement frames, changed-chunk check | client | `ChunkStream`, abstract `TerrainView` |
| Mined blocks | `server.rs:20, 470-485, 576-590` | BLOCK_CHANGES (static, mutex), pending_block_updates | dig, replay, template chunks | every session | `SharedWorld` |
| Item entities, inventory | `server.rs:576-655, 663-813` | item_entities, inventory, held_slot | dig, pickup tick, set slot, place | client's own prediction | `Drops` |
| Relay | `relay.rs`, `main.rs` | two tasks, one chunk each, the protocol state they guess | read, decode, write, end | client and backend | `Relay`, abstract `Pipe` |
| Frames | `packet.rs`, `config_handler.rs:70-158` | receive buffer, compression | encode, decode, wait | all of the above | `Framing` |
| Packet bodies | `handshake.rs`, `login.rs`, `config.rs`, `status.rs`, `login_packet.rs`, `config_handler.rs:41-68`, `server.rs:541-650` | position in a body | read or write one packet | frames | `PacketLayout`, `PacketBody` |
| VarInt, VarLong | `varint.rs` | - | write, read, from_bytes, encoded_len | all formats | `VarInt`, `VarIntCodec` |
| Ping responder | `ping.rs`, `status.rs` | state, buffer | handshake, status, ping | client | `PingResponder` |
| Region files | `region.rs`, `world.rs` | header per open file, cache of files | get_chunk, load_chunk, chunk_coords | the game, which writes the files | `RegionStore` |
| Chunk reader | `mc-world/src/chunk.rs` | sections, iterator indices | from_nbt, get_block, get_biome, iterate | NBT values | `WorldChunk` |
| NBT reader | `nbt.rs` | call stack | parse | region payloads | `NbtReader` |

Not modelled, since nothing in them can be told apart by a property:
`registry_data.rs` (constant payloads passed on unread), the table of packet
ids, the play packets that the server only writes (fixed layouts whose reader,
the game, is not here; they appear as packet kinds), `inspect.rs` and the other
entry points (arguments and printing), the palette that `mc-proxy/src/chunk.rs`
parses for its log, the block entities that the chunk reader copies, its
heightmaps with `get_top_y` (section 5), and the keep-alive and time packets,
whose answers nobody checks.

What is hard here. Every session is one task, so inside a session the
difficulty is order: frames come several to a read or in pieces, each socket
write is a point where the connection may fail, and `select!` interleaves reads
with a timer. Between sessions there is one mutex-protected set. The client
predicts its own placements, so its inventory and the server's cross on the
wire. The relay's two tasks end independently. The reader of region files keeps
a header while another program rewrites the file. A body has no marks between
its fields, so a reader that disagrees with the writer by one field goes on with
nonsense. What must hold for each
component is the list of properties in section 3; `PROJECT.json` "hazards"
names the lines that put them at risk.

## 2. Modules and how they correspond to the code

*Conventions.* A variable is named after the field it stands for; a comment at
its declaration says which. One action is one handler, or one stretch of a
handler between two awaits when another actor can get in between. Definitions
under a comment "Seeded fault" are not part of any specification: each is the
definition below it with one plausible bug, and substituting it must make a
stated property fail. They show that no property holds vacuously.

* **TerrainView**: what a session promises about terrain. Online, the client
  walks, the server delivers chunks in view, and it is `ready` only when
  everything in view is delivered. Liveness: it gets `ready`.
* **ChunkStream**: one session. `pc` is the place in the task: `frames` (frame
  loop of one read), `write` (inside `send_chunks`, one `SendChunk` per
  `write_all`), `center`, `select`. `Disconnect` may happen at every step: an
  EOF or any failed write. `Connect` starts from `ServerState::new`.
  `InitialLoads` is 2 without captured templates (run_play_phase and
  finish_play_start both load) and 1 with them. It implements `TerrainView` by
  `phase <- Phase, at <- player, view <- sent`.
  `Init` is the listener with nobody connected.
* **SharedWorld**: all sessions over `BLOCK_CHANGES`. Each loads the spawn view,
  replays a snapshot, then serves moves and digs; `owe` is the loop over
  `pending_block_updates`. `holes` is what the client shows as air. By
  `BookkeepingExact` below, a session's loaded set equals what it sent whenever
  it is consulted, so one variable stands for both. A client ignores an update
  for a chunk it does not have, and a chunk sent later is the template's.
* **Terrain**: the two side by side, which share no state; it has the properties
  and theorems of both.
* **Drops**: one session's inventory with the frames in flight (`up`) and the
  inventory the client shows (`client`). The tick is three steps, as the code
  has three loops over the same indices: `Pickup` (one entity each), `Sync`,
  `Remove` (from the back). `skipped` remembers which of them no slot had room
  for: an item is counted as `lost` when `Remove` takes off its entity, not when it
  is skipped. Clientbound packets arrive at once; serverbound ones
  do not, which is where the two inventories cross. Positions are doubled to
  keep the half-block offsets integral.
* **Connection**: the frame loop of `handle_connection` and a vanilla client
  that may run ahead as the protocol lets it. A frame is two pieces so that a
  read may end within it. `lost` holds what the old buffer contains when
  `run_play_phase` takes the socket without it. `captured` is whether there are
  captured packets: without any the play phase opens with the Login, with some it
  opens with a burst that has none (`Opening`).
* **PlayStart**: the initial burst, packet by packet, by the kinds that
  `send_initial_packet` tells apart. Runs of packets with a fixed body are
  shortened.
* **Capture**: where the burst comes from: `Dump` is a clientbound packet that
  the proxy writes to a file, `Restart` a new process over the same directory,
  `Load` the scan in `run_play_phase` with its map, in any order of `read_dir`.
  A packet is known by where it was relayed. Its result is any sequence of
  packets, and so are the bursts `PlayStart` begins with.
* **Relay / Pipe**: two tasks, each `read` or `write` with one chunk; a task
  ends at EOF, on an error, or with a panic of the decoder that is run on what it
  has read and not yet written. Bytes are numbered; `frames` says what each of
  them completes, as far as the decoder cares: a login Handshake, another frame
  of id 0 too short for `parse_handshake_next`, or a length that `split_to`
  panics on. A connection is released only when both halves are dropped. A
  failing write delivers nothing. `Pipe` allows any prefix to be delivered;
  `Relay` implements it with the same variables.
* **VarInt / VarIntCodec**: the pure functions, and the two loops byte by byte.
  `Base`, `MaxBytes` and `Size` are 128, 5, 2^32 for VarInt and 128, 10, 2^64
  for VarLong. Values are unsigned, as the casts in the code make them. The two
  ways of finding a length (`EncodedLen` by limits, `Groups` by shifting) are
  apart, as in the code.
* **Framing**: the sender's encoding, and the loop over `try_read_frame` or
  `try_read_frame_compressed` (`strict` chooses) on a stream cut anywhere, with
  compression and without. zlib is any inverse pair that refuses cut data.
  `Skip` is a complete frame without a packet: one reader fails on it, the other
  consumes it and waits, which `stalled` remembers, until more bytes come.
  `Wraps` is a negative length that, as a usize, wraps round to within the
  buffer: the task panics.
* **PacketLayout / PacketBody**: a writer is the list of fields it appends, a
  reader a list of operations (a number, a string, a counted group, an optional
  one, the rest), each with what happens when the body is too short for it:
  an error, a panic, a default, or the packet being ignored. `PacketBody` runs a
  reader over the units of a body. Handshakes have three readers, in `mc-proto`,
  the server and the relay, and each is checked against the one writer.
* **PingResponder**: the ping binary's loop, including its `break`s out of the
  loop over buffered frames.
* **WorldChunk**: `FromNbt` sorts what was stored into sections, as
  `parse_section` does, with its stand-ins for what is missing. A section is
  reduced to a column of `Height` cells with a palette and packed longs, bit by
  bit, its biomes to one cell per quarter. `ChunkBlockIter` keeps the code's
  order: `section_idx` moves on in `NextSection`, before its cells are served.
* **RegionStore**: `disk` has the headers of the files, `file` their sectors,
  each a part of one save. The game saves to any run of sectors that are free,
  those of superseded saves included. `regions` is the cache of headers in
  `World`; a lookup reads the file as it is, through the header as it was.
* **NbtReader**: the recursive parser as a stack machine over units (a tag, a
  name, a payload, a list head, or the torn part of one).

## 3. Runs

| Run | Question | States |
|---|---|---|
| `terrain` | one session under every order of moves, skips, failed writes and reconnects; two sessions and the mined set | 112692 |
| `terrain_reconnect` | *violation*: do mined blocks survive a reconnect? | |
| `drops` | inventory, entities and prediction | 207957 |
| `drops_lost`, `drops_west` | *violations*: does a skipped item stay on the ground; is the drop at the block? | |
| `connections` | everything that reads a stream between client and server | 60345 |
| `play_start_login` | *violation*: does the burst begin with Login? | |
| `frames_wait` | *violation*: is "not enough data" all that the frame loop waits for? | |
| `relay_close` | *violation*: does the backend's close reach the client? | |
| `relay_transfer` | *violation*: does the relay forward whatever it is sent? | |
| `formats` | VarInts, packet bodies, NBT, chunks, region and capture files | 346315 |
| `world_chunk_iter` | *violation*: does the iterator give each block its place? | |

`Terrain` (sessions, one stream), `Connections` (relay, frames, server, start of
play, ping) and `Formats` (region files, VarInts, NBT, chunks, packet bodies,
captures) put machines that share no state side by side, and state their
properties; theorems and runs speak of these. In the MC modules that extend them,
a behaviour runs one machine, with the others parked at a state without steps, so
the state space is the sum and not the product.

**terrain**, one session. `SurroundingsShown`: at rest everything in view was sent.
`BookkeepingMatchesClient`: `loaded_chunks` is what was sent.
`CenterIsFurnished`: the client's center has all its surroundings.
`StreamedOnce`: no chunk is sent twice in the play loop. `ImplementsView`:
refinement, with liveness, so that no sequence of moves starves the client. *Bounds*: radius 1 (the code's is 4) and six chunks: neighbours whose
views overlap in a row, a column and a corner, and one without any overlap.
Overlapping, disjoint and contained views are all the cases `NewVisible`
distinguishes; the theorems drop the bound.

**terrain**, two sessions. `HolesAreRecorded`: what a client shows as mined the server
has recorded. `SpawnViewRestored`: after the replay, every block of the snapshot
in the spawn view is air. `HolesStayOpen`: no later write fills a hole.
`EverySessionKeepsView` and `SessionsSettle`: other sessions disturb no view and
hold up nobody. *Bounds*: two sessions suffice for every pairwise interleaving
on one set, one block in the spawn view and one beyond it, two places to stand
with overlapping views of nine chunks. `terrain_reconnect` uses views of one chunk.

**drops**. `Conserved`: mined = on the ground + stored + placed + gone with an
entity that a full inventory had skipped, at every point of a tick.
`PlacementHitsItsSlot`: the slot held is the slot the placement was made from. `ClientMissesNothing`: the client shows
at least what the server holds, less its placements on the way.
`EntitiesAreCollected`: what stays in range leaves the ground. *Bounds*: two
slots of at most two items and four digs of two kinds fill the inventory, so
merging, a new slot and refusal all happen; two frames in flight give every
crossing of a selection, a placement and a sync. `drops_lost` (`NothingLost`) ends
with the removal of a skipped entity, at the end of a tick.

**connections**. Connection: `ReadInItsState`, `DecodableOnArrival`,
`NothingLostAtSwitch`, `JoinCompletes` (the same id means
different packets in different phases, and none is read or sent in the wrong
one; the join ends in the world if nothing was captured, and in the play state
without a Login otherwise, which is `play_start_login`'s matter). PlayStart:
`BatchesAreWhole`, of batches that are opened: a captured end without a start is
passed on, and nothing is said of it. Frames: `FramesIntact`, `AllHandedOn`. Ping:
`RepliesMatchRequests`, `RequestsAreAnswered`. *Bounds*: a frame is cut into two
pieces, and the frame codec runs on whole byte strings cut at any byte, with a
base of 4 so that a length takes two bytes; captured bursts have up to two
packets before and after one batch, and are cut off anywhere; two play frames
show the play loop being fed from the new buffer.

Relay: `TypeOK`, `TailIsDelivered`, `EverythingArrives` (unless its own stream
is poisoned for the decoder, so that the death of one task holds up nothing of
the other's), `TasksEnd`, `ImplementsPipe`. *Bounds*: three bytes each way
and two per read, so that one read takes all, some or the rest; all of them
plain, or one that the decoder minds, on either way, behind a login and without.

Ping: conversations as `ping.rs:3-4` describes them, so that nothing follows a ping;
the frames behind the `break` would wait for the next read.

**frames_wait**. `WaitsForData`: while the task waits for more bytes, no complete
frame is in the buffer. In the run, bytes that hold no packet (an empty frame, a
negative or unfinished length, data that do not inflate) come before good frames and
behind them. After an empty frame the loop goes back to reading with the good one
still in the buffer; if the peer has no more to say, it stays there. `AllHandedOn`
has that as an exception, and only that (`stalled`), beside a length that no frame
can start with.

**relay_transfer**. `ForwardsEverything`, without the exception for poisoned
streams: a client whose Handshake is not a login sends a LoginStart next, and
the task that should forward it dies of it.

**formats**. `RoundTrip`, `VerdictIsExact`: groups of two bits and three of them
for five-bit values, which keeps what is peculiar to 5 groups of 7 for 32: the
last group is cut; all byte strings up to one byte too long.
`ReadsBackOrRefuses`: bodies of every kind with lists of up to two elements,
whole and cut at every unit, and with negative lengths: a reader gets back every
field and the whole of the body, or does not succeed.
`ReadsWhatWasWritten`, `PrefixIsRefused`: documents of every shape to depth 3
with at most two children, whole, cut at and within every unit, and followed by
a byte. `LookupFindsBlock` (blocks and biomes),
`ReturnsWhatItPasses`: index widths of 2 and 3 in longs of 5 bits, so every
width crosses a boundary, up to three sections below, at and above 0, with
sections that lack a palette, states or a Y among them. `LookupIsSnapshot`:
regions of 2 by 2 chunks on two sides of the origin, three saves of one or two
sectors: enough to supersede one, and to use its sectors again in part or whole
between the read of a header and a lookup through it. `LoadsAsRelayed`: two
connections, two runs of the proxy and four packets, two of them wanted: a run
may overwrite, extend or mix with what the last one left. The order is promised
within one run and one connection, completeness to one connection alone; a mixed
capture is mixed.

### Fairness

Weak fairness of a session's own steps (`Server`, `Receiver`, `Next` of
PlayStart): its task is a tokio task, which is polled again whenever it can go
on, and the steps between two awaits do not block. In `Drops`, of frame handling
and of the tick separately: `select!` picks at random among the branches that
are ready, so neither starves. In `Connection` and `PingResponder`, of the
client's next protocol step, since `JoinCompletes` and `RequestsAreAnswered` are
promises to a client that goes on; it may leave at any time, without fairness.
In `Relay`, of both tasks, and of an end that sees its socket closed by the
relay; otherwise closing is nobody's duty. The relay's tasks are fair also when
the other one has panicked: tokio confines a panic to its task.

## 4. Proofs

`TerrainProofs` proves of `ChunkStream`, for every radius, every spawn chunk and
every set of reachable chunks, finite or not:

* `StreamTypeCorrect`: `StreamTypeOK`.
* `StreamInvariance`: the inductive invariant is
  `TypeOK /\ BatchInv /\ RestInv /\ CenterInv`.
  None of the safety properties is inductive: that everything in view is sent
  when a session rests depends on what `send_chunks` was called with. `BatchInv`
  says what is accounted for while a batch is under way (what is in the batch
  and no longer in `todo` was sent, and the batch with the loaded set covers the
  view of the player); `RestInv`, that otherwise the loaded set is exactly what
  was sent and covers the surroundings of `last_chunk`; `CenterInv`, that the
  center's surroundings stay sent, since `sent` only grows in a session.
* `AlwaysSurrounded`, `BookkeepingExact`, `CenterFurnished`: the three
  invariants, from it.
* `NeverStreamedTwice`: the action property `StreamedOnce`, from `BatchInv`.
* `RefinesView`: the safety part of `ImplementsView`, which is `View!SafeSpec`.
  Each action maps to one of TerrainView's or to a stutter: `SendChunk` to `Deliver`, or to nothing for a
  chunk of the second initial load, `CheckChunk` and `SendCenter` to `Settle`
  when they return to `select!`.

They rest on the named assumptions of `ChunkStream` only: the radius is a
natural number, reachable chunks are pairs of integers and contain the spawn
chunk, and there are one or two initial loads.

Of `SharedWorld` it proves, for any set of sessions and of blocks, wherever they
lie:

* `Invariance`: `Spec => []IInv`, where `IInv` is the types and, for every
  session, `ChunksInv`, `MinedInv` and `HolesInv`. A step of a session changes
  only its own state and may add to `mined`, so the proof has two halves:
  `OwnStep`, one case per action, and `OthersKept` with `KeptInv`, which is all
  that an interleaving can do to a session. `ChunksInv` says that chunks on
  their way are not at the client yet and complete the view; `MinedInv`, that
  what a session is still to replay or owes is recorded like what it shows, and
  that it owes one update at most; `HolesInv`, that holes are in chunks the
  client has, and that those replayed so far of the spawn view are among them.
  The middle part is what `HolesAreRecorded` lacks to be inductive, the first
  and the last together what keeps a later chunk write from closing a hole.
* `TypeCorrect`, `OnlyRecordedHoles`, `RestoresSpawnView`: the three invariants
  of the run, from `IInv`. `TypeOK` is not inductive by itself: that nothing is
  on its way in `frames` rests on the same for `owe`.
* `NoHoleCloses`: the action property `HolesStayOpen`.
* `SessionsKeepViews`: the action property `EverySessionKeepsView`, each step of
  a session being one of its own `TerrainView` or a stutter.

They rest on `RadiusAssumption` and `ReachAssumption`.

`SessionProofs` proves of `Relay`, which `Connections` extends, for every buffer
size, any number of bytes, and whatever they mean to the decoder:

* `TypeCorrect` and `Invariance`: as long as the destination is there and the
  task has not failed, `sent = got \o chunk \o wire` (`Accounted`); whatever
  happens, also when the decoder panics, `got` is a prefix of `sent`
  (`Prefixed`). Both are about how sequences are cut and joined, so the proof is
  a few laws of concatenation (`CutInTwo`, `Joined`, `Regroup`) and one case per
  action.
* `NoTailIsLost`: the invariant `TailIsDelivered`, by `Accounted` with nothing
  held and nothing unread.
* `RelayIsPipe`: `Spec => ImplementsPipe`, all of it, since `Pipe` asks for no
  fairness. A `Write` maps to `Deliver`; reads and the ends of tasks stutter.

They rest on `SizeAssumption` and `StreamsAssumption` of `Relay`.

`DropsProofs` proves, for any slots, blocks and places to stand, any stack limit
and any number of digs and of frames in flight:

* `Invariance`: `Spec => []IInv`, `IInv == TypeOK /\ LoopInv /\ QueueInv`.
  `PlacementHitsItsSlot` speaks of the first frame only; `QueueInv` says the same
  of every one: the slot in force at a placement, which is that of the last
  selection before it or the one the server holds, is the slot it was made from,
  and the one in force behind all frames is the client's. Three lemmas show that
  the queue keeps it when a frame that selects nothing is sent, when a selection
  is, and when the server takes the first frame (`SendKeepsQueue`,
  `CarryKeepsQueue`, `ReceiveKeepsQueue`). `LoopInv`, that the loop that stores
  goes by the scan of its tick and the loop that removes has none left, is what
  `TypeOK` lacks: the indices of the scan would point behind the end.
* `TypeCorrect` and `PlacementsHit`: the two invariants of the run.
* `ItemsConserved`: the invariant `Conserved`, which is inductive with `IInv`. Items
  are counted as the size of a set (`OnGround`: entities not yet scanned;
  `InInventory`: a pair of slot and number for each item of a stack), so every
  action adds or removes one element, or maps one set onto the other.
* `NothingInvisible`: the invariant `ClientMissesNothing`, from `ShownInv`, which
  says it of every point outside the loop that stores entities, and that a slot
  shown with something shows the right item. A placement is ahead of the server
  until its frame is taken, so the client is short by the frames in `Ahead` at
  most; `Sync` makes up for a pickup.

They rest on `SlotsAssumption` (finitely many slots, as the counts need),
`StackAssumption` and `SpaceAssumption`.

`ConnectionProofs` proves, for any number of play frames and any cut of the
stream, and whatever the client runs ahead by:

* `TypeCorrect`: the types of the protocol, the pieces in flight and the packets.
* `FramesReadInTheirState`, `AnswersDecodable`, `SwitchLosesNothing`: the three
  safety invariants of the run. Both sides follow a script, so the inductive
  invariant `IInv` names three numbers: frames sent, frames handled, packets taken
  (`Joining(h, c, u)`). The server's phase is a function of the second, the
  client's state of the third, how much the client may have sent of it too, and
  what is in `buf`, `wire` and `down` is exactly what lies between (`Stream`,
  `Awaited`). The switch loses nothing because the client cannot have sent a play
  frame before it has the packets that the server writes after the switch. A
  client that asks for the status sends its Handshake and is dropped (`Asking`).
  What the play phase opens with makes no difference to them.

They need no assumption at all: `MaxTicks` only bounds the runs.

`SessionProofs` proves of the other machines in `Connections`:

* `FramesReadInTheirState`, `AnswersDecodable`, `SwitchLosesNothing`: what
  `ConnectionProofs` has of Connection alone, of the instance that the run checks.
  The induction is not repeated: each step of the one is a step of the other
  (`JoinKeeps`).
* `BatchesWhole`: `BatchesAreWhole`, for any captures and any number of chunks to
  a batch. `BatchInv` says that inside `send_chunks` a start packet has no end yet
  and the chunks behind it and `todo` add up to `Chunks`, and that everywhere else
  no start is without its end; hence nothing that the capture holds can fall
  into a batch. `CountIs` tells how one more packet changes the number of chunks
  between two places.
* `PingAnswers`: `RepliesMatchRequests`, for conversations of any length. Of what
  a client sends it takes `PlansAssumption`: a handshake that opens a status or a
  login conversation, then only requests of that conversation, as the protocol
  has it and as all plans of the run are; a client that mixes them is not promised
  a reply by anyone. `PingInv` says that what is read, what is under way and what is
  still planned, in a row, is the rest of the conversation, and that requests
  asked and not replied to are exactly those pending.

* `FramesHandedOn`: `FramesIntact`, for frames of any number, length and content,
  with and without compression, and a stream cut anywhere, from `FramingProofs`,
  where the induction is. What is in the buffer and on the wire is made of pieces:
  each is one frame, or bytes in which no frame begins or no packet is, and the
  packets in them are those sent and not handed on (`IInv`). "Made of pieces" is
  recursive; the proof takes a set that holds a stream with the rest of it after
  its first piece (`Pieced`), which is all that a step of the reader takes off and
  a step of the peer adds to. Below that are facts about lengths: a prefix of a
  length is incomplete and bytes behind it change nothing (`PrefixDecides`), a
  frame is found whole and the packet in it is the one sent, whether or not it
  was worth compressing (`Framed`, `PacketFound`).
* `NothingKeptBack`: when all has arrived and nothing is buffered, all was handed
  on. That the buffer does get empty (`AllHandedOn`) is for TLC.

`StreamsAssumption` of `Framing` says what a peer sends: frames whose length an i32
can say, or bytes with no packet in them, at any place. The second are what the run
has as malformed input, before and behind good frames. The theorems rest on it and on the assumptions of the other modules, which
`ConstantsFit` collects.

`VarIntCodecProofs` proves, for any base, any number of groups, any number of
values and any bytes, so for VarInt and VarLong at once:

* `TypeCorrect`; `VerdictExact`: `VerdictIsExact`; `RoundTripHolds`: `RoundTrip`.
  `IInv` has a part for each loop. `WriteInv`: what is left of the value is the
  quotient by the weight of what was written. `PrefixInv`: the reader has a prefix
  of what the writer made. `ReadInv`: the value so far is the sum of the groups
  passed (`ValueOf`), and the remainder of the value by the same weight if it
  comes from the writer. The round trip is then the statement that the last
  remainder is the value, since the weight of all its groups exceeds it
  (`GroupsOf`, `OneMoreGroup`).

They rest on the three assumptions of `VarInt` and on `ForeignAssumption`.

`FormatsProofs` proves of `RegionStore`, for any size of a region, any coordinates
on either side of 0, and any number of saves of any size:

* `TypeCorrect` and `SnapshotsAnswer`: `LookupIsSnapshot`. `DiskInv` says of each
  file that its header tells, for every chunk, where its last save lies and
  nothing for a chunk never saved; `KeptInv`, the same of a header that was read,
  as of the save it was read at: each sector it points at holds its part of that
  save, or of a later one when the game has used it again (`Lies`). So a lookup
  finds the save of that moment or a later one in its place, never another old
  one. That a slot of the header belongs to one chunk of the region, that the game
  (`FormatSlot`, a remainder) and the reader (`Slot`, an offset from the region's
  first chunk) agree on it below 0 too, and that `chunk_coords` goes back the same
  way, are lemmas about quotients and remainders of integers.

They rest on `SideAssumption`, `CoordsAssumption` and `SavesAssumption`. Of the
VarInts in `Formats` it has `VerdictExact` and `RoundTripHolds`, by `CodecKeeps`,
from those of `VarIntCodecProofs`. Of `Capture` it has, for any number of
connections, packets, restarts of the proxy and failed writes:

* `BurstInOrder`: `LoadsAsRelayed`. Inductive with it are that among the files of
  one run and one connection the numbers are in the order of relaying
  (`OrderInv`), that the next number is above those of this run (`NextInv`), and,
  as long as the proxy has not been restarted, that a connection which saw every
  packet has all files (`AloneInv`) and no number is missing unless a write failed
  (`GapInv`): only both together make the burst of such a connection complete.

Of `WorldChunk` it has, for sections of any height, longs of any length, widths of
any sizes and any number of sections with palettes of their own:

* `BlocksFoundWhereStored`: `LookupFindsBlock`. `FindsNumber` is its core: if the
  bits from `at * width` on are the digits of a number, wherever they cross from
  one long into the next, `extract_packed` returns that number, by induction over
  its bits (one more digit is one more group, as for a VarInt). With it, that
  `calculate_bits_per_block` is the width that tells a palette apart (`BitsIs`),
  that floor and remainder find section and cell below 0 too (`Coordinates`), and
  that the sections which are kept stay in their order, so that the first of a y is
  the first that was stored (`SectionFound`).
* `IteratorMissesNone`: `ReturnsWhatItPasses`. `IterInv` says that the iterator is
  in the section before `section_idx`, that all it returned lies behind it in rising
  order, and that whatever it passed and is not air is among that.

They rest on `WidthAssumption`, on `PowerAssumption` (the constant `Power` is the
powers of two: `^` means nothing to the provers) and on `ChunksAssumption`, which is
the format of a chunk: where the digits of an index are. TLC
evaluates it of `MCChunks`.

`PayloadProofs` proves of `NbtReader`, for trees of any depth and breadth, written in any way the
format allows, and any bytes behind or any cut:

* `DocumentsReadBack`: `ReadsWhatWasWritten`, and `PartsRefused`:
  `PrefixIsRefused`. Both follow from `NbtInv`, which says at each point of the
  parse what is still to come: the units left begin with what is left of the
  innermost container (`Rests`), and when that has been read, the call around it
  can go on. This is a recursion over the stack; the proof has a set of all that
  calls may be told (`Leads`), closed under telling the next outer one, whose last
  element is the tree of the document. Opening a container or meeting a kid adds an
  element to it (`Extends`), and a finished value is one that is in it (`Returns`).
  A unit that is to come is there as written or it is not there at all, and the
  latter only in a part of a document (`NextIs`, `Meets`).

They rest on `PayloadsAssumption` and `InputsAssumption`. The first is the format,
as a relation between units and trees (`WrittenAs`): `Payloads` has any values, with
those they are put together from, the first kid and the container without it; so it
needs no recursive operator. The second says that an input is a document and what
is behind it, or a part of one, or foreign. TLC evaluates both in every run of
`Formats`, where `MCPayloads` is closed in that way.

Of `PacketBody` it has, for bodies of any length, with lists and strings of any
length, whole, cut anywhere, or with a length below 0:

* `BodiesReadBack`: `ReadsBackOrRefuses`. A body has no marks between its fields,
  so what has to be kept is that reader and writer are at the same one. `BodyInv`
  says that the reader is at a layout (`Aligned`): its operations are those still
  to be done, the units left begin with the layout's (`Ahead`), and of a whole body
  the fields read are those written before it (`Before`). `StepAligned` has a case
  for each operation, from `FieldTaken`: an operation that takes the units of its
  field leaves the layout of the rest. The exceptions are what the code does: the
  data of a registry entry take all that is left (`Drained`), after which the next
  entry is missing; a number that is missing may be taken for 0 (`Loose`), and then
  nothing is promised; a next state that is not accepted is the last operation of
  its reader (`NotRefused`).

They rest on `LayoutsAssumption` and `BodiesAssumption`. A layout is what is left
for a reader, its operations with the fields that they take, and `Layouts` has with
each one what is left of it after one operation (`Leaves`); so the format is a
relation again, where the fields of a packet written are a fold. That a layout and
its reader agree field by field is assumed there; that those of the writers in
`PacketLayout` and of each of their readers do is what TLC finds when it evaluates
the assumption of `MCLayouts`, made from the writers' output. A writer and a reader
that disagree fail there, before the first step.

*Induction.* The library's induction theorems take an operator, which the
installed provers cannot instantiate. Where numbers have to be counted up
(`ValueOf`, the least and the greatest of a set), the proofs take a *set* of
numbers instead and the well-foundedness of `<` (`WFMin`): `NatSetInduction` of
`VarIntCodecProofs`. `ValueOf` is a recursive function for that reason. Where data
are nested (pieces of a stream, calls of the NBT parser), the invariant asks for
*some set* that holds what is at hand and, with each element, what is left after
one step.

Only model-checked: all liveness properties, including that part of
`ImplementsView`: the proof system has no rules for fairness. Every safety property
that a run expects to hold is a theorem.

## 5. Differences found between the code and what is said of it

With a run: see "findings". In short: blocks mined outside the spawn view are
whole again after a reconnect (`server.rs:470`); an item skipped for lack of
space is deleted (`server.rs:808`); a block at negative z drops its item 2^26
blocks away (`server.rs:583`); with captured packets no Login is sent
(`server.rs:345`); a backend's close is not passed on to the client
(`relay.rs:36`); the relay does not forward a frame of id 0 that it fails to
parse, and what a client sends after a Handshake that is not a login is one
(`relay.rs:127`); the chunk iterator uses the next section's y and panics in the
last one (`chunk.rs:265`); a complete frame without an id is reported as missing
data, and frames behind it wait (`config_handler.rs:153`).

Seen while reading, without a run:

* The chunk cache center does not follow a player into chunks that were all sent
  before, against develop.md:116-117 (`server.rs:517`). `CenterIsFurnished` is
  what does hold.
* Without templates the 81 initial chunks are sent twice, against
  develop.md:102 (`server.rs:459`).
* Pickup takes the first slot with room, and so an empty slot before a partial
  stack behind it, against develop.md:147 (`server.rs:727`).
* A sync can overtake a placement on its way, after which the client shows an
  item the server has used up: an emptied slot is never sent (`server.rs:769`).
* A captured ChunkBatchFinished is passed on although the batch before it was
  skipped (`server.rs:413`).
* A client that sends on behind a ping waits: the loop over frames is left after the
  Pong (`ping.rs:90`).
* A section without block states is iterated as 4096 nameless blocks: the AIR
  stand-in has an empty name (`mc-world/src/chunk.rs:130`). `World` takes it for
  air.
* `get_top_y` takes the heights of `WORLD_SURFACE` when they are stored before
  those of `MOTION_BLOCKING`, against `mc-world/src/chunk.rs:238`, and reads
  heights end to end, against `chunk.rs:159`, where seven share a long: 37 longs
  and not 36. From the eighth column on the two disagree. Which of the comments the
  game bears out cannot be told from here, so heights are not modelled.
* `get_biome` reads indices of four bits whatever the size of the palette, "4 bpb
  typically" (`chunk.rs:95`). The chunks of the model are packed end to end
  (`Holds`), as the reader's tests pack them: `LookupFindsBlock` shows that its
  widths, boundaries and offsets fit that format, not that the game packs like it.
* The data of a registry entry is read to the end of the packet
  (`mc-proto/src/config.rs:93`): a packet with data in any other than the last
  entry is refused, which `ReadsBackOrRefuses` states.
* Capture files of several connections, or of an earlier run of the proxy, are
  mixed: their numbers come from one counter that starts again at 0
  (`relay.rs:110`), and the loader looks at nothing else. `LoadsAsRelayed` is
  what remains of the order, and that one connection alone is loaded as it was.
* When the game uses the sectors of a superseded save again, a lookup through a
  header that was read before returns whatever chunk starts there, as the chunk
  that was asked for: neither `get_chunk` nor `from_nbt` compares positions
  (`world.rs:42`).
* `tick_count` is advanced by the timer and by the client's tick packet, so the
  world time that is sent runs at up to twice its pace (`server.rs:539`).
* The comment at `mc-world/src/chunk.rs:382` says "MSB-first"; the code and its
  tests pack from the least significant bit.
* `load_chunk` reads `declared_len` bytes after the compression byte, which is
  counted in it (`region.rs:131`): one byte too many. The decompressors and the
  parser ignore it; at the end of a file it is missing, and the chunk with it.

## 6. Plan

Done, in this order: TerrainView and ChunkStream, SharedWorld, Drops,
Connection, PlayStart, Relay over Pipe, the formats; then the relay's decoder,
compression and bad lengths in Framing, the packet bodies, the parsing of chunks,
capture files, and region files whose sectors are used again; the proofs of
ChunkStream, SharedWorld, Relay and Drops; then those of Connection, PlayStart,
PingResponder, VarIntCodec and RegionStore, and of what Drops counts; of Framing,
Capture, NbtReader, WorldChunk and PacketBody; a join with captured packets, and
frames without a packet in front of good ones.

Next, modelling: a promise for a cache center that is to follow the player
(`server.rs:517`); write failures in `Drops` and `PlayStart`; a composition of
`Drops` with `SharedWorld`, so that a dig is one action of both; several relayed
connections feeding one `Capture`.

Next, proofs: that the units of every writer's fields lead to layouts, for packets of
any size, which takes an induction over the lists of a packet.
