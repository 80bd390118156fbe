---------------------------- MODULE RegionStore ----------------------------
(***************************************************************************)
(* World and RegionFile (mc-world/src/world.rs, region.rs): chunks looked  *)
(* up by coordinates in region files that are opened on demand, whose      *)
(* header is read once and kept.  The game may write the same directory:   *)
(* it creates region files and saves chunks, each time into free sectors,  *)
(* which are those of saves that have been superseded, or at the end.      *)
(***************************************************************************)
EXTENDS Integers, Sequences, FiniteSetsExt

CONSTANTS Side,     \* 32: chunks of a region in each direction
          Coords,   \* the chunk coordinates looked up
          MaxSaves, \* bound: saves of the game
          MaxSize   \* 255: sectors a chunk may take

ASSUME SideAssumption   == Side \in Nat \ {0}
ASSUME CoordsAssumption == Coords \subseteq Int \X Int
ASSUME SavesAssumption  == MaxSaves \in Nat /\ MaxSize \in Nat \ {0}

Slots == 0 .. (Side * Side - 1)     \* entries of a header
Absent == 0                         \* a location entry of 0

\* chunk_x >> 5, chunk_z >> 5.
RegionOf(c) == <<c[1] \div Side, c[2] \div Side>>

\* local_index, and its place in the header.
Local(r, c) == <<c[1] - r[1] * Side, c[2] - r[2] * Side>>
Slot(r, c)  == Local(r, c)[1] + Local(r, c)[2] * Side

\* The format: where the game has the location of a chunk.
FormatSlot(c) == (c[1] % Side) + (c[2] % Side) * Side

\* chunk_coords: the coordinates of the entries of a header.
ChunkCoords(r, header) ==
    {<<r[1] * Side + l[1], r[2] * Side + l[2]>> :
        l \in {m \in (0 .. (Side - 1)) \X (0 .. (Side - 1)) : header[m[1] + m[2] * Side] # Absent}}

Regions == {RegionOf(c) : c \in Coords}

VARIABLES disk,    \* region files: region |-> header, a place for each slot
          file,    \* and region |-> sectors behind it, each [save, part]
          saves,   \* history: what the game has saved, [chunk, size, tight]
          regions, \* World.regions: headers read and kept
          result,  \* of the get_chunk just made: NotFound or [chunk, version]
          asked,   \* its argument
          readAt   \* history: region |-> number of saves when it was opened

vars == <<disk, file, saves, regions, result, asked, readAt>>

NotFound == [chunk |-> <<>>, version |-> 0]
NoHeader == [s \in Slots |-> Absent]

Init == /\ disk = << >>
        /\ file = << >>
        /\ saves = <<>>
        /\ regions = << >>
        /\ result = NotFound
        /\ asked = <<>>
        /\ readAt = << >>

Extended(f, x, y) == [z \in DOMAIN f \cup {x} |-> IF z = x THEN y ELSE f[z]]

\* The last save of a chunk among the first n, or 0.
Latest(c, n) == Max({v \in 1..n : saves[v].chunk = c} \cup {0})
Superseded(v) == Latest(saves[v].chunk, Len(saves)) # v

\* The game creates a region file, or writes a chunk to free sectors of one.  In
\* a tight save no byte follows the data: it fills its last sector, or that one
\* is not padded yet.
Create(r) == /\ r \notin DOMAIN disk
             /\ disk' = Extended(disk, r, NoHeader)
             /\ file' = Extended(file, r, <<>>)
             /\ result' = NotFound /\ asked' = <<>>
             /\ UNCHANGED <<saves, regions, readAt>>

Save(c, size, tight) ==
    LET r == RegionOf(c)
        Runs == {p \in 1 .. (Len(file[r]) + 1) :
                    \A q \in p .. (p + size - 1) : q \in DOMAIN file[r] => Superseded(file[r][q].save)}
    IN /\ r \in DOMAIN disk
       /\ Len(saves) < MaxSaves
       /\ saves' = Append(saves, [chunk |-> c, size |-> size, tight |-> tight])
       /\ \E p \in Runs :
             /\ file' = [file EXCEPT ![r] = [q \in 1 .. Max({Len(@), p + size - 1}) |->
                   IF q \in p .. (p + size - 1) THEN [save |-> Len(saves'), part |-> q - p + 1]
                                               ELSE file[r][q]]]
             /\ disk' = [disk EXCEPT ![r][FormatSlot(c)] = p]
       /\ result' = NotFound /\ asked' = <<>>
       /\ UNCHANGED <<regions, readAt>>

\* load_chunk at a place: what starts there must be whole, or decompresses to
\* nothing, and declared_len asks for one byte more than the data has.
ReadAt(f, p) ==
    LET v == f[p].save
        end == p + saves[v].size
    IN IF /\ \A q \in p .. (end - 1) :
                q \in DOMAIN f /\ f[q] = [save |-> v, part |-> q - p + 1]
          /\ saves[v].tight => end \in DOMAIN f
       THEN [chunk |-> saves[v].chunk, version |-> v] ELSE NotFound

\* Through the header that is kept, in the file as it is.
Load(header, c) == LET p == header[Slot(RegionOf(c), c)] IN
                   IF p = Absent THEN NotFound ELSE ReadAt(file[RegionOf(c)], p)

\* Seeded fault: that there is no file is remembered.
OpenAbsent(c) == IF RegionOf(c) \in DOMAIN regions THEN regions
                 ELSE IF RegionOf(c) \in DOMAIN disk
                        THEN Extended(regions, RegionOf(c), disk[RegionOf(c)])
                        ELSE Extended(regions, RegionOf(c), NoHeader)

\* The regions map once get_chunk has seen to the one it needs.
Open(c) == IF RegionOf(c) \in DOMAIN regions \/ RegionOf(c) \notin DOMAIN disk THEN regions
           ELSE Extended(regions, RegionOf(c), disk[RegionOf(c)])

GetChunk(c) == /\ regions' = Open(c)
               /\ result' = IF RegionOf(c) \in DOMAIN regions'
                              THEN Load(regions'[RegionOf(c)], c) ELSE NotFound
               /\ asked' = c
               /\ readAt' = IF RegionOf(c) \in DOMAIN readAt \/ RegionOf(c) \notin DOMAIN disk
                              THEN readAt ELSE Extended(readAt, RegionOf(c), Len(saves))
               /\ UNCHANGED <<disk, file, saves>>

Next == \/ \E r \in Regions : Create(r)
        \/ \E c \in Coords : \/ GetChunk(c)
                             \/ \E size \in 1..MaxSize, tight \in BOOLEAN : Save(c, size, tight)
Spec == Init /\ [][Next]_vars
-----------------------------------------------------------------------------
\* The sectors of a save that no other has been written over, in its file.
Sectors(v) == LET f == file[RegionOf(saves[v].chunk)] IN {p \in DOMAIN f : f[p].save = v}
Intact(v)  == Cardinality(Sectors(v)) = saves[v].size
AtTheEnd(v) == Max(Sectors(v)) = Len(file[RegionOf(saves[v].chunk)])

\* get_chunk answers for the chunk asked, on either side of 0, from one state of
\* its region file, that of the first lookup that found the file (world.rs:27
\* "Loads the region file on demand and caches it"), for as long as the game has
\* not used those sectors again; from then on with nothing, or with what lies in
\* its place.  A save at the end of the file is not found where no byte follows
\* it (region.rs:131).  Lookups made before the file existed leave no trace.
SnapshotAnswers == asked # <<>> =>
    LET opened == IF RegionOf(asked) \in DOMAIN readAt THEN readAt[RegionOf(asked)] ELSE 0
        v == Latest(asked, opened)
    IN IF v = 0 THEN result = NotFound
       ELSE IF ~Intact(v) THEN result = NotFound \/ result.version > opened
       ELSE IF saves[v].tight /\ AtTheEnd(v) THEN result = NotFound
       ELSE result = [chunk |-> asked, version |-> v]

\* The header of a file lists exactly the chunks saved there, under the
\* coordinates that get_chunk finds them by (chunk_coords, region.rs:163).
HeaderIsListed == \A r \in DOMAIN disk :
    ChunkCoords(r, disk[r]) = {c \in Coords : RegionOf(c) = r /\ Latest(c, Len(saves)) > 0}

\* What a reader of the world learns from region files that are being written.
LookupIsSnapshot == SnapshotAnswers /\ HeaderIsListed
=============================================================================
