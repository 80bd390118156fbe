----------------------------- MODULE WorldChunk -----------------------------
(***************************************************************************)
(* Reading the blocks of a parsed chunk (mc-world/src/chunk.rs): palettes  *)
(* and packed indices, get_block by world coordinates, and the iterators   *)
(* BlockIter and ChunkBlockIter as the state they keep between calls.      *)
(* A column of Height cells stands for the 16x16x16 of a section.          *)
(***************************************************************************)
EXTENDS Integers, Sequences, FiniteSets, FiniteSetsExt, Functions

CONSTANTS Height,    \* cells of a section (16 in each direction)
          LongBits,  \* 64: bits of an i64
          MinBits,   \* 4: least width of an index
          MaxBits,   \* 16: largest width of an index
          Power,     \* Power[n] = 2^n
          Chunks     \* the chunks to read, as stored: sequences of sections

WidthAssumption == /\ Height \in Nat \ {0}
                   /\ LongBits \in Nat \ {0}
                   /\ MaxBits \in 1..LongBits
                   /\ MinBits \in 1..MaxBits
PowerAssumption == Power[0] = 1 /\ \A n \in 0 .. (LongBits - 1) : Power[n + 1] = 2 * Power[n]

Air == "minecraft:air"
Unnamed == ""          \* the name of the AIR singleton

\* A stored section: its y, or NoY; palette, names of which one may be missing,
\* or NoPalette; data, longs as bits, data[k][i] the bit of weight 2^i of long k,
\* both from 0; biomes, a palette and data of its own; and as history values
\* cells and regions, the names that these were written from.
NoY == 1000
NoPalette == <<"none">>
NoName == "no name"
Longs(data) == DOMAIN data

\* parse_palette: an entry without a name is air.
ParsePalette(palette) == [i \in DOMAIN palette |-> IF palette[i] = NoName THEN Air ELSE palette[i]]

\* parse_section: one without block states or without their palette keeps neither
\* palette nor data.
ParseSection(sec) == IF sec.palette = NoPalette
                     THEN [sec EXCEPT !.palette = <<>>, !.data = <<>>]
                     ELSE [sec EXCEPT !.palette = ParsePalette(@)]

\* from_nbt: a section without Y is left out, the others stay in their order.
Kept(given) == {i \in DOMAIN given : given[i].y # NoY}
Nth(N, i) == CHOOSE n \in N : Cardinality({m \in N : m < n}) = i - 1
FromNbt(given) == [i \in 1 .. Cardinality(Kept(given)) |-> ParseSection(given[Nth(Kept(given), i)])]

\* calculate_bits_per_block.
Bits(size) == IF size <= 1 THEN 0
              ELSE Min({b \in MinBits..MaxBits : Power[b] >= size} \cup {MaxBits})

\* Bit k of longs that lie end to end; what is missing is 0.
Bit(data, k) == IF k \div LongBits \in Longs(data) THEN data[k \div LongBits][k % LongBits] ELSE 0

\* Seeded fault: a value that starts in the last bits of a long is cut there.
ExtractPackedCut(data, bits, index) ==
    LET start == index * bits
        value[n \in 0..bits] == IF n = 0 THEN 0 ELSE value[n - 1] +
            (IF (start % LongBits) + n <= LongBits THEN Power[n - 1] * Bit(data, start + n - 1) ELSE 0)
    IN value[bits]

\* extract_packed: the value of so many bits, lowest first, from the long at
\* bit_offset / 64 upward, the rest of them from the low end of the next long.
ExtractPacked(data, bits, index) ==
    LET value[n \in 0..bits] == IF n = 0 THEN 0
            ELSE value[n - 1] + Power[n - 1] * Bit(data, index * bits + n - 1)
    IN value[bits]

\* data[long_idx] is read without a check: beyond the last long it panics.
Readable(data, bits, index) == (index * bits) \div LongBits \in Longs(data)

Packed(sec) == Len(sec.palette) > 1
CanRead(sec, y) == Packed(sec) => Readable(sec.data, Bits(Len(sec.palette)), y)

PaletteIndex(sec, y) == IF Packed(sec) THEN ExtractPacked(sec.data, Bits(Len(sec.palette)), y)
                                       ELSE 0

\* ChunkSection::get_block: an index outside the palette gives AIR.
BlockIn(sec, y) == IF PaletteIndex(sec, y) < Len(sec.palette)
                   THEN sec.palette[PaletteIndex(sec, y) + 1] ELSE Unnamed

\* get_biome, for the column's lowest quarter: whatever the size of the palette,
\* indices of the least width; no data, no biome.
GetBiome(sec, at) ==
    LET index == ExtractPacked(sec.biomes.data, MinBits, at) IN
    IF sec.biomes.palette = <<>> \/ Longs(sec.biomes.data) = {} \/ index >= Len(sec.biomes.palette)
    THEN "none" ELSE sec.biomes.palette[index + 1]

\* The format, as far as this reader knows it (see README).  A number lies at bit
\* at * width, lowest digit first; the width of an index is the least that tells
\* the names of the palette apart.
Digit(n, i) == (n \div Power[i]) % 2
Holds(data, width, at, n) ==
    /\ n \in 0 .. (Power[width] - 1)
    /\ \A i \in 0 .. (width - 1) : Bit(data, at * width + i) = Digit(n, i)
WidthOf(size, width) == /\ width \in MinBits..MaxBits
                        /\ Power[width] >= size
                        /\ \A less \in MinBits .. (width - 1) : Power[less] < size

WrittenBlocks(sec) ==
    LET names == ParseSection(sec).palette IN
    /\ DOMAIN sec.cells = 0 .. (Height - 1)
    /\ names = <<>> => \A y \in DOMAIN sec.cells : sec.cells[y] = Air
    /\ Len(names) = 1 => \A y \in DOMAIN sec.cells : sec.cells[y] = names[1]
    /\ Len(names) > 1 => \E width \in MinBits..MaxBits :
          /\ WidthOf(Len(names), width)
          /\ \A y \in DOMAIN sec.cells : \E n \in 0 .. (Len(names) - 1) :
                /\ sec.cells[y] = names[n + 1]
                /\ Readable(sec.data, width, y) => Holds(sec.data, width, y, n)

WrittenBiomes(sec) ==
    Len(sec.biomes.palette) \in 2 .. Power[MinBits] =>
        /\ Longs(sec.biomes.data) # {}
        /\ \A at \in DOMAIN sec.regions : at \in Nat /\ \E n \in 0 .. (Len(sec.biomes.palette) - 1) :
              sec.regions[at] = sec.biomes.palette[n + 1] /\ Holds(sec.biomes.data, MinBits, at, n)

WrittenSection(sec) ==
    /\ sec = [y |-> sec.y, palette |-> sec.palette, data |-> sec.data, cells |-> sec.cells,
              biomes |-> sec.biomes, regions |-> sec.regions]
    /\ sec.palette \in Seq(STRING \ {Unnamed}) /\ sec.biomes.palette \in Seq(STRING)
    /\ WrittenBlocks(sec) /\ WrittenBiomes(sec)

ChunksAssumption == \A chunk \in Chunks :
    /\ chunk \in Seq(Range(chunk))
    /\ \A sec \in Range(chunk) : WrittenSection(sec)
-----------------------------------------------------------------------------
VARIABLES stored,      \* what the chunk was parsed from (fixed)
          sections,    \* Chunk.sections (fixed)
          section_idx, \* ChunkBlockIter.section_idx
          iter,        \* block_iter: None, or [section, index]
          out,         \* what the iterator has returned: [from, y, at, name]
          pc           \* "next", "end" (None returned), "panic"

vars == <<stored, sections, section_idx, iter, out, pc>>

\* Chunk::get_section: the first with this y.
SectionAt(world_y) == {i \in DOMAIN sections : sections[i].y = world_y \div Height}

\* Chunk::get_block, for the column of the model.
GetBlock(world_y) == IF SectionAt(world_y) = {} THEN Air
                     ELSE BlockIn(sections[Min(SectionAt(world_y))], world_y % Height)

\* World::get_block_name, once the chunk is there: neither kind of air is a block.
GetBlockName(world_y) == {GetBlock(world_y)} \ {Air, Unnamed}

None == [section |-> 0, index |-> 0]

Init == /\ stored \in Chunks
        /\ sections = FromNbt(stored)
        /\ section_idx = 0
        /\ iter = None
        /\ out = <<>>
        /\ pc = "next"

Panic == pc' = "panic" /\ UNCHANGED <<stored, sections, section_idx, iter, out>>

InSection == /\ pc = "next"
             /\ iter # None
             /\ iter.index < Height

\* BlockIter::next looks at a cell that its section has no data for.
CellPanic == /\ InSection
             /\ ~CanRead(sections[iter.section], iter.index)
             /\ Panic

Here == BlockIn(sections[iter.section], iter.index)
Advance == iter' = [iter EXCEPT !.index = @ + 1]

\* BlockIter::next passes over air.
PassAir == /\ InSection
           /\ CanRead(sections[iter.section], iter.index)
           /\ Here = Air
           /\ Advance
           /\ UNCHANGED <<stored, sections, section_idx, out, pc>>

\* Seeded fault: a returned cell is followed by one that is passed over.
YieldTwo == /\ InSection
            /\ CanRead(sections[iter.section], iter.index)
            /\ Here # Air
            /\ section_idx < Len(sections)
            /\ iter' = [iter EXCEPT !.index = @ + 2]
            /\ out' = Append(out, [from |-> iter.section, at |-> iter.index, name |-> Here,
                                   y |-> sections[section_idx + 1].y * Height + iter.index])
            /\ UNCHANGED <<stored, sections, section_idx, pc>>

\* A block: the section that its y is computed from is sections[section_idx],
\* which NextSection has moved on already; there may be none.
Yield == /\ InSection
         /\ CanRead(sections[iter.section], iter.index)
         /\ Here # Air
         /\ section_idx < Len(sections)
         /\ Advance
         /\ out' = Append(out, [from |-> iter.section, at |-> iter.index, name |-> Here,
                                y |-> sections[section_idx + 1].y * Height + iter.index])
         /\ UNCHANGED <<stored, sections, section_idx, pc>>

YieldPanic == /\ InSection
              /\ CanRead(sections[iter.section], iter.index)
              /\ Here # Air
              /\ section_idx >= Len(sections)
              /\ Panic

Exhausted == pc = "next" /\ (iter = None \/ iter.index = Height)

NextSection == /\ Exhausted
               /\ section_idx < Len(sections)
               /\ iter' = [section |-> section_idx + 1, index |-> 0]
               /\ section_idx' = section_idx + 1
               /\ UNCHANGED <<stored, sections, out, pc>>

End == /\ Exhausted
       /\ section_idx >= Len(sections)
       /\ pc' = "end"
       /\ UNCHANGED <<stored, sections, section_idx, iter, out>>

Next == CellPanic \/ PassAir \/ Yield \/ YieldPanic \/ NextSection \/ End
Spec == Init /\ [][Next]_vars
-----------------------------------------------------------------------------
Cells == {c \in (1..Len(sections)) \X (0 .. (Height - 1)) :
              CanRead(sections[c[1]], c[2])}
Name(c) == sections[c[1]].cells[c[2]]

StoredAt(y) == {i \in DOMAIN stored : stored[i].y = y}
ReadAt(y) == sections[Min(SectionAt(y * Height))]

\* Of sec, read as read: each block whose data is there; and the nameless one
\* (chunk.rs:130) exactly without a palette, which a World takes for air, too.
BlocksFound(sec, read) == \A y \in {at \in 0 .. (Height - 1) : CanRead(read, at)} :
    /\ GetBlockName(sec.y * Height + y) = {sec.cells[y]} \ {Air}
    /\ GetBlock(sec.y * Height + y) = Unnamed <=> sec.palette \in {NoPalette, <<>>}

\* Biomes, if there are as many as the least width can tell apart, and not one.
BiomesFound(sec, read) == Len(sec.biomes.palette) \in 2 .. Power[MinBits] =>
    \A at \in DOMAIN sec.regions : GetBiome(read, at) = sec.regions[at]

\* What is looked up is what was stored at those coordinates, below 0 and above,
\* with indices that cross from one long into the next; and air where no section
\* was stored.
LookupFindsBlock ==
    \A y \in -4 .. 4 : IF StoredAt(y) = {} THEN GetBlock(y * Height) = Air
                       ELSE LET sec == stored[Min(StoredAt(y))] IN
                            BlocksFound(sec, ReadAt(y)) /\ BiomesFound(sec, ReadAt(y))

\* Cells that ChunkBlockIter has gone past.
Passed == {c \in Cells : \/ c[1] < iter.section
                         \/ c[1] = iter.section /\ c[2] < iter.index}

\* The iterator returns every block it goes past, from the cell it is in, once
\* and in order, and returns None only past the last one; what it resumes from
\* after each call is only its two indices.
ReturnsWhatItPasses ==
    /\ \A c \in Passed : Name(c) # Air =>
          \E i \in 1..Len(out) : <<out[i].from, out[i].at, out[i].name>> = <<c[1], c[2], Name(c)>>
    /\ \A i \in 1 .. (Len(out) - 1) :
          \/ out[i].from < out[i + 1].from
          \/ out[i].from = out[i + 1].from /\ out[i].at < out[i + 1].at
    /\ pc = "end" => Cells \subseteq Passed

\* chunk.rs:228 "Iterate over all non-air blocks in this chunk with absolute
\* coordinates": every block comes with its own world y, and none panics.
IteratesAllBlocks == (\A s \in DOMAIN sections : \A y \in 0 .. (Height - 1) : CanRead(sections[s], y)) =>
    /\ pc # "panic"
    /\ \A i \in 1..Len(out) : out[i].y = sections[out[i].from].y * Height + out[i].at
=============================================================================
