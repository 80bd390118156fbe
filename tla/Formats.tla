------------------------------ MODULE Formats ------------------------------
(***************************************************************************)
(* The readers of stored and sent data: region files (RegionStore),        *)
(* VarInts, packet bodies, NBT documents, the chunks of a world, and the   *)
(* captures of a proxy.  They share no state.                              *)
(***************************************************************************)
EXTENDS RegionStore

CONSTANTS Base, MaxBytes, Size, Weight, Foreign,        \* see VarInt, VarIntCodec
          Inputs, Payloads,                             \* see NbtReader
          Bodies, Layouts,                              \* see PacketBody
          Height, LongBits, MinBits, MaxBits, Power, Chunks,   \* see WorldChunk
          Conns, PacketIds, First, Most, MaxPackets, MaxRuns     \* see Capture

VARIABLES v_pc, given, v_v, src, whole, v_pos, shift, value,
          input, n_pos, n_pc, type, name, stack, n_result,
          stored, sections, section_idx, iter, out, k_pc,
          b_input, todo, b_pos, b_out, b_pc,
          number, seen, run, files, failed, loaded, c_pc

V == INSTANCE VarIntCodec WITH pc <- v_pc, pos <- v_pos, v <- v_v
N == INSTANCE NbtReader WITH pc <- n_pc, pos <- n_pos, result <- n_result
K == INSTANCE WorldChunk WITH pc <- k_pc
B == INSTANCE PacketBody WITH Inputs <- Bodies, input <- b_input, pos <- b_pos,
                              out <- b_out, pc <- b_pc
C == INSTANCE Capture WITH pc <- c_pc

ASSUME ConstantsFit == /\ V!BaseAssumption /\ V!SizeAssumption /\ V!WeightAssumption
                       /\ V!ForeignAssumption /\ N!PayloadsAssumption /\ N!InputsAssumption
                       /\ K!WidthAssumption /\ K!PowerAssumption /\ K!ChunksAssumption
                       /\ B!LayoutsAssumption /\ B!BodiesAssumption /\ C!BoundsAssumption
-----------------------------------------------------------------------------
\* VarIntCodec: a value is written as long as announced, and read back.
RoundTrip == V!RoundTrip
\* VarIntCodec: "incomplete" means exactly that more bytes could help.
VerdictIsExact == V!VerdictIsExact

\* NbtReader: a whole document is read back, whatever follows it.
ReadsWhatWasWritten == N!ReadsWhatWasWritten
\* NbtReader: no part of a document is taken for one.
PrefixIsRefused == N!PrefixIsRefused

\* PacketBody: every reader gets back what was written, or fails; no part of a
\* body is taken for one.
ReadsBackOrRefuses == B!ReadsBackOrRefuses

\* Capture: the burst keeps the order in which packets were relayed.
LoadsAsRelayed == C!LoadsAsRelayed

\* WorldChunk: get_block finds every block where it was written, and
\* get_biome the biomes of small palettes.
LookupFindsBlock == K!LookupFindsBlock
\* WorldChunk: the iterator returns every block it goes past, once, in order.
ReturnsWhatItPasses == K!ReturnsWhatItPasses
\* WorldChunk: every block comes with its own world y, and none panics
\* (chunk.rs:228).
IteratesAllBlocks == K!IteratesAllBlocks
=============================================================================
