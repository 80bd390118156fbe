------------------------------ MODULE MCDrops ------------------------------
(* Two slots of two items, blocks of both kinds near the spawn point.      *)
EXTENDS Drops

MCHome   == <<0, -118, 0>>
MCBlocks == {<<0, -60, 1>>, <<0, -64, 0>>}
\* The drop of the bedrock layer is in range of the lower of the two spots.
NearSpots == {MCHome, <<0, -124, 0>>}
WestBlocks == {<<0, -60, -1>>, <<-1, -60, 0>>}
=============================================================================
