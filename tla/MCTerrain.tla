----------------------------- MODULE MCTerrain -----------------------------
(***************************************************************************)
(* Terrain on small instances: a behaviour runs all sessions or the one,   *)
(* the other machine staying at its first state.                           *)
(***************************************************************************)
EXTENDS Terrain, TLC

CONSTANTS s1, s2, near, far

\* Two sessions, one block mined in the spawn view and one beyond it.
\* Wide: a view of nine chunks; Narrow: a view of one chunk.
MCSessions == {s1, s2}
MCBlocks   == {near, far}
MCSpawn    == <<0, 0>>
WideReach  == {<<0, 0>>, <<2, 0>>}
WideChunkOf   == near :> <<1, 0>> @@ far :> <<3, 0>>
NarrowReach   == {<<0, 0>>, <<1, 0>>}
NarrowChunkOf == near :> <<0, 0>> @@ far :> <<1, 0>>

\* One session: five neighbouring chunks to walk in, and one far jump.
MCWalks == {<<0, 0>>, <<1, 0>>, <<1, 1>>, <<2, 1>>, <<0, -1>>, <<9, 9>>}

VARIABLE machine  \* "all" sessions or the "one"

o_vars == <<o_pc, player, last, loaded, batch, o_todo, center, o_sent, loads>>

EitherInit == Init /\ One!Init /\ machine \in {"all", "one"}

EitherNext ==
    /\ UNCHANGED machine
    /\ \/ machine = "all" /\ Next     /\ UNCHANGED o_vars
       \/ machine = "one" /\ One!Next /\ UNCHANGED vars

EitherSafe == EitherInit /\ [][EitherNext]_<<machine, vars, o_vars>>
EitherSpec == EitherSafe /\ Fairness /\ One!Fairness
=============================================================================
