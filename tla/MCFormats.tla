----------------------------- MODULE MCFormats -----------------------------
(***************************************************************************)
(* The readers of Formats on small instances.  They share no state, so a   *)
(* behaviour runs one of them, the others being parked.                    *)
(***************************************************************************)
EXTENDS Formats, SequencesExt

L == INSTANCE PacketLayout

\* Bodies of each kind, for each reader of that kind, whole and cut anywhere, and
\* bodies with the negative lengths a peer may send.
Some(n) == [i \in 1..n |-> i]
Texts == {<<>>, Some(2)}
Lists(T) == {<<>>} \cup {<<x>> : x \in T} \cup {<<x, y>> : x, y \in T}
Shakes == {[protocol_version |-> 776, server_address |-> a, server_port |-> Some(2), next_state |-> s] :
              a \in Texts, s \in {"Status", "Login", "Play"}}
Entries == {[id |-> Some(1), data |-> d] : d \in Texts}
Registries == {[registry_key |-> Some(1), entries |-> l] : l \in Lists(Entries)}
Infos == [locale : Texts, view_distance : {10}, chat_mode : {0}, chat_colors : {1},
          skin_parts : {127}, main_hand : {1}]
Joins == {[entity_id |-> Some(4), hardcore |-> 0, dimensions |-> l, dimension_type |-> <<>>,
           dimension_name |-> Some(2), seed |-> Some(8), game_type |-> 0, previous_game_type |-> 127,
           death_location |-> dl] : l \in Lists({Some(1)}), dl \in {<<>>, <<Some(2), Some(8)>>}}
Packs == {[namespace |-> Some(1), id |-> <<>>, version |-> Some(2)]}

\* What is written, with its readers.
Written ==
    {<<L!Handshake(p), r>> : p \in Shakes,
        r \in {L!ReadHandshake, L!ServerHandshake, L!ParseHandshakeNext}}
    \cup {<<L!LoginStart([name |-> n, uuid |-> Some(16)]), r>> :
              n \in Texts, r \in {L!ReadLoginStart, L!ServerLogin}}
    \cup {<<L!Text(t), L!ReadText>> : t \in Texts}
    \cup {<<L!Ping(Some(8)), L!ReadPing>>}
    \cup {<<L!RegistryData(p), L!ReadRegistryData>> : p \in Registries}
    \cup {<<L!BuildRegistryData(Some(1), l), L!ReadRegistryData>> : l \in Lists({Some(1), Some(2)})}
    \cup {<<L!EnabledFeatures(l), L!ReadEnabledFeatures>> : l \in Lists(Texts)}
    \cup {<<L!SelectKnownPacks(l), L!ReadSelectKnownPacks>> : l \in Lists(Packs)}
    \cup {<<L!ClientInformation(p), L!ReadClientInformation>> : p \in Infos}
    \cup {<<L!LoginPacket(p), L!ReadLoginPacket>> : p \in Joins}
    \cup {<<<<L!B(Some(n - 1)), L!B(<<1>>)>>, L!MovePlayer(n)>> : n \in {9, 25, 33}}
    \cup {<<<<L!V(2), L!B(Some(8)), L!B(<<1>>), L!V(3)>>, L!PlayerAction>>,
          <<<<L!V(0), L!B(Some(8)), L!V(1), L!B(Some(12)), L!B(<<0>>), L!V(3)>>, L!UseItemOn>>,
          <<<<L!V(3)>>, L!SetCarriedItem>>}

\* The fields before the length, the reader, and what is there from the length on.
Negative == {<<<<>>, r, <<-1>>>> : r \in {L!ReadText, L!ReadEnabledFeatures, L!ReadSelectKnownPacks}}
    \cup {<<<<L!V(776)>>, r, <<-1, 1, 2, 2>>>> :
              r \in {L!ReadHandshake, L!ServerHandshake, L!ParseHandshakeNext}}
    \cup {<<<<L!S(<<7>>)>>, L!ReadRegistryData, <<-1>>>>,
          <<<<L!S(<<7>>), L!V(1)>>, L!ReadRegistryData, <<-1, 0>>>>}

Cutoff(w, n) == [reader |-> w[2], fields |-> w[1], body |-> SubSeq(L!Body(w[1]), 1, n),
                 whole |-> n = Len(L!Body(w[1]))]
MCBodies == UNION {{Cutoff(w, n) : n \in 0..Len(L!Body(w[1]))} : w \in Written}
          \cup {[reader |-> w[2], fields |-> <<>>, body |-> L!Body(w[1]) \o w[3], whole |-> FALSE] :
                    w \in Negative}

\* What is left of them after each operation.
RECURSIVE Remaining(_, _, _, _)
Remaining(reader, ops, fields, tail) ==
    {[reader |-> reader, ops |-> ops, fields |-> fields, body |-> L!Body(fields) \o tail,
      sound |-> tail = <<>>]}
    \cup IF ops # <<>> /\ Head(ops).op = "atleast" THEN Remaining(reader, Tail(ops), fields, tail)
         ELSE IF fields = <<>> THEN {}
         ELSE Remaining(reader, L!More(Head(ops), Head(fields).data[1]) \o Tail(ops), Tail(fields), tail)
MCLayouts == UNION {Remaining(w[2], w[2], w[1], <<>>) : w \in Written}
             \cup UNION {Remaining(w[2], w[2], w[1], w[3]) : w \in Negative}

\* Regions of 2 by 2 chunks, around the origin.
MCCoords == {<<-1, -2>>, <<0, 1>>, <<1, 0>>}
-----------------------------------------------------------------------------
\* VarInt: groups of 2 bits, 3 of them for 5-bit values (as 5 groups of 7 for
\* 32): the last group is cut at its top, and every longer sequence is foreign.
MCWeight == [n \in 0..MaxBytes |-> Base ^ n]
MCForeign == UNION {[1..n -> 0 .. (2 * Base - 1)] : n \in 0..4}

\* NBT: trees of every shape to depth 3, cut at every unit and within each.  (A
\* constant of NbtReader cannot be given in terms of N: hence its U and Document.)
U(is, of, n) == [is |-> is, of |-> of, n |-> n]
Cut == U("cut", "", 0)

\* The format: the payload of a tree; a list without elements is one of elem.
RECURSIVE Payload(_, _)
Payload(w, elem) ==
    IF w.kids = <<>>
    THEN <<CASE w.type = "Compound" -> U("tag", "End", 0)
             [] w.type = "List"     -> U("head", elem, 0)
             [] OTHER               -> U("payload", w.type, 0)>>
    ELSE LET k == Head(w.kids)
             first == Payload(k.value, "End")
             rest  == Payload([w EXCEPT !.kids = Tail(@)], k.value.type)
         IN IF w.type = "Compound"
            THEN <<U("tag", k.value.type, 0), U("name", k.name, 0)>> \o first \o rest
            ELSE <<U("head", k.value.type, Len(w.kids))>> \o first \o Tail(rest)

\* With those that it is put together from.
RECURSIVE Parts(_, _)
Parts(w, elem) == {[units |-> Payload(w, elem), tree |-> w]} \cup
    IF w.kids = <<>> THEN {} ELSE LET k == Head(w.kids) IN
        Parts(k.value, "End") \cup Parts([w EXCEPT !.kids = Tail(@)], k.value.type)

Tree(t, kids) == [type |-> t, kids |-> kids]
Kid(nm, tree) == [name |-> nm, value |-> tree]

Leaf0 == {Tree(t, <<>>) : t \in {"Byte", "String"}}
Unnamed(seqs) == {Tree("List", [i \in 1..Len(s) |-> Kid("", s[i])]) : s \in seqs}
Named(seqs)   == {Tree("Compound",
                     [i \in 1..Len(s) |-> Kid(IF i = 1 THEN "a" ELSE "b", s[i])]) : s \in seqs}
Upto2(S) == {<<>>} \cup {<<x>> : x \in S} \cup {<<x, y>> : x, y \in S}
Alike(S) == {s \in Upto2(S) : Len(s) = 2 => s[1].type = s[2].type}

Depth1 == Leaf0 \cup Unnamed(Alike(Leaf0)) \cup Named(Upto2(Leaf0))
Depth2 == Unnamed({<<x>> : x \in Depth1} \cup {<<x, x>> : x \in Depth1})
          \cup Named({<<x>> : x \in Depth1})
Trees  == Named(Upto2(Depth1)) \cup Named({<<x, Tree("Byte", <<>>)>> : x \in Depth2})

\* A list of End elements is empty, whatever length it declares.
Ends == {[units |-> <<U("head", "End", 2)>>, tree |-> Tree("List", <<>>)]}
EndList == [units |-> <<U("tag", "List", 0), U("name", "a", 0), U("head", "End", 2), U("tag", "End", 0)>>,
            tree |-> Tree("Compound", <<Kid("a", Tree("List", <<>>))>>)]

MCPayloads == UNION {Parts(w, "End") : w \in Trees} \cup Ends \cup {EndList}
Whole == {[units |-> Payload(w, "End"), tree |-> w] : w \in Trees}

Start == <<U("tag", "Compound", 0), U("name", "", 0)>>
Document(payload) == Start \o payload.units
Given(p, units, all) == [units |-> units, payload |-> p, whole |-> all]
Documents == UNION {
    LET d == Document(p) IN
    {Given(p, u, u = d) : u \in Prefixes(d)}
      \cup {Given(p, Append(u, Cut), FALSE) : u \in Prefixes(d) \ {d, <<>>}}
      \cup {Given(p, Append(d, Cut), TRUE)} : p \in Whole}

\* Units that no document has, each after the start of one.
Garbled == {<<U("tag", "Int", 0)>>, <<U("tag", "0x20", 0)>>}
  \cup {Start \o <<U("tag", "0x20", 0)>>}
  \cup {Start \o <<U("tag", "List", 0), U("name", "a", 0), U("head", e, n), U("tag", "End", 0)>> :
          e \in {"End", "0x20"}, n \in {-1, 0, 2}}
  \cup {Start \o <<U("tag", t, 0), U("name", "a", 0), U("payload", t, -1)>> : t \in {"ByteArray", "LongArray"}}

NoPayload == [units |-> <<>>, tree |-> Tree("End", <<>>)]
Closed == Given(EndList, Document(EndList), TRUE)
MCInputs == Documents \cup {Closed} \cup {Given(NoPayload, f, FALSE) : f \in Garbled}
-----------------------------------------------------------------------------
\* Chunks: cells of 2 or 3 bits in longs of 5: every width crosses a boundary.
MCPower == [n \in 0..LongBits |-> 2^n]
Bit(n, i) == (n \div 2^i) % 2

\* Values as the format has them: number c in bits c*width and up.
Pack(values, width, longs) ==
    [k \in 0 .. (longs - 1) |-> [i \in 0 .. (LongBits - 1) |->
        LET b == k * LongBits + i IN
        IF width > 0 /\ b \div width \in DOMAIN values THEN Bit(values[b \div width], b % width) ELSE 0]]

Plains == [palette |-> <<"plains">>, data |-> <<>>]
Section(y, palette, data, cells) ==
    [y |-> y, palette |-> palette, data |-> data, cells |-> cells,
     biomes |-> Plains, regions |-> <<>>]
Write(y, palette, index, longs) ==
    LET width == CASE Len(palette) <= 1 -> 0 [] Len(palette) \in 2..4 -> MinBits [] OTHER -> MaxBits IN
    Section(y, palette, Pack(index, width, longs), [c \in 0 .. (Height - 1) |->
        IF palette[index[c] + 1] = "no name" THEN "minecraft:air" ELSE palette[index[c] + 1]])
\* With a biome for each quarter.
Living(sec, index) ==
    LET palette == <<"plains", "desert", "river", "swamp">> IN
    [sec EXCEPT !.biomes = [palette |-> palette, data |-> Pack(index, MinBits, 2)],
                !.regions = [at \in DOMAIN index |-> palette[index[at] + 1]]]

Two  == <<"no name", "stone">>
Five == <<"stone", "dirt", "minecraft:air", "sand", "clay">>
At(a, b, c, d) == 0 :> a @@ 1 :> b @@ 2 :> c @@ 3 :> d

\* Without block_states, with an empty palette, and without a Y.
Airs == [c \in 0 .. (Height - 1) |-> "minecraft:air"]
Bare(y) == {Section(y, <<"none">>, 0 :> (0 :> 0), Airs), Section(y, <<>>, 0 :> (0 :> 0), Airs)}
Lost == Write(1000, <<"stone">>, At(0, 0, 0, 0), 0)

Sections(y) == {Write(y, Two, [c \in 0..3 |-> f[c + 1]], 2) : f \in [1..4 -> 0..1]}
          \cup {Write(y, Five, At(4, 2, 3, 1), 3),
                Living(Write(y, Five, At(2, 4, 0, 3), 3), At(3, 1, 2, 0)),
                Write(y, <<"minecraft:air">>, At(0, 0, 0, 0), 0), Write(y, <<"stone">>, At(0, 0, 0, 0), 0),
                Write(y, Five, At(0, 1, 2, 4), 1)}

MCChunks == {<<s>> : s \in Sections(-2)} \cup
            {<<s, t>> : s \in Sections(-1), t \in Sections(0)} \cup
            {<<s, b, Lost, Write(2, Two, At(0, 1, 1, 0), 2)>> : s \in Sections(0), b \in Bare(1)}
-----------------------------------------------------------------------------
VARIABLE machine  \* the one that runs

r_vars == vars
v_vars == <<v_pc, given, v_v, src, whole, v_pos, shift, value>>
n_vars == <<input, n_pos, n_pc, type, name, stack, n_result>>
k_vars == <<stored, sections, section_idx, iter, out, k_pc>>
b_vars == <<b_input, todo, b_pos, b_out, b_pc>>
c_vars == <<number, seen, run, files, failed, loaded, c_pc>>

V_Parked == /\ v_pc = "parked" /\ given = 0 /\ v_v = 0 /\ src = <<>> /\ whole = FALSE
            /\ v_pos = 0 /\ shift = 0 /\ value = 0
N_Parked == /\ input = Closed /\ n_pos = 0 /\ n_pc = "parked" /\ type = "End" /\ name = ""
            /\ stack = <<>> /\ n_result = N!NoTree
K_Parked == /\ stored = <<>> /\ sections = <<>> /\ section_idx = 0 /\ iter = K!None
            /\ out = <<>> /\ k_pc = "parked"
B_Parked == /\ b_input = [reader |-> <<>>, fields |-> <<>>, body |-> <<>>, whole |-> FALSE]
            /\ todo = <<>> /\ b_pos = 0 /\ b_out = <<>> /\ b_pc = "parked"
C_Parked == /\ number = 0 /\ seen = << >> /\ run = 0 /\ files = << >> /\ failed = FALSE
            /\ loaded = <<>> /\ c_pc = "parked"

OneInit == /\ Init
           /\ \/ machine = "regions"  /\ V_Parked /\ N_Parked /\ K_Parked /\ B_Parked /\ C_Parked
              \/ machine = "varints"  /\ V!Init /\ N_Parked /\ K_Parked /\ B_Parked /\ C_Parked
              \/ machine = "nbt"      /\ N!Init /\ V_Parked /\ K_Parked /\ B_Parked /\ C_Parked
              \/ machine = "chunks"   /\ K!Init /\ V_Parked /\ N_Parked /\ B_Parked /\ C_Parked
              \/ machine = "bodies"   /\ B!Init /\ V_Parked /\ N_Parked /\ K_Parked /\ C_Parked
              \/ machine = "captures" /\ C!Init /\ V_Parked /\ N_Parked /\ K_Parked /\ B_Parked

OneNext ==
    /\ UNCHANGED machine
    /\ \/ machine = "regions"  /\ Next   /\ UNCHANGED <<v_vars, n_vars, k_vars, b_vars, c_vars>>
       \/ machine = "varints"  /\ V!Next /\ UNCHANGED <<r_vars, n_vars, k_vars, b_vars, c_vars>>
       \/ machine = "nbt"      /\ N!Next /\ UNCHANGED <<r_vars, v_vars, k_vars, b_vars, c_vars>>
       \/ machine = "chunks"   /\ K!Next /\ UNCHANGED <<r_vars, v_vars, n_vars, b_vars, c_vars>>
       \/ machine = "bodies"   /\ B!Next /\ UNCHANGED <<r_vars, v_vars, n_vars, k_vars, c_vars>>
       \/ machine = "captures" /\ C!Next /\ UNCHANGED <<r_vars, v_vars, n_vars, k_vars, b_vars>>

OneSpec == OneInit /\ [][OneNext]_<<machine, r_vars, v_vars, n_vars, k_vars, b_vars, c_vars>>
=============================================================================
