---------------------------- MODULE PacketLayout ----------------------------
(***************************************************************************)
(* What packets are made of: for each writer the fields it puts into a     *)
(* body, and for each reader (mc-proto's Packet::read, the server's match  *)
(* arms, the proxy's look at a Handshake, the play phase) the fields it    *)
(* takes, one after the other.  A body is a sequence of units, bytes or    *)
(* whole VarInts.                                                          *)
(***************************************************************************)
EXTENDS Integers, Sequences, SequencesExt

\* A field as written: a VarInt, a string (write_string), bytes of fixed number,
\* or the data of a registry entry, which has no length of its own.
V(n) == [is |-> "varint", data |-> <<n>>]
S(s) == [is |-> "string", data |-> s]
B(b) == [is |-> "fixed",  data |-> b]
D(b) == [is |-> "data",   data |-> b]
Units(f) == IF f.is = "string" THEN <<Len(f.data)>> \o f.data ELSE f.data
Body(fields) == FlattenSeq([i \in DOMAIN fields |-> Units(fields[i])])
List(group(_), xs) == <<V(Len(xs))>> \o FlattenSeq([i \in DOMAIN xs |-> group(xs[i])])

-----------------------------------------------------------------------------
\* The writers.
HandshakeValue(state) == CASE state = "Status" -> 1 [] state = "Login" -> 2 [] OTHER -> 0
Handshake(p) == <<V(p.protocol_version), S(p.server_address), B(p.server_port),
                  V(HandshakeValue(p.next_state))>>
LoginStart(p) == <<S(p.name), B(p.uuid)>>
Text(s) == <<S(s)>>                                \* reason, json
Ping(payload) == <<B(payload)>>
RegistryEntry(e) == IF e.data = <<>> THEN <<S(e.id), B(<<0>>)>>
                    ELSE <<S(e.id), B(<<1>>), D(e.data)>>
RegistryData(p) == <<S(p.registry_key)>> \o List(RegistryEntry, p.entries)
EnabledFeatures(features) == List(Text, features)
KnownPack(k) == <<S(k.namespace), S(k.id), S(k.version)>>
SelectKnownPacks(packs) == List(KnownPack, packs)
ClientInformation(p) == <<S(p.locale), B(<<p.view_distance>>), V(p.chat_mode), B(<<p.chat_colors>>),
                          B(<<p.skin_parts>>), V(p.main_hand), B(<<0>>), B(<<1>>)>>
\* The server's own, built from what it knows: all entries without data, which
\* it writes as a VarInt.
BuiltEntry(id) == <<S(id), V(0)>>
BuildRegistryData(key, ids) == <<S(key)>> \o List(BuiltEntry, ids)
DeathLocation(dl) == IF dl = <<>> THEN <<B(<<0>>)>> ELSE <<B(<<1>>), S(dl[1]), B(dl[2])>>
LoginPacket(p) ==
    <<B(p.entity_id), B(<<p.hardcore>>)>> \o List(Text, p.dimensions)
    \o <<V(20), V(10), V(10), B(<<0>>), B(<<1>>), B(<<0>>), S(p.dimension_type),
         S(p.dimension_name), B(p.seed), V(p.game_type), V(p.previous_game_type), B(<<0>>), B(<<0>>)>>
    \o DeathLocation(p.death_location) \o <<V(63), V(0), B(<<0>>)>>

-----------------------------------------------------------------------------
\* What a reader does next, and what becomes of it if units are missing: it may
\* fail, panic, ignore the packet, or take a VarInt for 0 ("zero").
VarInt == [op |-> "number", n |-> 1, short |-> "err"]
Lenient == [op |-> "number", n |-> 1, short |-> "zero"]   \* unwrap_or(VarInt(0))
OneOf(values) == [op |-> "oneof", n |-> 1, short |-> "err", values |-> values]
String == [op |-> "string", n |-> 1, short |-> "err"]
SkipString == [op |-> "string", n |-> 1, short |-> "panic"]   \* advance(addr_len)
Bytes(n) == [op |-> "bytes", n |-> n, short |-> "err"]
Get(n) == [op |-> "bytes", n |-> n, short |-> "panic"]    \* get_* without a look first
AtLeast(n) == [op |-> "atleast", n |-> n, short |-> "ignored"]
Count(group) == [op |-> "count", n |-> 1, short |-> "err", group |-> group]
Option(group) == [op |-> "option", n |-> 1, short |-> "err", group |-> group]
Everything == [op |-> "rest", n |-> 0, short |-> "err"]

\* What a counted or optional group adds to what is to be read, after its number n.
More(op, n) == IF op.op = "count" THEN FlattenSeq([i \in 1..n |-> op.group])
               ELSE IF op.op = "option" /\ n # 0 THEN op.group ELSE <<>>

ReadHandshake == <<VarInt, String, Bytes(2), OneOf({1, 2})>>
ServerHandshake == <<VarInt, String, Get(2), OneOf({2})>>
ParseHandshakeNext == <<VarInt, SkipString, Get(2), VarInt>>
ReadLoginStart == <<String, Bytes(16)>>
ServerLogin == <<String, Get(16)>>
ReadText == <<String>>
ReadPing == <<Bytes(8)>>
ReadRegistryData == <<String, Count(<<String, Option(<<Everything>>)>>)>>
ReadEnabledFeatures == <<Count(<<String>>)>>
ReadSelectKnownPacks == <<Count(<<String, String, String>>)>>
ReadClientInformation == <<String, Get(1), VarInt, Get(1), Get(1), VarInt, Get(1), Get(1)>>
\* The client's, as the comments of to_bytes announce the fields.
ReadLoginPacket ==
    <<Bytes(4), Bytes(1), Count(<<String>>), VarInt, VarInt, VarInt, Bytes(1), Bytes(1), Bytes(1),
      String, String, Bytes(8), VarInt, VarInt, Bytes(1), Bytes(1),
      Option(<<String, Bytes(8)>>), VarInt, VarInt, Bytes(1)>>
\* The play phase's: positions, turns, digging, placing, and single numbers.
MovePlayer(n) == <<AtLeast(n), Get(n - 1), Get(1)>>
PlayerAction == <<Lenient, Get(8), Get(1), Lenient>>
UseItemOn == <<Lenient, Get(8), Lenient, Get(12), Get(1), Lenient>>
SetCarriedItem == <<Lenient>>
=============================================================================
