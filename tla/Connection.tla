----------------------------- MODULE Connection -----------------------------
(***************************************************************************)
(* One connection to the game server from its first byte to the play phase *)
(* (server.rs: handle_connection; config_handler.rs).  TCP cuts the stream *)
(* anywhere, so every frame crosses the wire as two pieces; the server     *)
(* appends what it reads to a buffer and handles every complete frame in   *)
(* it, by its packet id and the phase it believes the connection to be in. *)
(* The client is the vanilla one, external to this repository, modelled by *)
(* the frames the server's code waits for.                                 *)
(***************************************************************************)
EXTENDS Integers, Sequences

CONSTANTS MaxTicks   \* bound: play frames the client sends

TicksAssumption == MaxTicks \in Nat

VARIABLES cl,     \* the client's protocol state
          intent, \* next_state of its Handshake: 1 status, 2 login
          captured, \* whether play packets of the proxy are on disk (fixed)
          wire,   \* pieces of frames on their way to the server
          down,   \* packets on their way to the client
          phase,  \* the server's phase
          pc,     \* "read" in read_buf, "parse" in the frame loop
          buf,    \* pieces read and not yet consumed
          lost,   \* pieces in the buffer that run_play_phase does not take over
          ticks   \* play frames sent so far

vars == <<cl, intent, captured, wire, down, phase, pc, buf, lost, ticks>>
\* Nothing that a step of the server changes.
client == <<cl, intent, captured, ticks>>

\* Serverbound frames: the state they belong to, and their packet id there.
State == [handshake |-> "handshake", loginStart |-> "login", loginAck |-> "login",
          info |-> "config", brand |-> "config", packs |-> "config",
          finishAck |-> "config", tick |-> "play"]
Id    == [handshake |-> 0, loginStart |-> 0, loginAck |-> 3,
          info |-> 0, brand |-> 2, packs |-> 7, finishAck |-> 3, tick |-> 12]
Frames == DOMAIN State

\* Clientbound packets: the state the client must be in to decode them.
Decodes == [success |-> "login", brand |-> "config", features |-> "config",
            knownPacks |-> "config", registry |-> "config", tags |-> "config",
            finish |-> "config", playLogin |-> "play", burst |-> "play"]

\* The pieces of a sequence of frames.
Pieces(fs) == [k \in 1..(2 * Len(fs)) |-> <<fs[(k + 1) \div 2], 1 + ((k + 1) % 2)>>]
SendUp(fs) == wire' = wire \o Pieces(fs)

-----------------------------------------------------------------------------
Init == /\ cl = "handshake"
        /\ intent \in {1, 2}
        /\ captured \in BOOLEAN
        /\ wire = <<>>
        /\ down = <<>>
        /\ phase = "handshake"
        /\ pc = "read"
        /\ buf = <<>>
        /\ lost = <<>>
        /\ ticks = 0

\* The client opens with Handshake and, when it wants to join, LoginStart.
Open == /\ cl = "handshake"
        /\ cl' = "login"
        /\ SendUp(IF intent = 2 THEN <<"handshake", "loginStart">> ELSE <<"handshake">>)
        /\ UNCHANGED <<intent, captured, down, phase, pc, buf, lost, ticks>>

\* The client takes the next packet and answers the ones that need an answer.
Take == /\ cl # "gone"
        /\ down # <<>>
        /\ Decodes[Head(down)] = cl
        /\ down' = Tail(down)
        /\ CASE Head(down) = "success"    -> /\ cl' = "config"
                                             /\ SendUp(<<"loginAck", "brand", "info">>)
             [] Head(down) = "knownPacks" -> SendUp(<<"packs">>) /\ UNCHANGED cl
             [] Head(down) = "finish"     -> cl' = "play" /\ SendUp(<<"finishAck">>)
             [] Head(down) = "playLogin"  -> cl' = "ingame" /\ UNCHANGED wire
             [] OTHER                     -> UNCHANGED <<cl, wire>>
        /\ UNCHANGED <<intent, captured, phase, pc, buf, lost, ticks>>

\* In the world the client sends frames on its own clock.
Tick == /\ cl = "ingame"
        /\ ticks < MaxTicks
        /\ ticks' = ticks + 1
        /\ SendUp(<<"tick">>)
        /\ UNCHANGED <<cl, intent, captured, down, phase, pc, buf, lost>>

Quit == /\ cl # "gone"
        /\ cl' = "gone"
        /\ UNCHANGED <<intent, captured, wire, down, phase, pc, buf, lost, ticks>>

-----------------------------------------------------------------------------
\* read_buf returns some of what has arrived.
Read == /\ phase # "closed" /\ pc = "read"
        /\ \E n \in 1..Len(wire) :
              /\ buf' = buf \o SubSeq(wire, 1, n)
              /\ wire' = SubSeq(wire, n + 1, Len(wire))
        /\ pc' = "parse"
        /\ UNCHANGED <<client, down, phase, lost>>

\* read_buf returns 0: the client has gone and all it sent is read.
Eof == /\ phase # "closed" /\ pc = "read"
       /\ cl = "gone" /\ wire = <<>>
       /\ phase' = "closed"
       /\ UNCHANGED <<client, wire, down, pc, buf, lost>>

\* read_buf or a write fails: the client reset the connection.
Broken == /\ phase # "closed" /\ cl = "gone"
          /\ phase' = "closed"
          /\ UNCHANGED <<client, wire, down, pc, buf, lost>>

\* try_read_frame_compressed: None unless the buffer holds a complete frame.
Complete == Len(buf) >= 2

NeedMore == /\ phase # "closed" /\ pc = "parse"
            /\ ~Complete
            /\ pc' = "read"
            /\ UNCHANGED <<client, wire, down, phase, buf, lost>>

\* The frame loop consumes the first complete frame in the given phase.
Frame == buf[1][1]
ConsumeIn(ph) == /\ phase = ph /\ pc = "parse"
                 /\ Complete
                 /\ buf' = SubSeq(buf, 3, Len(buf))
                 /\ UNCHANGED <<client, wire>>

Reply(ps) == down' = down \o ps

\* Seeded fault: the loop over the buffer ends with the handshake.
HandleHandshakeLast == /\ ConsumeIn("handshake")
                       /\ phase' = IF Id[Frame] = 0 /\ intent = 2 THEN "login" ELSE "closed"
                       /\ pc' = "read"
                       /\ UNCHANGED <<down, lost>>

\* "handshake": anything but Handshake with next_state 2 ends the task.
HandleHandshake == /\ ConsumeIn("handshake")
                   /\ phase' = IF Id[Frame] = 0 /\ intent = 2 THEN "login" ELSE "closed"
                   /\ UNCHANGED <<pc, down, lost>>

\* Seeded fault: the brand is sent ahead of LoginSuccess.
HandleLoginStartSwapped == /\ ConsumeIn("login") /\ Id[Frame] = 0
                           /\ Reply(<<"brand", "success">>)
                           /\ UNCHANGED <<phase, pc, lost>>

\* "login", id 0: LoginSuccess, then the brand, in that order.
HandleLoginStart == /\ ConsumeIn("login") /\ Id[Frame] = 0
                    /\ Reply(<<"success", "brand">>)
                    /\ UNCHANGED <<phase, pc, lost>>

\* Seeded fault: the phase is left as it was.
HandleLoginAckStay == /\ ConsumeIn("login") /\ Id[Frame] = 3
                      /\ Reply(<<"features", "knownPacks", "registry", "tags", "finish">>)
                      /\ UNCHANGED <<phase, pc, lost>>

\* "login", id 3: build_registry_packets, in the order the client needs them.
\* (Any other id is ignored in "login"; the client sends none.)
HandleLoginAck == /\ ConsumeIn("login") /\ Id[Frame] = 3
                  /\ phase' = "config"
                  /\ Reply(<<"features", "knownPacks", "registry", "tags", "finish">>)
                  /\ UNCHANGED <<pc, lost>>

\* run_play_phase writes Login only when nothing was captured: what it sends of
\* a capture leaves the client waiting for one (see PlayStart).
Opening == IF captured THEN "burst" ELSE "playLogin"

\* Seeded fault: any configuration frame starts the play phase.
HandleFinishAny == /\ phase = "config" /\ pc = "parse"
                   /\ Complete
                   /\ phase' = "play"
                   /\ lost' = SubSeq(buf, 3, Len(buf))
                   /\ buf' = <<>>
                   /\ Reply(<<Opening>>)
                   /\ pc' = "read"
                   /\ UNCHANGED <<client, wire>>

\* "config", id 3: run_play_phase starts with an empty buffer of its own and
\* writes its first packets; what else this buffer holds is never looked at.
HandleFinish == /\ phase = "config" /\ pc = "parse"
                /\ Complete /\ Id[Frame] = 3
                /\ phase' = "play"
                /\ lost' = SubSeq(buf, 3, Len(buf))
                /\ buf' = <<>>
                /\ Reply(<<Opening>>)
                /\ pc' = "read"
                /\ UNCHANGED <<client, wire>>

\* "config", any other id: logged only.
HandleConfigOther == /\ ConsumeIn("config") /\ Id[Frame] # 3
                     /\ UNCHANGED <<phase, pc, down, lost>>

\* The play loop's own frame loop; its handlers are in the other modules.
HandlePlay == /\ ConsumeIn("play")
              /\ UNCHANGED <<phase, pc, down, lost>>

Server == \/ Read \/ Eof \/ Broken \/ NeedMore
          \/ HandleHandshake \/ HandleLoginStart \/ HandleLoginAck
          \/ HandleFinish \/ HandleConfigOther \/ HandlePlay
Next == Server \/ Open \/ Take \/ Tick \/ Quit

\* The server's task runs and the client answers; quitting is its own affair.
Fairness == WF_vars(Server) /\ WF_vars(Open \/ Take)
Spec == Init /\ [][Next]_vars /\ Fairness
-----------------------------------------------------------------------------
\* The server interprets each frame in the protocol state the client sent it
\* in, however the stream is cut and however far the client has run ahead:
\* the same id means different packets in different phases.
ReadInItsState == pc = "parse" /\ Complete /\ phase # "closed" => State[Frame] = phase

\* The client can decode the packet it finds next: nothing is written for a
\* state the client enters only later, or has left.
DecodableOnArrival == down # <<>> /\ cl \notin {"handshake", "gone"} => Decodes[Head(down)] = cl

\* No byte of the client falls between handle_connection's buffer and that of
\* the play loop.
NothingLostAtSwitch == lost = <<>>

\* A client that wants to join gets through the login and the configuration, and
\* into the world if nothing was captured, unless it quits.  With captured
\* packets no Login comes (LoginComesFirst), and it stays at the door.
JoinCompletes == cl = "login" /\ intent = 2 ~> \/ cl = "gone"
                                               \/ cl = "ingame" /\ ~captured
                                               \/ cl = "play" /\ captured
=============================================================================
