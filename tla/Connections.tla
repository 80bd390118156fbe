---------------------------- MODULE Connections ----------------------------
(***************************************************************************)
(* The machines that read and write a client's byte stream: the proxied    *)
(* connection (Relay), the server's connection up to the play phase, the   *)
(* start of play, the ping responder, and the frame codec under them all.  *)
(* They share no state.                                                    *)
(***************************************************************************)
EXTENDS Relay

CONSTANTS MaxTicks,                                       \* see Connection
          Captures, Chunks,                               \* see PlayStart
          Plans,                                          \* see PingResponder
          FrameStreams, Threshold,                        \* see Framing
          Base, MaxBytes, Size, Weight                    \* and VarInt

VARIABLES cl, intent, captured, c_wire, c_down, phase, c_pc, c_buf, lost, ticks,
          capture, burst, s_pc, todo, loads, tid, out,
          plan, asked, p_wire, p_buf, p_pc, p_state, p_down, left,
          strict, comp, coming, f_wire, buf, pc, stalled, f_sent, f_got

C == INSTANCE Connection WITH wire <- c_wire, down <- c_down, pc <- c_pc, buf <- c_buf
S == INSTANCE PlayStart WITH pc <- s_pc
G == INSTANCE PingResponder WITH
        wire <- p_wire, buf <- p_buf, pc <- p_pc, down <- p_down, state <- p_state
F == INSTANCE Framing WITH Streams <- FrameStreams,
        wire <- f_wire, sent <- f_sent, got <- f_got

ASSUME ConstantsFit == /\ C!TicksAssumption
                       /\ S!CapturesAssumption /\ S!ChunksAssumption
                       /\ G!PlansAssumption
                       /\ F!BaseAssumption /\ F!SizeAssumption /\ F!WeightAssumption
                       /\ F!StreamsAssumption
-----------------------------------------------------------------------------
\* Framing: frames are handed on as they were sent, however the stream is cut.
FramesIntact == F!FramesIntact
\* Framing: none is kept back, but behind bytes that hold no packet.
AllHandedOn == F!AllHandedOn
\* Framing: a task that waits for more has no complete frame in its buffer
\* (config_handler.rs:116: "or None if not enough data").
WaitsForData == F!WaitsForData

\* Connection: each frame is interpreted in the state it was sent in.
ReadInItsState == C!ReadInItsState
\* Connection: the client can decode the packet it finds next.
DecodableOnArrival == C!DecodableOnArrival
\* Connection: no byte is left in the buffer that the play phase does not get.
NothingLostAtSwitch == C!NothingLostAtSwitch
\* Connection: a joining client gets into the world if nothing was captured,
\* and up to its door otherwise, or quits.
JoinCompletes == C!JoinCompletes

\* PlayStart: every chunk lies in a batch that send_chunks opened, and every
\* batch is closed with the chunks it announced.
BatchesAreWhole == S!BatchesAreWhole
\* PlayStart: the burst begins with Login (develop.md:98, server.rs:310).
LoginComesFirst == S!LoginComesFirst

\* PingResponder: replies answer the requests one by one, in order.
RepliesMatchRequests == G!RepliesMatchRequests
\* PingResponder: every request gets its reply, or the client is gone.
RequestsAreAnswered == G!RequestsAreAnswered
=============================================================================
