----------------------------- MODULE PlayStart -----------------------------
(***************************************************************************)
(* The initial burst of a play session (server.rs: run_play_phase,         *)
(* send_initial_packet, finish_play_start up to the play loop): the        *)
(* packets captured by the proxy, if there are any, each rewritten,        *)
(* skipped or passed on by kind, or a fixed burst; then the initial chunk  *)
(* batches.  Packets are kept by kind; a chunk batch has Chunks chunks.    *)
(***************************************************************************)
EXTENDS Naturals, Sequences, FiniteSets

CONSTANTS Captures,  \* the sequences of captured packets that may be on disk
          Chunks     \* 81: chunks of an initial load

\* Kinds of clientbound packets that the code tells apart.  "dynamic" stands
\* for those with a fixed body, "skipped" for those never passed on.
Kinds == {"login", "position", "dynamic", "skipped", "start", "chunk",
          "finished", "center", "bundle", "other"}

CapturesAssumption == Captures \subseteq Seq(Kinds)
ChunksAssumption == Chunks \in Nat \ {0}

\* The burst sent without captures, LoginPacket aside: fifteen packets in the
\* code, here with its runs of "dynamic" ones shortened.
DynamicBurst == <<"dynamic", "dynamic", "dynamic", "position", "dynamic">>

VARIABLES capture,  \* what is on disk (fixed)
          burst,    \* packets of the burst still to treat
          pc,       \* "login", "burst", "start", "chunks", "finished", "center", "loop"
          todo,     \* chunks of the batch under way still to write
          loads,    \* initial loads still to finish
          tid,      \* ServerState.teleport_id
          out       \* the packets written, as [kind, n]

vars == <<capture, burst, pc, todo, loads, tid, out>>

Write(k, n) == out' = Append(out, [kind |-> k, n |-> n])
-----------------------------------------------------------------------------
Init == /\ capture \in Captures
        /\ burst = IF capture = <<>> THEN DynamicBurst ELSE capture
        /\ pc = IF capture = <<>> THEN "login" ELSE "burst"
        /\ todo = 0
        /\ loads = IF capture = <<>> THEN 2 ELSE 1
        /\ tid = 0
        /\ out = <<>>

\* Without captures the LoginPacket is written before the burst.
SendLogin == /\ pc = "login"
             /\ Write("login", 0)
             /\ pc' = "burst"
             /\ UNCHANGED <<capture, burst, todo, loads, tid>>

NextPacket(ks) == /\ pc = "burst"
                  /\ burst # <<>>
                  /\ Head(burst) \in ks
                  /\ burst' = Tail(burst)
                  /\ UNCHANGED <<capture, pc, todo, loads>>

\* PlayerPosition carries the next teleport id.
SendPosition == /\ NextPacket({"position"})
                /\ tid' = tid + 1
                /\ Write("position", tid')

\* Kinds written with a body of their own, and the fallback to the capture.
\* ChunkBatchFinished has no case of its own, so it is among the latter.
SendPacket == /\ NextPacket({"dynamic", "bundle", "other", "finished"})
              /\ Write(Head(burst), 0)
              /\ UNCHANGED tid

\* Kinds that write nothing: Login "already handled", packets "not critical",
\* and the chunk packets that send_chunks writes.
SkipPacket == /\ NextPacket({"login", "skipped", "start", "center", "chunk"})
              /\ UNCHANGED <<tid, out>>

BurstDone == /\ pc = "burst" /\ burst = <<>>
             /\ pc' = "start"
             /\ UNCHANGED <<capture, burst, todo, loads, tid, out>>

\* send_chunks: ChunkBatchStart, the chunks, ChunkBatchFinished with their number.
BatchStart == /\ pc = "start"
              /\ Write("start", 0)
              /\ todo' = Chunks
              /\ pc' = "chunks"
              /\ UNCHANGED <<capture, burst, loads, tid>>

SendChunk == /\ pc = "chunks" /\ todo > 0
             /\ Write("chunk", 0)
             /\ todo' = todo - 1
             /\ UNCHANGED <<capture, burst, pc, loads, tid>>

\* Seeded fault: the batch may be finished before its last chunk.
BatchFinishedEarly == /\ pc = "chunks" /\ todo <= 1
                      /\ Write("finished", Chunks)
                      /\ pc' = "center"
                      /\ UNCHANGED <<capture, burst, todo, loads, tid>>

BatchFinished == /\ pc = "chunks" /\ todo = 0
                 /\ Write("finished", Chunks)
                 /\ pc' = "center"
                 /\ UNCHANGED <<capture, burst, todo, loads, tid>>

\* SetChunkCacheCenter; the burst without captures loads once more.
SendCenter == /\ pc = "center"
              /\ Write("center", 0)
              /\ loads' = loads - 1
              /\ pc' = IF loads = 1 THEN "loop" ELSE "start"
              /\ UNCHANGED <<capture, burst, todo, tid>>

Next == \/ SendLogin \/ SendPosition \/ SendPacket \/ SkipPacket \/ BurstDone
        \/ BatchStart \/ SendChunk \/ BatchFinished \/ SendCenter

\* The task runs.
Fairness == WF_vars(Next)
Spec == Init /\ [][Next]_vars /\ Fairness
-----------------------------------------------------------------------------
Written(k) == {i \in 1..Len(out) : out[i].kind = k}
\* Start i is the batch that packet j falls into.
Opens(i, j) == /\ i \in Written("start") /\ i < j
               /\ \A k \in Written("finished") : ~(i < k /\ k < j)

ChunksBetween(i, j) == Cardinality({k \in Written("chunk") : i < k /\ k < j})

\* No captured terrain reaches the client: every chunk lies in a batch that
\* send_chunks opened, whatever was captured (server.rs:414), and a batch is
\* closed with exactly the chunks it announced.
BatchesAreWhole ==
    /\ \A j \in Written("chunk") : \E i \in Written("start") : Opens(i, j)
    /\ \A i \in Written("start"), j \in Written("finished") :
          Opens(i, j) => ChunksBetween(i, j) = out[j].n

\* develop.md:98: the burst begins with Login (and server.rs:274 "Send
\* LoginPacket first", 310 "Replace LoginPacket with dynamic version").
LoginComesFirst == out # <<>> => out[1].kind = "login"
=============================================================================
