------------------------------- MODULE Relay -------------------------------
(***************************************************************************)
(* One proxied connection (relay.rs: bidirectional, relay_c2s, relay_s2c;  *)
(* main.rs: handle): two tasks, each copying one direction, that share two *)
(* sockets split into halves.  A socket is closed only when both of its    *)
(* halves are dropped, so only when both tasks have ended.  The frames the *)
(* tasks decode on the way are for the log; but the decoder may panic, and *)
(* takes the task with it, before the bytes that it looked at are written. *)
(***************************************************************************)
EXTENDS Naturals, Sequences

CONSTANTS BufSize,   \* 65536: bytes taken by one read
          MaxSent,   \* bound: bytes each end writes
          Streams    \* what the bytes of either direction may mean, see frames

\* What a byte completes: "plain", nothing that concerns the decoder; "login",
\* a Handshake with next_state 2; "short", another frame of id 0 whose body ends
\* before the address that parse_handshake_next steps over (a LoginStart does);
\* "length", a length prefix of -1 to -5, with which split_to panics.
Kinds == {"plain", "login", "short", "length"}

ASSUME SizeAssumption == BufSize \in Nat \ {0} /\ MaxSent \in Nat

Ends == {"client", "backend"}
Directions == {"c2s", "s2c"}
Src(d) == IF d = "c2s" THEN "client" ELSE "backend"
Dst(d) == IF d = "c2s" THEN "backend" ELSE "client"

ASSUME StreamsAssumption == Streams \subseteq [Directions -> [1..MaxSent -> Kinds]]

VARIABLES frames, \* per direction and byte: what it completes (fixed)
          state,  \* what relay_c2s takes the protocol's state for
          open,   \* per end: it has not closed its connection
          sent,   \* per direction: bytes the source has written, numbered
          wire,   \* per direction: bytes written and not read by the task
          task,   \* per direction: "read", "write", or ended: "eof", "err", "panic"
          chunk,  \* per direction: bytes read and not written yet
          got     \* per direction: bytes handed to the destination

vars == <<frames, state, open, sent, wire, task, chunk, got>>

Failed(d) == task[d] \in {"err", "panic"}
Ended(d) == task[d] = "eof" \/ Failed(d)
\* Both tasks have ended: every half is dropped and both sockets close.
Released == \A d \in Directions : Ended(d)

-----------------------------------------------------------------------------
Init == /\ frames \in Streams
        /\ state = "handshake"
        /\ open = [e \in Ends |-> TRUE]
        /\ sent = [d \in Directions |-> <<>>]
        /\ wire = [d \in Directions |-> <<>>]
        /\ task = [d \in Directions |-> "read"]
        /\ chunk = [d \in Directions |-> <<>>]
        /\ got = [d \in Directions |-> <<>>]

\* An end writes a byte, or closes for reasons of its own.
Send(d) == /\ open[Src(d)] /\ ~Released
           /\ Len(sent[d]) < MaxSent
           /\ sent' = [sent EXCEPT ![d] = Append(@, Len(@) + 1)]
           /\ wire' = [wire EXCEPT ![d] = Append(@, Len(sent[d]) + 1)]
           /\ UNCHANGED <<frames, state, open, task, chunk, got>>

Close(e) == /\ open[e]
            /\ open' = [open EXCEPT ![e] = FALSE]
            /\ UNCHANGED <<frames, state, sent, wire, task, chunk, got>>

\* An end learns that the relay has closed its socket.
SeeClose(e) == Released /\ Close(e)

\* The decoder's loop over the bytes of a read: what it makes of the state, and
\* whether it gets through them.  Only relay_c2s looks into frames of id 0.
Joins(d, c) == d = "c2s" /\ \E i \in 1..Len(c) : frames[d][c[i]] = "login"
Fatal(d, c, i) == \/ frames[d][c[i]] = "length"
                  \/ /\ frames[d][c[i]] = "short"
                     /\ d = "c2s" /\ state = "handshake"
                     /\ \A j \in 1 .. (i - 1) : frames[d][c[j]] # "login"
Survives(d, c) == \A i \in 1..Len(c) : ~Fatal(d, c, i)

\* src.read returns up to a buffer of what has arrived, which goes to the decoder.
TakeIn(d, n) == /\ task[d] = "read"
                /\ n <= BufSize
                /\ wire' = [wire EXCEPT ![d] = SubSeq(@, n + 1, Len(@))]
                /\ state' = IF Joins(d, SubSeq(wire[d], 1, n)) THEN "login" ELSE state
                /\ UNCHANGED <<frames, open, sent, got>>

Read(d) == \E n \in 1..Len(wire[d]) :
              /\ TakeIn(d, n)
              /\ Survives(d, SubSeq(wire[d], 1, n))
              /\ chunk' = [chunk EXCEPT ![d] = SubSeq(wire[d], 1, n)]
              /\ task' = [task EXCEPT ![d] = "write"]

\* Seeded fault: relay_s2c would parse handshakes, too.
ReadPanicEither(d) == \E n \in 1..Len(wire[d]) :
                   /\ TakeIn(d, n)
                   /\ \E i \in 1..n : frames[d][wire[d][i]] \in {"short", "length"}
                   /\ task' = [task EXCEPT ![d] = "panic"]
                   /\ UNCHANGED chunk

\* The decoder panics: the task ends, what it had read is dropped.
ReadPanic(d) == \E n \in 1..Len(wire[d]) :
                   /\ TakeIn(d, n)
                   /\ ~Survives(d, SubSeq(wire[d], 1, n))
                   /\ task' = [task EXCEPT ![d] = "panic"]
                   /\ UNCHANGED chunk

\* Seeded fault: the end of the stream is noticed before its last bytes.
ReadEofEarly(d) == /\ task[d] = "read"
                   /\ ~open[Src(d)]
                   /\ task' = [task EXCEPT ![d] = "eof"]
                   /\ UNCHANGED <<frames, state, open, sent, wire, chunk, got>>

\* Seeded fault: a read of no bytes is passed on like any other.
ReadEofSpins(d) == /\ task[d] = "read"
                   /\ ~open[Src(d)] /\ wire[d] = <<>>
                   /\ task' = [task EXCEPT ![d] = "write"]
                   /\ UNCHANGED <<frames, state, open, sent, wire, chunk, got>>

\* n == 0: the task returns; its halves go, the sockets stay.
ReadEof(d) == /\ task[d] = "read"
              /\ ~open[Src(d)] /\ wire[d] = <<>>
              /\ task' = [task EXCEPT ![d] = "eof"]
              /\ UNCHANGED <<frames, state, open, sent, wire, chunk, got>>

\* The peer's reset makes read fail; what was still unread is gone.
ReadFail(d) == /\ task[d] = "read"
               /\ ~open[Src(d)]
               /\ task' = [task EXCEPT ![d] = "err"]
               /\ UNCHANGED <<frames, state, open, sent, wire, chunk, got>>

\* Seeded fault: write instead of write_all: the rest of the chunk is forgotten.
WritePartial(d) == /\ task[d] = "write"
                   /\ got' = IF open[Dst(d)] THEN [got EXCEPT ![d] = Append(@, Head(chunk[d]))]
                                             ELSE got
                   /\ chunk' = [chunk EXCEPT ![d] = <<>>]
                   /\ task' = [task EXCEPT ![d] = "read"]
                   /\ UNCHANGED <<frames, state, open, sent, wire>>
\* Seeded fault: the buffer still counts as filled after the write.
WriteKeep(d) == /\ task[d] = "write"
                /\ got' = IF open[Dst(d)] THEN [got EXCEPT ![d] = @ \o chunk[d]] ELSE got
                /\ task' = [task EXCEPT ![d] = "read"]
                /\ UNCHANGED <<frames, state, open, sent, wire, chunk>>

\* dst.write_all succeeds; a peer that has closed receives nothing of it.
Write(d) == /\ task[d] = "write"
            /\ got' = IF open[Dst(d)] THEN [got EXCEPT ![d] = @ \o chunk[d]] ELSE got
            /\ chunk' = [chunk EXCEPT ![d] = <<>>]
            /\ task' = [task EXCEPT ![d] = "read"]
            /\ UNCHANGED <<frames, state, open, sent, wire>>

\* dst.write_all fails: the task returns the error, the chunk is dropped.
WriteFail(d) == /\ task[d] = "write"
                /\ ~open[Dst(d)]
                /\ chunk' = [chunk EXCEPT ![d] = <<>>]
                /\ task' = [task EXCEPT ![d] = "err"]
                /\ UNCHANGED <<frames, state, open, sent, wire, got>>

Task(d) == Read(d) \/ ReadPanic(d) \/ ReadEof(d) \/ ReadFail(d) \/ Write(d) \/ WriteFail(d)
Next == \/ \E d \in Directions : Task(d) \/ Send(d)
        \/ \E e \in Ends : Close(e) \/ SeeClose(e)

\* Both tasks are scheduled, and an end that is closed on notices.
Fairness == /\ \A d \in Directions : WF_vars(Task(d))
            /\ \A e \in Ends : WF_vars(SeeClose(e))
Spec == Init /\ [][Next]_vars /\ Fairness
-----------------------------------------------------------------------------
Bytes == Seq(1..MaxSent)
TypeOK == /\ frames \in [Directions -> [1..MaxSent -> Kinds]]
          /\ state \in {"handshake", "login"}
          /\ open \in [Ends -> BOOLEAN]
          /\ sent \in [Directions -> Bytes]
          /\ wire \in [Directions -> Bytes]
          /\ task \in [Directions -> {"read", "write", "eof", "err", "panic"}]
          /\ chunk \in [Directions -> Bytes]
          /\ got \in [Directions -> Bytes]
          /\ \A d \in Directions : /\ Len(chunk[d]) <= BufSize
                                   /\ task[d] = "write" <=> chunk[d] # <<>>

\* A direction that ends at the end of its stream has passed everything on to
\* a destination that is still there: closing loses no tail.
TailIsDelivered == \A d \in Directions :
    task[d] = "eof" /\ open[Dst(d)] => got[d] = sent[d]

\* The decoder has met, or will meet, a frame in what was sent that it does not
\* survive: a length, or from the client an id 0 that no Handshake to log in
\* came before.
Poisoned(d) == \E i \in 1..Len(sent[d]) :
    \/ frames[d][i] = "length"
    \/ /\ frames[d][i] = "short" /\ d = "c2s"
       /\ \A j \in 1 .. (i - 1) : frames[d][j] # "login"

\* While both ends stay, everything either of them sends arrives, unless its own
\* stream is poisoned: the death of one task holds up nothing of the other's.
EverythingArrives == \A d \in Directions :
    got[d] # sent[d] ~> \/ got[d] = sent[d]
                        \/ Poisoned(d)
                        \/ \E e \in Ends : ~open[e]

\* relay.rs:1 "pure TCP forwarding, no interception": all bytes arrive while both
\* ends stay, whatever they mean.
ForwardsEverything == \A d \in Directions :
    got[d] # sent[d] ~> \/ got[d] = sent[d]
                        \/ \E e \in Ends : ~open[e]

\* No task outlives the two connections it serves.
TasksEnd == (\A e \in Ends : ~open[e]) ~> Released

P == INSTANCE Pipe
\* Whatever the reads return and whichever end goes first, each end gets an
\* unbroken prefix of what the other wrote.
ImplementsPipe == P!Spec

\* relay.rs:1 "pure TCP forwarding", main.rs:1 "TCP transparent proxy": when
\* the backend closes the connection, so does the relay towards the client.
BackendCloseReachesClient == ~open["backend"] ~> ~open["client"]
=============================================================================
