--------------------------- MODULE PingResponder ---------------------------
(***************************************************************************)
(* One connection to the Server List Ping responder (bin/ping.rs: handle)  *)
(* and the client that refreshes its server list, or tries to join.  The   *)
(* frame loop ends early, by break, after a Pong and after a disconnect:   *)
(* frames behind them stay in the buffer until the next read returns.      *)
(* A read that ends inside a frame acts like one that ends before it.      *)
(***************************************************************************)
EXTENDS Naturals, Sequences

CONSTANTS Plans   \* the sequences of frames a client may send

VARIABLES plan,   \* frames the client has still to send
          asked,  \* history: frames sent that must be answered
          wire,   \* frames on their way to the server
          buf,    \* frames read and not yet handled
          pc,     \* "read", "parse" or "closed"
          state,  \* the server's State
          down,   \* history: replies written
          left    \* the client has closed the connection

vars == <<plan, asked, wire, buf, pc, state, down, left>>

\* Packet ids of the serverbound frames, and the reply each one asks for.
Id    == [toStatus |-> 0, toLogin |-> 0, statusRequest |-> 0, ping |-> 1, loginStart |-> 0]
Reply == [statusRequest |-> "status", ping |-> "pong", loginStart |-> "disconnect"]
Frames == DOMAIN Id

\* A client keeps to one of the two conversations that a handshake opens: it
\* refreshes its server list, or tries to join.
Conversations == [toStatus |-> {"statusRequest", "ping"}, toLogin |-> {"loginStart"}]

PlansAssumption == /\ Plans \subseteq Seq(Frames)
                   /\ \A p \in Plans : p # <<>> =>
                         /\ p[1] \in DOMAIN Conversations
                         /\ \A i \in 2..Len(p) : p[i] \in Conversations[p[1]]

Answered(fs) == [k \in DOMAIN fs |-> Reply[fs[k]]]
-----------------------------------------------------------------------------
Init == /\ plan \in Plans
        /\ asked = <<>>
        /\ wire = <<>>
        /\ buf = <<>>
        /\ pc = "read"
        /\ state = "handshake"
        /\ down = <<>>
        /\ left = FALSE

\* The client runs ahead of the replies as far as it likes.
Send == /\ plan # <<>> /\ ~left
        /\ plan' = Tail(plan)
        /\ wire' = Append(wire, Head(plan))
        /\ asked' = IF Head(plan) \in DOMAIN Reply THEN Append(asked, Head(plan)) ELSE asked
        /\ UNCHANGED <<buf, pc, state, down, left>>

\* It closes when it has every answer it asked for, or gives up.
Leave == /\ ~left
         /\ left' = TRUE
         /\ UNCHANGED <<plan, asked, wire, buf, pc, state, down>>

Read == /\ pc = "read"
        /\ \E n \in 1..Len(wire) :
              /\ buf' = buf \o SubSeq(wire, 1, n)
              /\ wire' = SubSeq(wire, n + 1, Len(wire))
        /\ pc' = "parse"
        /\ UNCHANGED <<plan, asked, state, down, left>>

\* read returns 0, or fails, once the client is gone.
Eof == /\ pc = "read" /\ left
       /\ pc' = "closed"
       /\ UNCHANGED <<plan, asked, wire, buf, state, down, left>>

NeedMore == /\ pc = "parse" /\ buf = <<>>
            /\ pc' = "read"
            /\ UNCHANGED <<plan, asked, wire, buf, state, down, left>>

\* The loop takes the next frame in the given state.
Take(st) == /\ pc = "parse" /\ state = st
            /\ buf # <<>>
            /\ buf' = Tail(buf)
            /\ UNCHANGED <<plan, asked, wire, left>>
Answer(r) == down' = Append(down, r)

\* Handshake: next_state 1 and 2 select the state; the id must be 0.
HandleHandshake == /\ Take("handshake")
                   /\ Id[Head(buf)] = 0
                   /\ state' = IF Head(buf) = "toLogin" THEN "login" ELSE "status"
                   /\ UNCHANGED <<pc, down>>

\* Seeded fault: the loop ends after the status response as well.
HandleStatusLast == /\ Take("status") /\ Id[Head(buf)] = 0
                    /\ Answer("status")
                    /\ pc' = "read"
                    /\ UNCHANGED state

\* Status, id 0: StatusResponse, and the loop goes on.
HandleStatus == /\ Take("status") /\ Id[Head(buf)] = 0
                /\ Answer("status")
                /\ UNCHANGED <<pc, state>>

\* Seeded fault: a ping is answered with the status.
HandlePingStatus == /\ Take("status") /\ Id[Head(buf)] = 1
                    /\ Answer("status")
                    /\ pc' = "read"
                    /\ UNCHANGED state

\* Status, id 1: Pong, then break.
HandlePing == /\ Take("status") /\ Id[Head(buf)] = 1
              /\ Answer("pong")
              /\ pc' = "read"
              /\ UNCHANGED state

\* Login, LoginStart: LoginDisconnect, then break.
HandleLogin == /\ Take("login") /\ Id[Head(buf)] = 0
               /\ Answer("disconnect")
               /\ pc' = "read"
               /\ UNCHANGED state

Server == \/ Read \/ Eof \/ NeedMore
          \/ HandleHandshake \/ HandleStatus \/ HandlePing \/ HandleLogin
Next == Server \/ Send \/ Leave

\* The task runs, and the client sends all of its plan unless it leaves.
Fairness == WF_vars(Server) /\ WF_vars(Send)
Spec == Init /\ [][Next]_vars /\ Fairness
-----------------------------------------------------------------------------
\* The replies answer the requests one by one, in the order they were made,
\* however the frames are cut into reads.
RepliesMatchRequests ==
    /\ Len(down) <= Len(asked)
    /\ down = SubSeq(Answered(asked), 1, Len(down))

\* Every request gets its reply, or the client is gone.
RequestsAreAnswered == Len(down) < Len(asked) ~> (down = Answered(asked) \/ left)
=============================================================================
