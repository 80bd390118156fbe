--------------------------- MODULE MCConnections ---------------------------
(***************************************************************************)
(* The machines of Connections on small instances.  They share no state,   *)
(* so a behaviour runs one of them, the others parked.                     *)
(***************************************************************************)
EXTENDS Connections

\* Relay: three bytes each way, two per read: all plain, a LoginStart behind a
\* login and without one, lengths that panic, and a short frame from the backend.
Plain == [i \in 1..MaxSent |-> "plain"]
MCStreams ==
    {[c2s |-> c, s2c |-> Plain] :
        c \in {Plain, [Plain EXCEPT ![1] = "login", ![2] = "short"]}
              \cup {[Plain EXCEPT ![2] = k] : k \in {"short", "length"}}}
    \cup {[c2s |-> Plain, s2c |-> [Plain EXCEPT ![2] = k]] : k \in {"short", "length"}}

\* Framing, in base 4: a length of 4 takes two bytes, as 128 does in the code,
\* and -1 to -3 wrap round as -1 to -5 do.
MCWeight == [n \in 0..MaxBytes |-> Base ^ n]
Bodies   == {<<>>, <<1, 5>>, <<4, 1, 3>>}
Frame(id, b) == [frames |-> <<[id |-> id, body |-> b]>>, raw |-> <<>>]
Proper   == {Frame(id, b) : id \in {3, 5}, b \in Bodies}
Second   == {Frame(3, <<>>), Frame(5, <<4, 1, 3>>)}
RawBytes(s) == [frames |-> <<>>, raw |-> s]
\* Lengths 0 (no id), -1, -4, and none at all; with compression also a frame
\* without data length, and one whose data is cut short.
Hollow   == {RawBytes(s) : s \in {<<0>>, <<7, 7, 1>>, <<4, 7, 1>>, <<7, 7, 7>>}}
Packless == Hollow \cup {RawBytes(s) : s \in {<<1, 7>>, <<2, 1, 7>>}}
\* Bytes that hold no packet come before a frame and behind one.
MCFrameStreams ==
    {[comp |-> FALSE, entries |-> <<p, q>>] : p \in Proper \cup Hollow, q \in Second \cup Hollow} \cup
    {[comp |-> TRUE, entries |-> <<p, q>>] : p \in Proper \cup Packless, q \in Second \cup Packless}

\* Bursts as a vanilla server sends them, cut off anywhere: the login, some
\* packets in any order around one chunk batch; and no capture at all.
Between == {"position", "dynamic", "skipped", "bundle", "other"}
Some    == {<<>>} \cup {<<a>> : a \in Between} \cup {<<a, b>> : a, b \in Between}
Batch   == <<"center", "start", "chunk", "chunk", "finished">>
Whole   == {<<"login">> \o a \o Batch \o b : a, b \in Some}
MCCaptures == {<<>>} \cup
    {SubSeq(c, 1, IF n < Len(c) THEN n ELSE Len(c)) : c \in Whole, n \in {3, 5, 7, 10}}

\* A server list refresh, repeated status requests, and an attempt to join.
MCPlans == {<<"toStatus", "statusRequest", "ping">>,
            <<"toStatus", "statusRequest", "statusRequest", "statusRequest", "ping">>,
            <<"toLogin", "loginStart">>}

VARIABLE machine  \* the one that runs

c_vars == <<cl, intent, captured, c_wire, c_down, phase, c_pc, c_buf, lost, ticks>>
s_vars == <<capture, burst, s_pc, todo, loads, tid, out>>
p_vars == <<plan, asked, p_wire, p_buf, p_pc, p_state, p_down, left>>
f_vars == <<strict, comp, coming, f_wire, buf, pc, stalled, f_sent, f_got>>

R_Parked == Init /\ frames = [d \in Directions |-> Plain]  \* nothing to relay
F_Parked == /\ strict = FALSE /\ comp = FALSE /\ coming = <<>> /\ f_wire = <<>>
            /\ buf = <<>> /\ pc = "eof" /\ stalled = FALSE /\ f_sent = <<>> /\ f_got = <<>>
C_Parked == /\ cl = "gone" /\ intent = 1 /\ captured = FALSE /\ c_wire = <<>> /\ c_down = <<>>
            /\ phase = "closed" /\ c_pc = "read" /\ c_buf = <<>> /\ lost = <<>> /\ ticks = 0
S_Parked == /\ capture = <<>> /\ burst = <<>> /\ s_pc = "loop"
            /\ todo = 0 /\ loads = 0 /\ tid = 0 /\ out = <<>>
P_Parked == /\ plan = <<>> /\ asked = <<>> /\ p_wire = <<>> /\ p_buf = <<>>
            /\ p_pc = "closed" /\ p_state = "handshake" /\ p_down = <<>> /\ left = TRUE

OneInit ==
    \/ machine = "relay"  /\ Init   /\ F_Parked /\ C_Parked /\ S_Parked /\ P_Parked
    \/ machine = "frames" /\ F!Init /\ R_Parked /\ C_Parked /\ S_Parked /\ P_Parked
    \/ machine = "server" /\ C!Init /\ R_Parked /\ F_Parked /\ S_Parked /\ P_Parked
    \/ machine = "start"  /\ S!Init /\ R_Parked /\ F_Parked /\ C_Parked /\ P_Parked
    \/ machine = "ping"   /\ G!Init /\ R_Parked /\ F_Parked /\ C_Parked /\ S_Parked

OneNext ==
    /\ UNCHANGED machine
    /\ \/ machine = "relay"  /\ Next   /\ UNCHANGED <<f_vars, c_vars, s_vars, p_vars>>
       \/ machine = "frames" /\ F!Next /\ UNCHANGED <<vars, c_vars, s_vars, p_vars>>
       \/ machine = "server" /\ C!Next /\ UNCHANGED <<vars, f_vars, s_vars, p_vars>>
       \/ machine = "start"  /\ S!Next /\ UNCHANGED <<vars, f_vars, c_vars, p_vars>>
       \/ machine = "ping"   /\ G!Next /\ UNCHANGED <<vars, f_vars, c_vars, s_vars>>

OneSpec == /\ OneInit
           /\ [][OneNext]_<<machine, vars, f_vars, c_vars, s_vars, p_vars>>
           /\ Fairness /\ F!Fairness /\ C!Fairness /\ S!Fairness /\ G!Fairness
=============================================================================
