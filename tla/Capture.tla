------------------------------ MODULE Capture ------------------------------
(***************************************************************************)
(* The capture files between the proxy and the server.  relay_s2c writes   *)
(* each clientbound packet of every connection to a file of its own, whose *)
(* name has a number from a counter of the process; run_play_phase makes   *)
(* its burst from what it finds in the directory.  The proxy may be        *)
(* restarted, with the files still there.                                  *)
(***************************************************************************)
EXTENDS Naturals, Sequences, FiniteSetsExt

CONSTANTS Conns,       \* connections of one run of the proxy, by conn_id
          PacketIds,   \* ids of clientbound packets
          First,       \* 35: packets numbered below are of login and configuration
          Most,        \* 213: packets taken
          MaxPackets,  \* bound: packets relayed
          MaxRuns      \* bound: runs of the proxy

BoundsAssumption == {First, Most, MaxPackets, MaxRuns} \subseteq Nat

VARIABLES number,   \* PLAY_PKT_N
          seen,     \* per connection: packets relayed
          run,      \* runs of the proxy so far
          files,    \* file name, as [n, id, pid], |-> the packet in it
          failed,   \* history: a file could not be written
          loaded,   \* play_packets of the server
          pc        \* "capture", "loaded"

vars == <<number, seen, run, files, failed, loaded, pc>>

\* A packet is known by where it was seen: [run, conn, k], number k of its connection.

Init == /\ number = 0
        /\ seen = [c \in Conns |-> 0]
        /\ run = 1
        /\ files = << >>
        /\ failed = FALSE
        /\ loaded = <<>>
        /\ pc = "capture"

Written(name, packet) == [f \in DOMAIN files \cup {name} |-> IF f = name THEN packet ELSE files[f]]

\* relay_s2c dumps the next packet of c; an error of fs::write is dropped.
Dump(c, pid) ==
    /\ pc = "capture" /\ number < MaxPackets
    /\ number' = number + 1
    /\ seen' = [seen EXCEPT ![c] = @ + 1]
    /\ \/ files' = Written([n |-> number, id |-> c, pid |-> pid],
                           [run |-> run, conn |-> c, k |-> seen[c] + 1])
          /\ UNCHANGED failed
       \/ failed' = TRUE /\ UNCHANGED files
    /\ UNCHANGED <<run, loaded, pc>>

\* A new process counts from 0, packets and connections.
Restart == /\ pc = "capture" /\ run < MaxRuns
           /\ run' = run + 1
           /\ number' = 0
           /\ seen' = [c \in Conns |-> 0]
           /\ UNCHANGED <<files, failed, loaded, pc>>

\* The numbers of a map in its order, and as many of them as are taken.
Nth(N, i) == CHOOSE n \in N : Cardinality({m \in N : m < n}) = i - 1

\* Seeded fault: the first number wanted is left out.
LoadLater(N) == {n \in N : n > First}
Wanted(N) == {n \in N : n >= First}

\* read_dir in any order, pkt_map.insert: of files with the same number one stays;
\* into_values in the order of the numbers, take(213).
Load == /\ pc = "capture"
        /\ LET N == Wanted({f.n : f \in DOMAIN files}) IN
           \E last \in [N -> DOMAIN files] :
              /\ \A n \in N : last[n].n = n
              /\ loaded' = [i \in 1 .. Min({Most, Cardinality(N)}) |-> files[last[Nth(N, i)]]]
        /\ pc' = "loaded"
        /\ UNCHANGED <<number, seen, run, files, failed>>

Next == Restart \/ Load \/ \E c \in Conns, pid \in PacketIds : Dump(c, pid)
Spec == Init /\ [][Next]_vars
-----------------------------------------------------------------------------
\* Whatever lies in the directory, packets of one connection of one run are loaded
\* in the order they were relayed, none of them twice (server.rs:268); and from the
\* capture of one connection alone, the ones wanted and no others.  Connections
\* and runs that share the directory are mixed, and lose packets to each other.
LoadsAsRelayed == pc = "loaded" =>
    /\ \A i, j \in DOMAIN loaded : i < j /\ loaded[i].run = loaded[j].run
                                 /\ loaded[i].conn = loaded[j].conn => loaded[i].k < loaded[j].k
    /\ \A c \in Conns : run = 1 /\ ~failed /\ seen[c] = number =>
          loaded = [i \in 1 .. Min({Most, Max({number - First, 0})}) |->
                       [run |-> 1, conn |-> c, k |-> First + i]]
=============================================================================
