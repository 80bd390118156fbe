------------------------------ MODULE MCRelay ------------------------------
(***************************************************************************)
(* Relay alone, against what its own words say of it.                      *)
(***************************************************************************)
EXTENDS Relay

Plain == [i \in 1..MaxSent |-> "plain"]

\* Three bytes each way; from the client also a Handshake to log in, and a
\* Handshake to be transferred, which is "plain", then a LoginStart.
MCStreams == {[d \in Directions |-> Plain]} \cup
    {[c2s |-> [Plain EXCEPT ![1] = a, ![2] = "short"], s2c |-> Plain] : a \in {"login", "plain"}}
=============================================================================
