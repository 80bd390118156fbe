-------------------------------- MODULE Pipe --------------------------------
(***************************************************************************)
(* What a transparent TCP proxy promises the two ends it connects: each    *)
(* end receives a prefix of what the other sent, in order.  Relay          *)
(* implements it.                                                          *)
(***************************************************************************)
EXTENDS Sequences, Naturals

Ends == {"client", "backend"}
Directions == {"c2s", "s2c"}
Src(d) == IF d = "c2s" THEN "client" ELSE "backend"
Dst(d) == IF d = "c2s" THEN "backend" ELSE "client"

VARIABLES sent,  \* per direction: what the source has written
          got,   \* per direction: what the destination has been handed
          open   \* per end: it has not closed its connection

vars == <<sent, got, open>>

Init == /\ sent = [d \in Directions |-> <<>>]
        /\ got = [d \in Directions |-> <<>>]
        /\ open = [e \in Ends |-> TRUE]

Send(d) == /\ open[Src(d)]
           /\ sent' = [sent EXCEPT ![d] = Append(@, Len(@) + 1)]
           /\ UNCHANGED <<got, open>>

Deliver(d) == /\ open[Dst(d)]
              /\ \E n \in (Len(got[d]) + 1) .. Len(sent[d]) :
                    got' = [got EXCEPT ![d] = SubSeq(sent[d], 1, n)]
              /\ UNCHANGED <<sent, open>>

Close(e) == /\ open[e]
            /\ open' = [open EXCEPT ![e] = FALSE]
            /\ UNCHANGED <<sent, got>>

Next == \/ \E d \in Directions : Send(d) \/ Deliver(d)
        \/ \E e \in Ends : Close(e)

Spec == Init /\ [][Next]_vars
=============================================================================
