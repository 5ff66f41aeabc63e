----------------------------- MODULE PacketPipe -----------------------------
(***************************************************************************)
(* What one direction of a proxied connection promises: the packets that    *)
(* are to be passed on arrive whole, once each and in order, until the pipe *)
(* is cut; while it is not cut they keep arriving.                          *)
(***************************************************************************)
EXTENDS Naturals, Sequences

CONSTANT Segments    \* the packets, as <<first byte, byte after the last>>

VARIABLES delivered, alive

Pending == {f \in Segments : \A i \in DOMAIN delivered : delivered[i] # f}

Init == delivered = << >> /\ alive = TRUE

Deliver ==
    /\ alive
    /\ \E f \in Pending :
           /\ \A g \in Pending : f[1] <= g[1]
           /\ delivered' = Append(delivered, f)
    /\ UNCHANGED alive

Cut == alive /\ alive' = FALSE /\ UNCHANGED delivered

Next == Deliver \/ Cut

Safety == Init /\ [][Next]_<<delivered, alive>>

Spec == Safety /\ WF_<<delivered, alive>>(Deliver)
=============================================================================
