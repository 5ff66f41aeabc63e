--------------------------- MODULE PacketChannel ----------------------------
(***************************************************************************)
(* What the reassembly of packets promises: while the network is gentle, a  *)
(* packet is handled after it was sent, whole and once, and nothing else is *)
(* handled.  When the network no longer is, anything may be handled from    *)
(* then on; what has been handled stays so.                                 *)
(***************************************************************************)
EXTENDS Naturals

CONSTANT Packets

VARIABLES
    sent,       \* the packets that have been sent
    handled,    \* how often each of those that were handled was
    gentle      \* the network is gentle so far

Init == sent = {} /\ DOMAIN handled = {} /\ gentle = TRUE

Send ==
    /\ \E p \in Packets \ sent : sent' = sent \cup {p}
    /\ UNCHANGED <<handled, gentle>>

Handle ==
    /\ gentle
    /\ \E p \in sent \ DOMAIN handled :
           handled' = [q \in DOMAIN handled \cup {p} |-> IF q = p THEN 1 ELSE handled[q]]
    /\ UNCHANGED <<sent, gentle>>

Upset ==
    /\ gentle' = FALSE
    /\ DOMAIN handled \subseteq DOMAIN handled'
    /\ \A p \in DOMAIN handled : handled[p] <= handled'[p]
    /\ UNCHANGED sent

Next == Send \/ Handle \/ Upset

Spec == Init /\ [][Next]_<<sent, handled, gentle>>
=============================================================================
