---------------------------- MODULE MCJavaRelay -----------------------------
(* Small instances of JavaRelay.  A buffer of 5 bytes that grows by 1 and an *)
(* unsigned short of 2 bits: packets of 10 bytes need several growths, each   *)
(* cut to less than the length asked for.                                    *)
EXTENDS JavaRelay, TLC

Packet(h, l) == [header |-> h, length |-> l]

\* Headers of one and two bytes, a packet of the proxy's own in the middle.
MCFrames == (0 :> Packet(1, 1)) @@ (2 :> Packet(2, 8)) @@ (12 :> Packet(1, 2))
            @@ (15 :> Packet(1, 9))
MCTotal == 25
MCOwn == {12}
\* With a header of five bytes, -5 leads nowhere, -7 back and -2 on.
MCGarbage == {-7, -5, -2, 0, 1, 4}

\* A shorter stream for the sockets whose sends may be cut anywhere.
ShortFrames == (0 :> Packet(2, 1)) @@ (3 :> Packet(1, 1)) @@ (5 :> Packet(1, 5))
ShortTotal == 11
=============================================================================
