---------------------------- MODULE MCByteBuffer ----------------------------
(* Small instances of ByteBuffer, of the callers that edit a packet, and of  *)
(* the conversions, in one run: each starts where nothing else is under way, *)
(* since they share no state.                                                *)
(*                                                                           *)
(* ShortMod = 120 stands for 65536; 130 is a string that passes it, written  *)
(* into arrays that have room for it (135, for the status response) and into *)
(* others; 128 and more make the VarInt of a length take two bytes.          *)
EXTENDS PacketEdits, Conversions

MCAllocSizes == {5, 100, 135}
MCPoolSizes == {101, 115}
MCLengths == {0, 3, 109, 130}
MCValues == {300, 300000000}

\* The kick has 6 bytes; the bits of frames of 15 bytes pass ShortMod; 91 bytes
\* take several chunks, and arrays of the pool are a little longer.
MCPackets == {6, 12, 91}
MCStreams ==
    {[room |-> r, size |-> n, end |-> e] : r \in {20, 23, 24}, n \in {19, 20}, e \in {8, 19}}

-----------------------------------------------------------------------------
(* Conversions: powers of two and their neighbours, with bytes of four bits  *)
(* where eight would leave the integers of TLC; three bytes stand for the    *)
(* twenty of a hash.                                                         *)

Trial(of, input) == [of |-> of, input |-> input]
Sized(of, n, input) == [of |-> of, size |-> n, input |-> input]

\* The numbers of so many bits next to a power of two, and the extreme ones.
Ints(width) ==
    LET top == 2 ^ (width - 2) + (2 ^ (width - 2) - 1)
    IN  {sign * 2 ^ k + d : sign \in {-1, 1}, k \in 0 .. width - 2, d \in {-1, 0, 1}}
            \cup {top, -top - 1}

Strings(bytes, lengths) == UNION {[1 .. n -> bytes] : n \in lengths}

MCTrials ==
    {Trial("varint", v) : v \in Ints(32)}
    \cup {Sized("signed", 2, v) : v \in Ints(8)}
    \cup {Sized("signed", 4, v) : v \in Ints(16)}
    \cup {Sized("signed", 8, v) : v \in Ints(32)}
    \cup {Sized("unsigned", n, v) : n \in {2, 3}, v \in 0 .. 255}
    \cup {Trial("hash", b) : b \in Strings({0, 1, 15, 16, 127, 128, 240, 255}, {3})}
    \cup {Trial("base64", b) : b \in Strings({0, 1, 62, 128, 255}, 0 .. 4)}

MCInit == EditInit /\ TrialInit

MCNext ==
    \/ trial = Untried /\ EditNext /\ UNCHANGED trial
    \/ Idle /\ TrialNext /\ UNCHANGED <<vars, editVars>>

MCSpec == MCInit /\ [][MCNext]_<<vars, editVars, trial>>
=============================================================================
