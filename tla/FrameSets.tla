------------------------------ MODULE FrameSets -------------------------------
(***************************************************************************)
(* The loop over a frame set in RakNetPacketHandler::handle.                *)
(*                                                                          *)
(* A client puts several frames into a datagram.  The loop reads the header *)
(* of each, acknowledges it, and calls handle with the same buffer for what *)
(* the frame holds, which reads on at offset for as long as it likes.  The  *)
(* position behind the frame is kept in locals, offset and bytes, and set   *)
(* again afterwards.  A game packet releases the buffer before that.  A     *)
(* frame may hold a frame set: handle then loops over it within the loop,   *)
(* and not to the end of the frame but to the end of the datagram.          *)
(*                                                                          *)
(* Bytes are their positions.  What another thread does with a released     *)
(* buffer before the loop has ended is in BufferPool.  A packet put together *)
(* from parts is handled in a buffer of its own, see RakNetFragments: this  *)
(* loop finds the part behind the header and sets offset behind it.         *)
(***************************************************************************)
EXTENDS Integers, Sequences, FiniteSets

CONSTANTS
    Datagrams,   \* the sequences of frames that clients put into a datagram;
                 \* the empty one stands for any that is no frame set
    MaxRead      \* bound on the bytes the handler of a packet reads

\* bits is the length of the content, holds what it is: a part of a larger
\* packet, a game packet, a frame set, or any other packet.  The frames of a
\* frame set within a frame are the next ones of the sequence.
MaxBits == 65535     \* of an unsigned short
Bits == 1 .. MaxBits
Frame == [reliability : 0 .. 7, bits : Bits, holds : {"part", "game", "set", "other"}]

VARIABLES
    frames,      \* the frames of the datagram in the buffer
    size, offset, released,     \* the buffer
    loop,        \* where the thread is
    saved, bytes,               \* the locals offset and bytes
    outer,       \* those of the loops around this one
    read,        \* history: the frames whose headers have been read
    acks,        \* ACKs sent for them
    free,        \* offset of one of the released buffers in the pool, or None
    last         \* history: the frames it held before it was released

frameVars ==
    <<frames, size, offset, released, loop, saved, bytes, outer, read, acks, free, last>>

None == -1

-----------------------------------------------------------------------------
(* How clients lay out frames                                               *)

Reliable == {2, 3, 4, 6, 7}
Sequenced == {1, 4}
Ordered == {1, 3, 4, 7}

\* Flags and length; a reliable frame has an index of three bytes, a sequenced
\* one another, an ordered one an index and a channel, a part its size, id and
\* index.
HeaderSize(f) ==
    3 + (IF f.reliability \in Reliable THEN 3 ELSE 0)
      + (IF f.reliability \in Sequenced THEN 3 ELSE 0)
      + (IF f.reliability \in Ordered THEN 4 ELSE 0)
      + (IF f.holds = "part" THEN 10 ELSE 0)

ContentSize(f) == IF f.bits % 8 = 0 THEN f.bits \div 8 ELSE f.bits \div 8 + 1

\* From the header of a frame to that of the next one: to the end of its
\* content or, when that is a frame set, behind its id and number.
FrameSize(f) == HeaderSize(f) + IF f.holds = "set" THEN 4 ELSE ContentSize(f)

\* Where frame k starts: behind the id and number of the set and the frames
\* before it.
Start(set, k) ==
    LET start[i \in 1 .. k] ==
            IF i = 1 THEN 4 ELSE start[i - 1] + FrameSize(set[i - 1])
    IN  start[k]

SizeOf(set) == Start(set, Len(set) + 1)

\* The end of frame k.
End(set, k) == Start(set, k) + HeaderSize(set[k]) + ContentSize(set[k])

\* A frame ends where another one starts, or the datagram.
ASSUME FramesAssumption ==
    /\ \A set \in Datagrams :
           /\ set \in Seq(Frame)
           /\ \A k \in DOMAIN set : \E n \in k + 1 .. Len(set) + 1 : End(set, k) = Start(set, n)
    /\ MaxRead \in Nat

-----------------------------------------------------------------------------
(* The buffer                                                               *)

FrameInit ==
    /\ frames = <<>> /\ last = <<>> /\ read = <<>>
    /\ size = 0 /\ offset = 0 /\ released = FALSE
    /\ loop = "receive"
    /\ saved = 0 /\ bytes = 0 /\ outer = <<>> /\ acks = 0 /\ free = None

\* recvfrom has returned.  use does not rewind the buffer it takes; when the
\* released one is too small there is a new one.
ReceiveSet(set) ==
    /\ loop = "receive" /\ loop' = "id"
    /\ frames' = set /\ size' = SizeOf(set)
    /\ \/ free # None /\ offset' = free /\ free' = None /\ last' = <<>>
       \/ offset' = 0 /\ UNCHANGED <<free, last>>
    /\ released' = FALSE
    /\ read' = <<>> /\ acks' = 0 /\ saved' = 0 /\ bytes' = 0
    /\ UNCHANGED outer

\* Mutant: release leaves offset where it is.
KeptOffset(at) == at

\* What release sets offset to.
ReleasedOffset(at) == 0

\* Another user of the pool takes the released buffer, and keeps it or gives
\* it back.
OtherUser ==
    /\ loop = "receive" /\ free # None
    /\ \/ free' = None
       \/ \E end \in {free, free + 1} : free' = ReleasedOffset(end)
    /\ last' = <<>>
    /\ UNCHANGED <<frames, size, offset, released, loop, saved, bytes, outer, read, acks>>

-----------------------------------------------------------------------------
(* The handler                                                              *)

\* Any other datagram: a game packet is released, the rest are not.
HandleOther ==
    /\ loop = "id" /\ offset = 0 /\ frames = <<>>
    /\ loop' = "receive"
    /\ \/ UNCHANGED <<free, last>>
       \/ free' = ReleasedOffset(1) /\ last' = <<>>
    /\ UNCHANGED <<frames, size, offset, released, saved, bytes, outer, read, acks>>

\* The id and the number of the set.
ReadSequence ==
    /\ loop = "id" /\ offset = 0 /\ frames # <<>>
    /\ offset' = 4 /\ loop' = "frames"
    /\ UNCHANGED <<frames, size, released, saved, bytes, outer, read, acks, free, last>>

\* Mutant: the two with a receipt are forgotten.
WithoutReceipt(f) == f.reliability \in {2, 3, 4}

IsReliable(f) == f.reliability \in {2, 3, 4, 6, 7}
IsOrdered(f) == f.reliability \in {1, 3, 4, 7}
IsSequenced(f) == f.reliability \in {1, 4}
IsFragment(f) == f.holds = "part"

\* The bytes the loop reads of a header.
HeaderRead(f) ==
    3 + (IF IsReliable(f) THEN 3 ELSE 0) + (IF IsSequenced(f) THEN 3 ELSE 0)
      + (IF IsOrdered(f) THEN 3 + 1 ELSE 0) + (IF IsFragment(f) THEN 4 + 2 + 4 ELSE 0)

\* The header of a frame; a reliable one is acknowledged.
ReadHeader ==
    /\ loop = "frames" /\ offset < size
    /\ \E k \in DOMAIN frames :
           /\ offset = Start(frames, k)
           /\ read' = Append(read, k)
           /\ bytes' = (frames[k].bits + 7) \div 8
           /\ acks' = IF IsReliable(frames[k]) THEN acks + 1 ELSE acks
           /\ offset' = offset + HeaderRead(frames[k])
    /\ loop' = "content"
    /\ UNCHANGED <<frames, size, released, saved, outer, free, last>>

\* What starts here is no frame or, for a buffer that is not rewound, not the
\* datagram.  The handler takes it for one; what follows is not modelled.
Misread ==
    /\ \/ /\ loop = "frames" /\ offset < size
          /\ \A k \in DOMAIN frames : offset # Start(frames, k)
       \/ loop = "id" /\ offset # 0
    /\ loop' = "lost"
    /\ UNCHANGED <<frames, size, offset, released, saved, bytes, outer, read, acks, free, last>>

This == frames[read[Len(read)]]

\* What the frame holds: a part has been copied and offset is where it was; a
\* packet is read as far as its handler goes, which need not be its end and,
\* for two kinds, starts at byte 17 of the buffer; a game packet is released.
HandleContent ==
    /\ loop = "content" /\ loop' = "advance"
    /\ \/ This.holds = "part" /\ offset' = offset /\ UNCHANGED <<size, released>>
       \/ /\ This.holds = "other"
          /\ \E start \in {offset + 1, 17}, n \in 0 .. MaxRead : offset' = start + n
          /\ UNCHANGED <<size, released>>
       \/ /\ This.holds = "game"
          /\ offset' = ReleasedOffset(offset + 1) /\ size' = 0 /\ released' = TRUE
    /\ saved' = offset
    /\ UNCHANGED <<frames, bytes, outer, read, acks, free, last>>

\* It holds a frame set: handle reads its id and number and loops.
EnterSet ==
    /\ loop = "content" /\ loop' = "frames"
    /\ This.holds = "set"
    /\ offset' = offset + 4
    /\ outer' = Append(outer, [offset |-> offset, bytes |-> bytes])
    /\ UNCHANGED <<frames, size, released, saved, bytes, read, acks, free, last>>

\* packet->setOffset(offset + bytes), whoever has the packet now.
Advance ==
    /\ loop = "advance" /\ loop' = "frames"
    /\ offset' = saved + bytes
    /\ UNCHANGED <<frames, size, released, saved, bytes, outer, read, acks, free, last>>

\* The loop within a frame has ended, at the end of the datagram.
LeaveSet ==
    /\ loop = "frames" /\ ~(offset < size)
    /\ outer # <<>> /\ outer' = SubSeq(outer, 1, Len(outer) - 1)
    /\ loop' = "advance"
    /\ saved' = outer[Len(outer)].offset /\ bytes' = outer[Len(outer)].bytes
    /\ UNCHANGED <<frames, size, offset, released, read, acks, free, last>>

EndOfSet ==
    /\ loop = "frames" /\ ~(offset < size)
    /\ outer = <<>>
    /\ loop' = "receive"
    /\ \/ released /\ free' = offset /\ last' = frames
       \/ (released => free # None) /\ UNCHANGED <<free, last>>
    /\ UNCHANGED <<frames, size, offset, released, saved, bytes, outer, read, acks>>

FrameNext ==
    \/ \E set \in Datagrams : ReceiveSet(set)
    \/ OtherUser \/ HandleOther \/ ReadSequence \/ ReadHeader \/ Misread
    \/ HandleContent \/ EnterSet \/ Advance \/ LeaveSet \/ EndOfSet

FrameSpec == FrameInit /\ [][FrameNext]_frameVars

-----------------------------------------------------------------------------
\* The frames the loop gets to: up to the first game packet, which takes the
\* buffer away from those behind it.
Reached(set) ==
    {k \in DOMAIN set : \A j \in 1 .. k - 1 : set[j].holds # "game"}

\* The loop starts again behind a frame set it has read within a frame.
Repeated(i) ==
    /\ i > 1 /\ read[i - 1] = Len(frames)
    /\ \E j \in 1 .. i - 1 :
           /\ frames[read[j]].holds = "set"
           /\ Start(frames, read[i]) = End(frames, read[j])

\* Wherever the handlers of the contents leave offset, headers are read where
\* the client put them, and a reliable one is acknowledged each time it is
\* read.  They are read in order; only a frame set within a frame makes the
\* loop read a second time what is behind that frame, once it has been to the
\* end of the datagram.  When it is done it has been through all frames but
\* those behind a game packet.
FramesReadInOrder ==
    /\ \A i \in DOMAIN read :
           \/ read[i] = IF i = 1 THEN 1 ELSE read[i - 1] + 1
           \/ Repeated(i)
    /\ acks = Cardinality({i \in DOMAIN read : frames[read[i]].reliability \in Reliable})
    /\ loop = "lost" => read = <<>>
    /\ loop = "receive" => {read[i] : i \in DOMAIN read} = Reached(frames)

\* A released buffer starts at 0 for whoever takes it next, unless a game
\* packet within a frame released it: the loops then move it, the last time
\* behind the frame the outermost of them is at, the first that holds a game
\* packet or a frame set.  Only such a buffer makes the next datagram start in
\* its middle.
OnlyFramedGamesMoveReleased ==
    LET GameFrames == {k \in Reached(last) : last[k].holds = "game"}
        Takers == {k \in Reached(last) : last[k].holds \in {"game", "set"}}
    IN  free # None =>
            IF GameFrames = {} THEN free = 0
            ELSE \E k \in Takers : (\A j \in Takers : k <= j) /\ free = End(last, k)
=============================================================================
