----------------------------- MODULE JavaRelay ------------------------------
(***************************************************************************)
(* One direction of a proxied Java connection: WinSockTCP::start receives   *)
(* whatever part of the stream has arrived into the buffer of a Connection  *)
(* and lets JavaPacketHandler::handle cut it into packets, each a VarInt    *)
(* header followed by the number of bytes it announces, which are passed on *)
(* with one send call each.                                                 *)
(*                                                                          *)
(* The bytes of the stream are their positions 0..Total-1.  The buffer      *)
(* always holds a piece of the stream, so its content is given by the       *)
(* position of its first byte.  What the destination has got is the         *)
(* sequence of pieces that the send calls were able to hand over.           *)
(***************************************************************************)
EXTENDS Integers, Sequences

CONSTANTS
    Total,         \* length of the stream
    Frames,        \* the packets: their first position |-> header and length
    Own,           \* packets the proxy answers itself (packetConsumed)
    InitialSize,   \* bufferSize of the buffer: 1024, or 250000 for a server
    Growth,        \* BUFFER_SIZE of ByteBuffer.h: 50
    ShortMod,      \* 65536: ensureWritable takes an unsigned short
    Garbage,       \* lengths read where no packet starts, negative ones too
    MaxRewinds,    \* bound on how often a negative length moves offset back
    Blocking,      \* the destination's socket: TRUE for the sockets made by
                   \* createSocket, FALSE for those accept returns, which
                   \* inherit FIONBIO from the listening socket
    Catches        \* the build lets a string literal, thrown as a const char
                   \* pointer, match a handler of char pointers: FALSE in C++

Starts == DOMAIN Frames
NextStart(s) == s + Frames[s].header + Frames[s].length
Piece(s) == <<s, NextStart(s)>>

ASSUME RelayAssumption ==
    /\ Total \in Nat
    /\ Starts \subseteq 0 .. Total - 1
    /\ Total > 0 => 0 \in Starts
    /\ \A s \in Starts :
           /\ Frames[s].header \in 1 .. 5
           /\ Frames[s].length \in Nat \ {0}
           /\ NextStart(s) \in Starts \cup {Total}
           /\ \A t \in Starts : t <= s \/ NextStart(s) <= t
    /\ Own \subseteq Starts
    /\ InitialSize \in Nat /\ InitialSize >= 5
    /\ Growth \in Nat \ {0}
    /\ ShortMod \in Nat \ {0}
    /\ Garbage \subseteq Int
    /\ MaxRewinds \in Nat
    /\ Blocking \in BOOLEAN /\ Catches \in BOOLEAN

VARIABLES
    base,         \* position in the stream of the first byte of the buffer
    size, offset, bufferSize,    \* of the buffer
    at,           \* "scan": processing is false, the loop polls the socket
                  \* "handle": handle is running
                  \* "wedged": handle has thrown, processing stays true
                  \* "endless": handle reads the same bytes over and over
                  \* "closed": recv has returned 0, the connection is erased
    destination,  \* "up", or "lost" once its socket fails every send
    out,          \* pieces of the stream handed to the destination
    rewinds       \* how often offset has been moved back to what was handled

vars == <<base, size, offset, bufferSize, at, destination, out, rewinds>>

Init ==
    /\ base = 0 /\ size = 0 /\ offset = 0 /\ bufferSize = InitialSize
    /\ at = "scan" /\ destination = "up" /\ out = << >>
    /\ rewinds = 0

Position == base + offset
Received == base + size
Readable == size - offset
UShort(n) == n % ShortMod

-----------------------------------------------------------------------------
(* WinSockTCP::start                                                        *)

\* Mutant: recv is offered the whole array.
WholeArray == bufferSize

\* The bytes recv is asked for.
Room == bufferSize - size

\* recv returns the next n bytes; handle is started on them.
Receive(n) ==
    /\ at = "scan" /\ n <= Room /\ n <= Total - Received
    /\ size' = size + n
    /\ at' = "handle"
    /\ UNCHANGED <<base, offset, bufferSize, destination, out, rewinds>>

\* recv returns 0: the peer has closed its end, or the buffer has no room.
ReceiveZero ==
    /\ at = "scan" /\ (Received = Total \/ Room = 0)
    /\ at' = "closed"
    /\ UNCHANGED <<base, size, offset, bufferSize, destination, out, rewinds>>

-----------------------------------------------------------------------------
(* JavaPacketHandler::handle                                                *)

\* What readVarInt may find where no packet starts.  Only its fifth byte
\* reaches the sign of an int.
Stray == {h \in [header : 1 .. 5, length : Garbage] : h.length < 0 => h.header = 5}

\* What it may find at the current position.
Header == IF Position \in Starts THEN {Frames[Position]} ELSE Stray

\* Mutant: the position the header began at is forgotten.
LengthOnly(h) == h.length

\* The bytes of a packet in the buffer: the header and what it announces.
PacketSize(h) == h.header + h.length

\* Mutant: the size is not reset.
RewindOnly == base' = base /\ size' = size /\ offset' = 0 /\ at' = "scan"

\* After the loop: whatever is left in the buffer is forgotten.
Forget == base' = Received /\ size' = 0 /\ offset' = 0 /\ at' = "scan"

\* Mutant: what is left of the packet is not kept.
Discard == base' = Received /\ size' = 0 /\ offset' = 0

\* The beginning of an incomplete packet moves to the front of the buffer.
Compact == base' = Position /\ size' = Readable /\ offset' = 0

\* Mutant: no room is made.
NoGrowth(h) == bufferSize

\* ensureWritable(length) on what Compact leaves.
Grown(h) ==
    IF Readable + UShort(h.length) >= bufferSize
    THEN bufferSize + UShort(h.length) + Growth
    ELSE bufferSize

\* isReadable
Handling == at = "handle" /\ offset < size

\* All of the buffer has been handled.
Finish ==
    /\ at = "handle" /\ offset >= size
    /\ Forget
    /\ UNCHANGED <<bufferSize, destination, out, rewinds>>

\* readVarInt throws: the header is not there in full or, where no packet
\* starts, five bytes with the bit that more follow are too much.  Unless the
\* build catches it, the call ends with processing still true.
HeaderThrows ==
    /\ Handling
    /\ \E h \in Header : Readable < h.header \/ Position \notin Starts
    /\ IF Catches
       THEN Compact /\ at' = "scan"
       ELSE UNCHANGED <<base, size, offset>> /\ at' = "wedged"
    /\ UNCHANGED <<bufferSize, destination, out, rewinds>>

\* packetConsumed throws: it finds no byte for the id or, where no packet
\* starts, its handler none for a field.  This is never caught.
PacketThrows ==
    /\ Handling
    /\ \E h \in Header :
           /\ Readable >= h.header /\ PacketSize(h) <= Readable
           /\ Readable = h.header \/ Position \notin Starts
    /\ at' = "wedged"
    /\ UNCHANGED <<base, size, offset, bufferSize, destination, out, rewinds>>

\* The header is there but not all it announces: the connection is polled
\* again, with room for the length.
Incomplete ==
    /\ Handling
    /\ \E h \in Header :
           /\ Readable >= h.header /\ PacketSize(h) > Readable
           /\ bufferSize' = Grown(h)
    /\ Compact
    /\ at' = "scan"
    /\ UNCHANGED <<destination, out, rewinds>>

\* The packet is complete, as every packet of a negative length is, and its id
\* can be read.
Complete(h) ==
    /\ Handling
    /\ PacketSize(h) <= Readable /\ Readable > h.header

\* setOffset(offset + length), and the loop goes on.  A sum below 0 is, as an
\* unsigned int, behind everything in the buffer.
Pass(h) ==
    LET next == offset + PacketSize(h)
    IN  /\ offset' = IF next < 0 THEN size ELSE next
        /\ rewinds' = IF 0 <= next /\ next < offset THEN rewinds + 1 ELSE rewinds
        /\ rewinds' <= MaxRewinds
        /\ UNCHANGED <<base, size, bufferSize, at, destination>>

\* The proxy answers the packet itself, drops it because there is no server
\* yet, or sends no bytes of it.  Anything may be taken for such a packet where
\* none starts.
Consume ==
    /\ Position \in Own \/ Position \notin Starts
    /\ \E h \in Header : Complete(h) /\ Pass(h)
    /\ UNCHANGED out

\* setOffset leads back to the same packet, or to one before it, from which
\* the loop comes here again: handle does not return.
Spin ==
    /\ Position \notin Starts
    /\ \E h \in Header : Complete(h) /\ PacketSize(h) <= 0
    /\ at' = "endless"
    /\ UNCHANGED <<base, size, offset, bufferSize, destination, out, rewinds>>

\* send succeeds: all of the packet is handed over.
Forward ==
    /\ Position \notin Own /\ destination = "up"
    /\ \E h \in Header :
           /\ Complete(h) /\ PacketSize(h) > 0 /\ Pass(h)
           /\ out' = Append(out, <<Position, Position + PacketSize(h)>>)

\* A non-blocking socket takes the n bytes its send buffer has room for; send
\* returns n, which is compared with SOCKET_ERROR only.
ForwardPart(n) ==
    /\ ~Blocking /\ Position \notin Own /\ destination = "up"
    /\ \E h \in Header :
           /\ Complete(h) /\ Pass(h) /\ n < PacketSize(h)
           /\ out' = Append(out, <<Position, Position + n>>)

\* send fails, because the destination is gone, a non-blocking socket has no
\* room at all, or the number of bytes is negative: the packet and the rest of
\* the buffer are lost.
ForwardFails ==
    /\ Position \notin Own
    /\ \E h \in Header :
           Complete(h) /\ (destination = "lost" \/ ~Blocking \/ PacketSize(h) < 0)
    /\ Forget
    /\ UNCHANGED <<bufferSize, destination, out, rewinds>>

\* The environment: the destination resets or closes its connection.
LoseDestination ==
    /\ destination = "up"
    /\ destination' = "lost"
    /\ UNCHANGED <<base, size, offset, bufferSize, at, out, rewinds>>

Handle ==
    \/ Finish \/ HeaderThrows \/ PacketThrows \/ Incomplete \/ Consume \/ Spin
    \/ Forward \/ \E n \in 1 .. Total : ForwardPart(n)
    \/ ForwardFails

Ended == at \in {"wedged", "endless", "closed"} /\ UNCHANGED vars

Next ==
    \/ \E n \in 1 .. Total : Receive(n)
    \/ ReceiveZero
    \/ Handle
    \/ LoseDestination
    \/ Ended

\* The loop of WinSockTCP::start polls every connection over and over, as long
\* as the calls of handle return; this one waits only in send, for a server
\* that goes on reading, and is "endless" when it does not return.
Fairness ==
    /\ WF_vars(\E n \in 1 .. Total : Receive(n))
    /\ WF_vars(Handle)

Spec == Init /\ [][Next]_vars /\ Fairness

-----------------------------------------------------------------------------
TypeOK ==
    /\ base \in Nat /\ size \in Nat /\ offset \in Nat /\ bufferSize \in Nat
    /\ offset <= size /\ size <= bufferSize /\ Received <= Total
    /\ at \in {"scan", "handle", "wedged", "endless", "closed"}
    /\ destination \in {"up", "lost"}
    /\ out \in Seq(Nat \X Nat)
    /\ rewinds \in 0 .. MaxRewinds

\* A connection is given up only at the end of its stream: whatever lengths
\* the headers announce, and however they are cut to 16 bits, a connection
\* that is polled has room in its buffer.  Otherwise recv would be asked for 0
\* bytes, return 0, and a live player would be taken for one who has left.
\* The exception is a build that catches what readVarInt throws: a VarInt too
\* big, read where no packet starts, stays in front of a buffer that is never
\* enlarged.
ClosedAtEnd ==
    at = "closed" => Received = Total \/ (Catches /\ Position \notin Starts)

\* While the destination is up, handle is always at the start of a packet:
\* compaction, growth and the split into packets never slip by a byte.
Aligned ==
    Blocking /\ destination = "up" => Position \in Starts \cup {Total}

\* With its destination up, a connection can only get stuck inside a header
\* of two bytes or more that arrived in two pieces, and only if the exception
\* is not caught.
WedgedInHeader ==
    Blocking /\ at = "wedged" /\ destination = "up" =>
        /\ ~Catches
        /\ Position \in Starts
        /\ Readable < Frames[Position].header

\* Partial and failed sends, and the headers that are then read where no packet
\* starts, make the destination get bytes twice or out of order in one way
\* only: by a negative length, which moves offset back; and a server that
\* takes all it is sent is never behind such a one.
NothingTwice ==
    /\ rewinds = 0 => \A i, j \in DOMAIN out : i < j => out[i][2] <= out[j][1]
    /\ Blocking /\ destination = "up" => rewinds = 0

Pipe == INSTANCE PacketPipe
    WITH Segments <- {Piece(s) : s \in Starts \ Own},
         delivered <- out,
         alive <- destination = "up" /\ at # "wedged"

\* The relay is a packet pipe.
PipeSpec == Pipe!Spec

\* handle never stops for good while its connection is open.
NeverWedged == at # "wedged"

\* A packet that is passed on is passed on whole.
PiecesWhole ==
    destination = "up" =>
        \A i \in DOMAIN out :
            out[i][1] \in Starts => out[i] = Piece(out[i][1])
=============================================================================
