---------------------------- MODULE PacketEdits -----------------------------
(***************************************************************************)
(* The two callers that write in the middle of a ByteBuffer: sendEncapsu-   *)
(* lated of RakNetPacketHandler, which leaves a gap for the size, and       *)
(* ClientLogin::encryptionResponse, which puts the decoded token over the   *)
(* encoded one in the buffer of its connection.  Each moves offset away     *)
(* from size, and size is all that ensureWritable knows about: it tests and *)
(* copies size bytes, wherever the content ends.                            *)
(*                                                                          *)
(* Writes of one to five bytes by writeByte are one step here: ByteBuffer   *)
(* has them one by one, and where the first has made room for all of them   *)
(* the others make none.                                                    *)
(***************************************************************************)
EXTENDS ByteBuffer

CONSTANTS
    Packets,      \* sizes of the packets that are encapsulated in a datagram
    Expansion,    \* deflate makes a packet longer by at most so many bytes
    CHUNK,        \* 16384: what one call of deflate puts out at most
    Streams       \* [room, size, end]: a connection's buffer, and where the
                  \* token in it ends; another packet may follow

ASSUME EditsAssumption ==
    /\ Packets \subseteq 0 .. ShortMod - 1 /\ Expansion \in Nat
    /\ CHUNK \in Nat /\ 0 < CHUNK /\ CHUNK < ShortMod
    /\ Streams \subseteq [room : Nat, size : Nat, end : Nat]
    /\ \A s \in Streams : 8 <= s.end /\ s.end <= s.size /\ s.size <= s.room

VARIABLES
    stage,       \* what the caller does next
    packet,      \* size of the packet that is encapsulated
    output,      \* bytes deflate makes of it, or -1 when it is sent as it is
    pending,     \* bytes of them still to be written
    room,        \* size of the array the caller got
    bits,        \* the size of the frame in bits, as it has been written
    outside      \* a write has left the array

editVars == <<stage, packet, output, pending, room, bits, outside>>
others == <<pc, val, left, copy, reserve, ops, body, fault>>

EditInit ==
    /\ Init /\ stage = "none"
    /\ packet = 0 /\ output = -1 /\ pending = 0 /\ room = 0 /\ bits = 0
    /\ outside = FALSE

\* The caller holds another buffer than the one ByteBuffer follows, so it can
\* start where that one has not been taken yet.
Idle == stage = "none" /\ pc = "free" /\ ops = 0

Stage(from, to) == stage = from /\ stage' = to

\* n bytes at offset, each a stamp of its position.
Write(n) ==
    /\ bufferSize' = Capacity(n)
    /\ buffer' = Filled(Reallocated(n), Capacity(n), n)
    /\ outside' = (outside \/ offset + n > Capacity(n))
    /\ offset' = offset + n /\ size' = size + n
    /\ log' = Extended(n)
    /\ UNCHANGED <<others, packet, output, room>>

\* setOffset
Seek(position) ==
    /\ offset' = position
    /\ UNCHANGED <<buffer, bufferSize, size, log, others,
                   packet, output, pending, room, bits, outside>>

-----------------------------------------------------------------------------
(* sendEncapsulated                                                         *)

\* Mutant: no room for the header.
BodyOnly(n) == n

\* What it asks allocateBuffer for.
Asked(n) == 10 + n

\* allocateBuffer, for a packet that is sent as it is or deflated.
Encapsulate(n, out) ==
    /\ Idle
    /\ \E m \in {m \in PoolSizes : m >= Asked(n)} \cup {Asked(n)} :
           /\ bufferSize' = m /\ room' = m
           /\ buffer' = [i \in 0 .. m - 1 |-> Junk]
    /\ stage' = "header" /\ packet' = n /\ output' = out
    /\ pending' = IF out = -1 THEN n ELSE out
    /\ UNCHANGED <<offset, size, log, others, bits, outside>>

\* FRAME_SET5, the sequence number, the reliability: no write needs more room.
WriteHeader ==
    /\ Stage("header", IF output = -1 THEN "length" ELSE "skip")
    /\ Write(5) /\ UNCHANGED <<pending, bits>>

SkipSize == Stage("skip", "id") /\ Seek(7)
WriteId == Stage("id", "deflate") /\ Write(1) /\ UNCHANGED <<pending, bits>>

\* One call of deflate and writeBytes of what it has put out.  A full chunk
\* means that there may be more.
WriteChunk ==
    /\ LET n == IF pending < CHUNK THEN pending ELSE CHUNK
       IN  /\ Stage("deflate", IF n < CHUNK THEN "back" ELSE "deflate")
           /\ Write(n) /\ pending' = pending - n
    /\ UNCHANGED bits

GoBack == Stage("back", "size") /\ Seek(5)

\* Mutant: the size counts from the gap.
FrameFromGap == size - 7

\* Bytes of the frame when size lags behind by the two bytes of the gap.
FrameSize == size - 5

WriteSize ==
    /\ Stage("size", "sent")
    /\ Write(2) /\ bits' = UShort(FrameSize * 8) /\ UNCHANGED pending

\* Without deflate: the size, a frame index unless reliability is 0, the packet.
WriteLength ==
    /\ stage = "length" /\ stage' \in {"index", "body"}
    /\ Write(2) /\ bits' = UShort(packet * 8) /\ UNCHANGED pending

WriteIndex == Stage("index", "body") /\ Write(3) /\ UNCHANGED <<pending, bits>>

WriteBody ==
    /\ Stage("body", "sent")
    /\ Write(pending) /\ pending' = 0 /\ UNCHANGED bits

-----------------------------------------------------------------------------
(* encryptionResponse, which has just read the encoded token; packet is the *)
(* size of what has been received and pending where the token ends in it.   *)

TokenArrives(stream) ==
    /\ Idle /\ stage' = "before"
    /\ bufferSize' = stream.room /\ size' = stream.size /\ offset' = stream.end
    /\ buffer' = [i \in 0 .. stream.room - 1 |->
                     IF i < stream.size /\ i \notin stream.end - 4 .. stream.end - 1
                     THEN Stamp(i) ELSE Junk]
    /\ log' = [i \in 0 .. stream.size - 1 |-> Stamp(i)]
    /\ packet' = stream.size /\ pending' = stream.end /\ room' = stream.room
    /\ UNCHANGED <<others, output, bits, outside>>

TokenBack == Stage("before", "token") /\ Seek(offset - 4)
TokenWrite == Stage("token", "resize") /\ Write(4) /\ UNCHANGED <<pending, bits>>

\* Mutant: only offset is moved back.
SizeAfter == size

\* The token has been written over bytes that were counted before.
SizeBefore == size - 4

\* setSize, setOffset and the four reads of readInt, none of which throws.
TokenRead ==
    /\ Stage("resize", "read")
    /\ size' = SizeBefore /\ log' = [i \in 0 .. SizeBefore - 1 |-> Stamp(i)]
    /\ UNCHANGED <<buffer, bufferSize, offset, others,
                   packet, output, pending, room, bits, outside>>

\* The packet has been sent or the token read.  What becomes of the array then
\* is told by ByteBuffer and JavaRelay.
Done ==
    /\ stage \in {"sent", "read"} /\ stage' = "none"
    /\ offset' = 0 /\ size' = 0 /\ log' = [i \in 0 .. -1 |-> Junk]
    /\ bufferSize' = 0 /\ buffer' = [i \in 0 .. -1 |-> Junk]
    /\ packet' = 0 /\ output' = -1 /\ pending' = 0 /\ room' = 0 /\ bits' = 0
    /\ outside' = FALSE
    /\ UNCHANGED others

Edit ==
    \/ \E n \in Packets : \E out \in {-1} \cup (1 .. n + Expansion) : Encapsulate(n, out)
    \/ WriteHeader \/ SkipSize \/ WriteId \/ WriteChunk \/ GoBack \/ WriteSize
    \/ WriteLength \/ WriteIndex \/ WriteBody
    \/ \E stream \in Streams : TokenArrives(stream)
    \/ TokenBack \/ TokenWrite \/ TokenRead
    \/ Done

EditNext == Edit \/ (stage = "none" /\ Next /\ UNCHANGED editVars)

EditSpec == EditInit /\ [][EditNext]_<<vars, editVars>>

-----------------------------------------------------------------------------
\* The array holds what has been written, and no write has left it.
Whole ==
    /\ ~outside /\ size <= bufferSize
    /\ \A i \in 0 .. size - 1 : buffer[i] = Stamp(i)

\* A packet is sent whole unless it is deflated and its bytes, with eight of
\* header, do not stay below the array it was given: then a reallocation
\* copies two bytes less than have been written, or the last byte falls
\* outside.  The array suffices as long as deflate adds one byte at most.
EncapsulatedKept ==
    stage = "sent" =>
        /\ Whole <=> (output = -1 \/ output + 8 < room)
        /\ output <= packet + 1 => Whole

\* The frame announces the bytes that follow its header, the id of the game
\* packet included, as long as their bits can be counted in 16 bits.
SizeAnnounced ==
    stage = "sent" =>
        LET frame == IF output = -1 THEN packet ELSE output + 1
        IN  bits = frame * 8 <=> frame * 8 < ShortMod

\* The token replaces the last four bytes of its packet and nothing else: what
\* was received behind it is kept, size counts it as before, and the next
\* packet begins where it did.
TokenKeepsStream ==
    stage = "read" => Whole /\ size = packet /\ offset = pending
=============================================================================
