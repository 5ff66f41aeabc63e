----------------------------- MODULE ByteBuffer -----------------------------
(***************************************************************************)
(* One ByteBuffer (src/utils/ByteBuffer.cpp) in the hands of a caller that  *)
(* builds a packet: allocateBuffer, a series of writes, prefixLength,       *)
(* send, release.  The write operations keep the control of the code: the   *)
(* reallocation test of ensureWritable, whose argument is an unsigned       *)
(* short, the loop of writeVarInt one byte per step, the shift of           *)
(* prefixLength, and the one check writeString makes before it writes both  *)
(* a length field and its payload.  A write outside the array is recorded   *)
(* in fault and ends the model.                                             *)
(*                                                                          *)
(* A byte is an integer: 0..255 when it is part of a VarInt the code        *)
(* computes, and a stamp above 255 that names the position it was written   *)
(* at when it is payload, so two payload bytes are never confused.  Junk    *)
(* stands for memory nobody has written since the buffer was taken.         *)
(***************************************************************************)
EXTENDS Integers

\* The numbers below which a value fits in two, three and four 7-bit groups.
Bits14 == 128 * 128
Bits21 == 128 * 128 * 128
Bits28 == 128 * 128 * 128 * 128

\* A value of the type int that is not negative.
IsInt32(value) == value \in Nat /\ value \div 128 < 8 * Bits21

CONSTANTS
    ShortMod,    \* 65536: ensureWritable and writeBytes take an unsigned short
    AllocSizes,  \* the sizes callers pass to allocateBuffer
    PoolSizes,   \* the sizes of the released buffers the pool may hold
    Lengths,     \* the lengths of the strings and byte arrays they write
    Values,      \* the numbers they pass to writeVarInt: ints >= 0
    MaxSize,     \* bound on a packet, so that a run is finite
    MaxOps       \* bound on the write operations between two allocations

ASSUME ByteBufferAssumption ==
    /\ ShortMod \in Nat /\ ShortMod > 8
    /\ AllocSizes \subseteq Nat /\ PoolSizes \subseteq Nat
    /\ Lengths \subseteq Nat
    /\ \A value \in Values : IsInt32(value)
    /\ MaxSize \in Nat /\ MaxSize < Bits28
    /\ MaxOps \in Nat

VARIABLES
    buffer,      \* the allocated array, a function on 0..bufferSize-1
    bufferSize,
    offset,
    size,
    pc,          \* where the caller is; "free" is released = true in the code
    val,         \* writeVarInt: what is left of the value to write
    left,        \* writeShort, writeInt, writeLong: bytes still to write
    copy,        \* writeString: length of the payload still to copy
    reserve,     \* what the caller allocated the buffer for, 0 after a reuse
    ops,         \* write operations since the buffer was taken, at most MaxOps
    log,         \* what has been written, byte i of the packet at index i
    body,        \* size of the packet when prefixLength was called
    fault        \* "overrun" once a write has fallen outside the array

vars == <<buffer, bufferSize, offset, size, pc, val, left, copy,
          reserve, ops, log, body, fault>>

args == <<val, left, copy, reserve, body>>

BUFFER_SIZE == 50
Junk == -1
Stamp(i) == 256 + i

\* Mutant: a group of a VarInt holds eight bits.
EightBitLength(value) == IF value < 256 THEN 1 ELSE 2

VarIntLength(value) ==
    IF value < 128 THEN 1
    ELSE IF value < Bits14 THEN 2
    ELSE IF value < Bits21 THEN 3
    ELSE IF value < Bits28 THEN 4
    ELSE 5

\* Mutant: the bit that says that more bytes follow is left out.
LastDigit(value) == value % 128

\* The byte writeVarInt writes for what is left of its value.
Digit(value) == (value % 128) + (IF value \div 128 # 0 THEN 128 ELSE 0)

\* Conversion of an argument to unsigned short.
UShort(n) == IF n < ShortMod THEN n ELSE n % ShortMod

-----------------------------------------------------------------------------
(* ensureWritable(bytes): the size and the contents of the array after it.  *)
(* A new array receives the first size bytes of the old one.                *)

\* Mutant: the bytes about to be written do not count.
GrowsWhenFull(bytes) == size >= bufferSize

Grows(bytes) == size + UShort(bytes) >= bufferSize

Capacity(bytes) ==
    IF Grows(bytes) THEN bufferSize + UShort(bytes) + BUFFER_SIZE
                    ELSE bufferSize

\* Mutant: new char[] counts the bytes asked for twice, bufferSize once.
ReallocatedWide(bytes) ==
    IF Grows(bytes)
    THEN [i \in 0 .. Capacity(bytes) + UShort(bytes) - 1 |->
              IF i < size /\ i < bufferSize THEN buffer[i] ELSE Junk]
    ELSE buffer

Reallocated(bytes) ==
    IF Grows(bytes)
    THEN [i \in 0 .. Capacity(bytes) - 1 |->
              IF i < size /\ i < bufferSize THEN buffer[i] ELSE Junk]
    ELSE buffer

EnsureWritable(bytes) ==
    /\ bufferSize' = Capacity(bytes)
    /\ buffer' = Reallocated(bytes)

\* The packet with b written at position offset of what has been written.
Inserted(b) ==
    [i \in 0 .. size |->
        IF i < offset THEN log[i] ELSE IF i = offset THEN b ELSE log[i - 1]]

\* writeByte(b): ensureWritable(1); buffer[offset++] = b; size++.
Put(b) ==
    /\ bufferSize' = Capacity(1)
    /\ buffer' = [Reallocated(1) EXCEPT ![offset] = b]
    /\ fault' = IF offset >= Capacity(1) THEN "overrun" ELSE fault
    /\ offset' = offset + 1
    /\ size' = size + 1
    /\ log' = Inserted(b)

\* memcpy(dest + offset, bytes, n) of payload into an array of cap bytes.
Filled(array, cap, n) ==
    [i \in 0 .. cap - 1 |->
        IF i >= offset /\ i < offset + n THEN Stamp(i) ELSE array[i]]

Extended(n) ==
    [i \in 0 .. size + n - 1 |-> IF i < size THEN log[i] ELSE Stamp(i)]

-----------------------------------------------------------------------------
Init ==
    /\ bufferSize = 0 /\ buffer = [i \in 0 .. -1 |-> Junk]
    /\ offset = 0 /\ size = 0
    /\ pc = "free" /\ val = 0 /\ left = 0 /\ copy = 0 /\ reserve = 0 /\ ops = 0
    /\ log = [i \in 0 .. -1 |-> Junk]
    /\ body = 0 /\ fault = "none"

\* allocateBuffer(n): a released buffer of the pool that is large enough, of
\* whatever size its earlier packets have given it, or a new one of n bytes.
AllocateBuffer(n) ==
    /\ pc = "free"
    /\ \E capacity \in {m \in PoolSizes : m >= n} \cup {n} :
           /\ bufferSize' = capacity
           /\ buffer' = [i \in 0 .. capacity - 1 |-> Junk]
    /\ pc' = "idle" /\ reserve' = n /\ ops' = 0
    /\ UNCHANGED <<offset, size, val, left, copy, body, log, fault>>

MayWrite == pc = "idle" /\ ops < MaxOps

WriteByte ==
    /\ MayWrite /\ size < MaxSize
    /\ Put(Stamp(size))
    /\ ops' = ops + 1
    /\ UNCHANGED <<pc, args>>

\* writeBytes(bytes, length): length is an unsigned short as well.
WriteBytes(n) ==
    /\ MayWrite /\ n < ShortMod /\ size + n <= MaxSize
    /\ bufferSize' = Capacity(n)
    /\ buffer' = Filled(Reallocated(n), Capacity(n), n)
    /\ fault' = IF offset + n > Capacity(n) THEN "overrun" ELSE fault
    /\ offset' = offset + n
    /\ size' = size + n
    /\ log' = Extended(n)
    /\ ops' = ops + 1
    /\ UNCHANGED <<pc, args>>

\* writeShort, writeInt, writeLong: ensureWritable(n), then n writeByte.
BeginFixed(n) ==
    /\ MayWrite /\ size + n <= MaxSize
    /\ EnsureWritable(n)
    /\ pc' = "fixed" /\ left' = n
    /\ ops' = ops + 1
    /\ UNCHANGED <<offset, size, val, copy, reserve, log, body, fault>>

\* writeVarInt(value) as an operation of its own.
BeginVarInt(value) ==
    /\ MayWrite /\ size + 5 <= MaxSize
    /\ pc' = "varint" /\ val' = value
    /\ ops' = ops + 1
    /\ UNCHANGED <<buffer, bufferSize, offset, size, left, copy,
                   reserve, log, body, fault>>

\* writeString<int>(value, &writeVarInt): room for sizeof(int) bytes of length
\* and the payload is made once, before either is written.  Nothing bounds the
\* length: Player::connect writes the name the client has sent.
BeginString(n) ==
    /\ MayWrite /\ size + 5 + n <= MaxSize
    /\ EnsureWritable(4 + n)
    /\ pc' = "string-varint" /\ val' = n /\ copy' = n
    /\ ops' = ops + 1
    /\ UNCHANGED <<offset, size, left, reserve, log, body, fault>>

\* writeString<unsigned short>(value, &writeUnsignedShort): what the length
\* loses in the conversion is not written either.
BeginShortString(n) ==
    /\ MayWrite /\ size + 2 + UShort(n) <= MaxSize
    /\ EnsureWritable(2 + UShort(n))
    /\ pc' = "string-fixed" /\ left' = 2 /\ copy' = UShort(n)
    /\ ops' = ops + 1
    /\ UNCHANGED <<offset, size, val, reserve, log, body, fault>>

\* One writeByte of writeShort, writeInt or writeLong.
FixedStep ==
    /\ pc \in {"fixed", "string-fixed"}
    /\ Put(Stamp(size))
    /\ left' = left - 1
    /\ pc' = IF left > 1 THEN pc
             ELSE IF pc = "fixed" THEN "idle" ELSE "string-copy"
    /\ UNCHANGED <<val, copy, reserve, ops, body>>

\* Where the loop of writeVarInt returns to.
AfterVarInt ==
    CASE pc = "varint"        -> "idle"
      [] pc = "string-varint" -> "string-copy"
      [] pc = "prefix"        -> "prefix-end"

\* One iteration of writeVarInt.
VarIntStep ==
    /\ pc \in {"varint", "string-varint", "prefix"}
    /\ Put(Digit(val))
    /\ val' = val \div 128
    /\ pc' = IF val \div 128 # 0 THEN pc ELSE AfterVarInt
    /\ UNCHANGED <<left, copy, reserve, ops, body>>

\* The memcpy of writeString, with no further check of the room.
StringCopy ==
    /\ pc = "string-copy"
    /\ buffer' = Filled(buffer, bufferSize, copy)
    /\ fault' = IF offset + copy > bufferSize THEN "overrun" ELSE fault
    /\ offset' = offset + copy
    /\ size' = size + copy
    /\ log' = Extended(copy)
    /\ copy' = 0
    /\ pc' = "idle"
    /\ UNCHANGED <<bufferSize, val, left, reserve, ops, body>>

\* prefixLength up to its writeVarInt: the content moves up by the length of
\* the prefix, one byte at a time from the last one down.
PrefixLength ==
    /\ pc = "idle"
    /\ LET bytes == VarIntLength(size)
           old == Reallocated(bytes)
       IN  /\ bufferSize' = Capacity(bytes)
           /\ buffer' = [i \in 0 .. Capacity(bytes) - 1 |->
                            IF i >= bytes /\ i < size + bytes
                            THEN old[i - bytes] ELSE old[i]]
           /\ fault' = IF size + bytes > Capacity(bytes) THEN "overrun" ELSE fault
    /\ offset' = 0
    /\ val' = size /\ body' = size
    /\ pc' = "prefix"
    /\ UNCHANGED <<size, left, copy, reserve, ops, log>>

PrefixEnd ==
    /\ pc = "prefix-end"
    /\ offset' = 0
    /\ pc' = "framed"
    /\ UNCHANGED <<buffer, bufferSize, size, args, ops, log, fault>>

\* release(): the array stays, and whoever takes it next sees junk in it.
Release ==
    /\ pc \in {"idle", "framed"}
    /\ offset' = 0 /\ size' = 0
    /\ log' = [i \in 0 .. -1 |-> Junk]
    /\ buffer' = [i \in 0 .. bufferSize - 1 |-> Junk]
    /\ pc' = "free" /\ reserve' = 0 /\ body' = 0
    /\ UNCHANGED <<bufferSize, val, left, copy, ops, fault>>

\* use() right after release(), as Player::connect does between its two
\* packets: the same array is filled again.
Use ==
    /\ pc = "free" /\ ops > 0
    /\ pc' = "idle"
    /\ UNCHANGED <<buffer, bufferSize, offset, size, args, ops, log, fault>>

\* Memory behind the array is overwritten, and the model goes no further.
Undefined == fault = "overrun" /\ UNCHANGED vars

Step ==
    \/ WriteByte
    \/ \E n \in Lengths : WriteBytes(n)
    \/ \E n \in {2, 4, 8} : BeginFixed(n)
    \/ \E value \in Values : BeginVarInt(value)
    \/ \E n \in Lengths : BeginString(n)
    \/ \E n \in Lengths : BeginShortString(n)
    \/ FixedStep
    \/ VarIntStep
    \/ StringCopy
    \/ PrefixLength
    \/ PrefixEnd
    \/ Release
    \/ Use
    \/ \E n \in AllocSizes : AllocateBuffer(n)

Next == (fault = "none" /\ Step) \/ Undefined

Spec == Init /\ [][Next]_vars

-----------------------------------------------------------------------------
Locations == {"idle", "fixed", "varint", "string-varint", "string-fixed",
              "string-copy", "prefix", "prefix-end", "framed", "free"}

Scalars ==
    /\ bufferSize \in Nat /\ offset \in Nat /\ size \in Nat
    /\ pc \in Locations
    /\ val \in Nat /\ left \in Nat /\ copy \in Nat
    /\ reserve \in Nat /\ ops \in Nat /\ body \in Nat
    /\ fault \in {"none", "overrun"}

Arrays ==
    /\ buffer \in [0 .. bufferSize - 1 -> Int]
    /\ log \in [0 .. size - 1 -> Int]

\* The array is as long as bufferSize says, and no field leaves its range.
TypeOK == Scalars /\ Arrays

\* Only the memcpy of a string leaves the allocated array, and only when its
\* length with the length field does not fit in an unsigned short and the
\* caller has not asked allocateBuffer for that much.  So the name of a player
\* from ShortMod - 4 bytes on may overrun the array, while the status response,
\* whose buffer is allocated for its string, never does; and shorter strings
\* are safe although writeString checks once for two writes and counts four
\* bytes for a VarInt that may need five.
OnlyLongStringsOverrun ==
    [][fault' # fault =>
           /\ pc = "string-copy" /\ copy + 4 >= ShortMod
           /\ reserve < size + copy]_vars

\* As long as no write has left the array, it starts between two operations
\* with what was written, in order: no reallocation and no shift loses or
\* moves a byte.
ContentKept ==
    fault = "none" /\ pc \in {"idle", "prefix-end", "framed"} =>
        /\ size <= bufferSize
        /\ \A i \in 0 .. size - 1 : buffer[i] = log[i]

\* readVarInt at the front of the array: its value and the bytes it takes.
\* Sizes stay below 128 ^ 4, so four bytes always suffice.
ReadVarInt ==
    LET n == CHOOSE k \in 1 .. 4 :
                 buffer[k - 1] < 128 /\ \A j \in 1 .. k - 1 : buffer[j - 1] >= 128
        weight == <<1, 128, Bits14, Bits21>>
        part == [k \in 1 .. 4 |->
                    IF k <= n THEN (buffer[k - 1] % 128) * weight[k] ELSE 0]
    IN  [value |-> part[1] + part[2] + part[3] + part[4], bytes |-> n]

\* What prefixLength leaves is a frame JavaPacketHandler::handle can cut out of
\* a stream: its VarInt header announces exactly the bytes that follow it, and
\* those are the packet that was written.
FramedPacketParses ==
    pc = "framed" =>
        /\ ReadVarInt.value = body
        /\ ReadVarInt.bytes + body = size
        /\ \A i \in 0 .. body - 1 :
               buffer[i + ReadVarInt.bytes] = log[i + (size - body)]
=============================================================================
