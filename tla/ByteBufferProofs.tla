-------------------------- MODULE ByteBufferProofs --------------------------
(***************************************************************************)
(* Theorems about ByteBuffer, for every ShortMod, every set of sizes,       *)
(* lengths and values, and every bound, and about PacketEdits below.        *)
(*                                                                          *)
(* The safety of a write is decided before it happens: ensureWritable makes *)
(* the room, and the bytes are written by later steps that trust it.  The   *)
(* inductive invariant therefore says, for each place the caller can be at, *)
(* how many bytes the operation under way still owes and that the array     *)
(* has room for them.                                                       *)
(***************************************************************************)
EXTENDS PacketEdits, TLAPS

\* Bytes the operation under way has still to write.
Owed ==
    CASE pc = "varint"        -> VarIntLength(val)
      [] pc = "string-varint" -> VarIntLength(val) + copy
      [] pc = "fixed"         -> left
      [] pc = "string-fixed"  -> left + copy
      [] pc = "string-copy"   -> copy
      [] OTHER                -> 0

Framing == {"prefix", "prefix-end", "framed"}
Strings == {"string-varint", "string-fixed", "string-copy"}

Ranges ==
    /\ size <= bufferSize
    /\ reserve <= bufferSize
    /\ IsInt32(val)
    /\ pc \in {"fixed", "string-fixed"} => left > 0
    /\ pc \notin Framing => offset = size /\ size + Owed <= MaxSize
    /\ pc = "free" => size = 0

\* writeString has made the room for all it will write, unless the length it
\* asked for did not fit in an unsigned short.
StringRoom == pc \in Strings /\ copy + 4 < ShortMod => size + Owed <= bufferSize

\* No write has left the array so far.
InBounds == fault = "none"

\* prefixLength has made the room for the whole prefix, so that its
\* writeVarInt never reallocates the array while the content is shifted.
PrefixRoom ==
    pc = "prefix" =>
        /\ size = body + offset
        /\ offset + VarIntLength(val) = VarIntLength(body)
        /\ body + VarIntLength(body) < bufferSize

Content ==
    IF pc = "prefix"
    THEN /\ \A i \in 0 .. offset - 1 : buffer[i] = log[i]
         /\ \A i \in offset .. size - 1 :
                buffer[i + VarIntLength(body) - offset] = log[i]
    ELSE \A i \in 0 .. size - 1 : buffer[i] = log[i]

IInv == Scalars /\ Arrays /\ Ranges /\ StringRoom /\ PrefixRoom /\ InBounds /\ Content

\* What is left once a string has overrun the array.
Overrun == Scalars /\ Arrays /\ pc = "idle" /\ fault = "overrun"

Sound == IInv \/ Overrun

-----------------------------------------------------------------------------
\* How many bytes writeVarInt writes: one more for every 7 bits.
LEMMA VarIntLengthStep ==
    ASSUME NEW v, IsInt32(v)
    PROVE  /\ VarIntLength(v) \in 1 .. 5
           /\ IsInt32(v \div 128) /\ v \div 128 <= v
           /\ v < Bits28 => VarIntLength(v) <= 4
           /\ v \div 128 = 0 => VarIntLength(v) = 1
           /\ v \div 128 # 0 => VarIntLength(v \div 128) = VarIntLength(v) - 1
  BY DEF VarIntLength, IsInt32, Bits14, Bits21, Bits28

\* The byte of a VarInt is a byte.
LEMMA DigitIsInt == \A v \in Nat : Digit(v) \in Int
  BY DEF Digit

\* Conversion to unsigned short is harmless below ShortMod only.
LEMMA UShortRange ==
    ASSUME NEW n \in Nat
    PROVE  UShort(n) \in Nat /\ (n < ShortMod => UShort(n) = n)
  BY ByteBufferAssumption DEF UShort

\* ensureWritable(n): never less room than before, more than the bytes asked
\* for as far as they fit in an unsigned short, and the content kept.
LEMMA EnsureWritableRoom ==
    ASSUME Scalars, Arrays, size <= bufferSize, NEW n \in Nat
    PROVE  /\ Capacity(n) \in Nat
           /\ Capacity(n) >= bufferSize
           /\ size < Capacity(n)
           /\ n < ShortMod => size + n < Capacity(n)
           /\ Reallocated(n) \in [0 .. Capacity(n) - 1 -> Int]
           /\ \A i \in 0 .. size - 1 : Reallocated(n)[i] = buffer[i]
           /\ size + n < bufferSize /\ n < ShortMod =>
                  Capacity(n) = bufferSize /\ Reallocated(n) = buffer
<1>1. UShort(n) \in Nat /\ (n < ShortMod => UShort(n) = n)
  BY UShortRange
<1>2. Capacity(n) \in Nat /\ Capacity(n) >= bufferSize /\ size < Capacity(n)
  BY <1>1 DEF Scalars, Capacity, Grows, BUFFER_SIZE
<1>3. n < ShortMod => size + n < Capacity(n)
  BY <1>1 DEF Scalars, Capacity, Grows, BUFFER_SIZE
<1>4. Reallocated(n) \in [0 .. Capacity(n) - 1 -> Int]
  BY SMTT(60), <1>1, <1>2 DEF Scalars, Arrays, Reallocated, Capacity, Grows, Junk
<1>5. \A i \in 0 .. size - 1 : Reallocated(n)[i] = buffer[i]
  BY <1>1, <1>2 DEF Scalars, Arrays, Reallocated
<1>6. size + n < bufferSize /\ n < ShortMod =>
          Capacity(n) = bufferSize /\ Reallocated(n) = buffer
  BY <1>1 DEF Scalars, Reallocated, Capacity, Grows
<1> QED
  BY <1>2, <1>3, <1>4, <1>5, <1>6

\* writeByte keeps the types and stays in the array.
LEMMA PutTypes ==
    ASSUME Scalars, Arrays, size <= bufferSize, offset <= size,
           NEW b \in Int, Put(b)
    PROVE  /\ bufferSize' = Capacity(1) /\ bufferSize' \in Nat
           /\ bufferSize' >= bufferSize /\ size < bufferSize'
           /\ offset' = offset + 1 /\ size' = size + 1
           /\ Arrays'
           /\ fault' = fault
           /\ buffer' = [Reallocated(1) EXCEPT ![offset] = b]
           /\ log' = Inserted(b)
<1>1. /\ Capacity(1) \in Nat /\ Capacity(1) >= bufferSize /\ size < Capacity(1)
      /\ Reallocated(1) \in [0 .. Capacity(1) - 1 -> Int]
  BY EnsureWritableRoom
<1>2. Inserted(b) \in [0 .. size -> Int]
  BY DEF Scalars, Arrays, Inserted
<1>3. /\ bufferSize' = Capacity(1) /\ offset' = offset + 1 /\ size' = size + 1
      /\ buffer' = [Reallocated(1) EXCEPT ![offset] = b]
      /\ log' = Inserted(b)
  BY DEF Put
<1>4. fault' = fault
  BY <1>1 DEF Scalars, Put
<1>5. buffer' \in [0 .. bufferSize' - 1 -> Int]
  BY <1>1, <1>3
<1>6. log' \in [0 .. size' - 1 -> Int]
  BY <1>2, <1>3 DEF Scalars
<1> QED
  BY <1>1, <1>3, <1>4, <1>5, <1>6 DEF Arrays

\* Appending a byte keeps the content.
LEMMA PutAppends ==
    ASSUME Scalars, Arrays, size <= bufferSize, offset = size,
           NEW b \in Int, Put(b),
           \A i \in 0 .. size - 1 : buffer[i] = log[i]
    PROVE  \A i \in 0 .. size' - 1 : buffer'[i] = log'[i]
<1>1. /\ \A i \in 0 .. size - 1 : Reallocated(1)[i] = buffer[i]
      /\ Reallocated(1) \in [0 .. Capacity(1) - 1 -> Int]
      /\ Capacity(1) \in Nat /\ size < Capacity(1)
  BY EnsureWritableRoom
<1>2. /\ size' = size + 1
      /\ buffer' = [Reallocated(1) EXCEPT ![offset] = b]
      /\ log' = Inserted(b)
  BY DEF Put
<1> QED
  BY <1>1, <1>2 DEF Scalars, Inserted

\* The payload of writeBytes and of writeString lands inside an array that has
\* room for it, after what was written before.
LEMMA FilledAppends ==
    ASSUME Scalars, Arrays, offset = size, NEW n \in Nat, NEW cap \in Nat,
           size + n <= cap, NEW array \in [0 .. cap - 1 -> Int],
           \A i \in 0 .. size - 1 : array[i] = log[i]
    PROVE  /\ Filled(array, cap, n) \in [0 .. cap - 1 -> Int]
           /\ Extended(n) \in [0 .. size + n - 1 -> Int]
           /\ \A i \in 0 .. size + n - 1 : Filled(array, cap, n)[i] = Extended(n)[i]
<1>1. Filled(array, cap, n) \in [0 .. cap - 1 -> Int]
  BY DEF Scalars, Filled, Stamp
<1>2. Extended(n) \in [0 .. size + n - 1 -> Int]
  BY DEF Scalars, Arrays, Extended, Stamp
<1>3. \A i \in 0 .. size + n - 1 : Filled(array, cap, n)[i] = Extended(n)[i]
  BY DEF Scalars, Filled, Extended
<1> QED
  BY <1>1, <1>2, <1>3

-----------------------------------------------------------------------------
LEMMA InitIInv == Init => IInv
<1> SUFFICES ASSUME Init PROVE IInv
  OBVIOUS
<1>1. Scalars
  BY DEF Init, Scalars, Locations
<1>2. Arrays
  BY DEF Init, Arrays, Junk
<1>3. Ranges
  BY ByteBufferAssumption DEF Init, Ranges, Owed, Framing, IsInt32, Bits21
<1>4. StringRoom /\ PrefixRoom /\ Content /\ InBounds
  BY DEF Init, StringRoom, PrefixRoom, Content, Strings, InBounds
<1> QED
  BY <1>1, <1>2, <1>3, <1>4 DEF IInv

\* allocateBuffer
LEMMA AllocateStep ==
    ASSUME IInv, NEW n \in AllocSizes, AllocateBuffer(n)
    PROVE  IInv'
<1>1. n \in Nat /\ PoolSizes \subseteq Nat
  BY ByteBufferAssumption
<1>2. PICK capacity \in {m \in PoolSizes : m >= n} \cup {n} :
          /\ bufferSize' = capacity
          /\ buffer' = [i \in 0 .. capacity - 1 |-> Junk]
  BY DEF AllocateBuffer
<1>3. capacity \in Nat /\ capacity >= n
  BY <1>1
<1>4. /\ pc = "free" /\ pc' = "idle" /\ size' = 0 /\ offset' = 0
      /\ reserve' = n /\ val' = val /\ left' = left /\ log' = log
  BY DEF AllocateBuffer, IInv, Ranges, Framing
<1>5. Scalars'
  BY <1>1, <1>2, <1>3 DEF AllocateBuffer, IInv, Scalars, Locations
<1>6. Arrays'
  BY <1>2, <1>3, <1>4 DEF AllocateBuffer, IInv, Arrays, Junk
<1>7. Ranges'
  BY <1>1, <1>2, <1>3, <1>4, ByteBufferAssumption
  DEF IInv, Scalars, Ranges, Owed, Framing
<1>8. (StringRoom /\ PrefixRoom /\ Content /\ InBounds)'
  BY <1>4 DEF AllocateBuffer, IInv, StringRoom, PrefixRoom, Content, InBounds, Strings
<1> QED
  BY <1>5, <1>6, <1>7, <1>8 DEF IInv

\* writeByte
LEMMA WriteByteStep ==
    ASSUME IInv, WriteByte
    PROVE  IInv'
<1>1. Stamp(size) \in Int /\ Put(Stamp(size)) /\ pc = "idle" /\ pc' = "idle"
  BY DEF WriteByte, MayWrite, Stamp, IInv, Scalars, args
<1>2. /\ Scalars /\ Arrays /\ size <= bufferSize /\ offset = size
      /\ \A i \in 0 .. size - 1 : buffer[i] = log[i]
  BY <1>1 DEF IInv, Ranges, Framing, Content
<1>3. \A i \in 0 .. size' - 1 : buffer'[i] = log'[i]
  BY <1>1, <1>2, PutAppends
<1>4. /\ bufferSize' \in Nat /\ bufferSize' >= bufferSize /\ size < bufferSize'
      /\ offset' = offset + 1 /\ size' = size + 1 /\ fault' = fault
      /\ Arrays'
  BY <1>1, <1>2, PutTypes DEF Scalars
<1>5. Scalars'
  BY <1>1, <1>4 DEF WriteByte, IInv, Scalars, args
<1>6. Ranges'
  BY <1>1, <1>2, <1>4, ByteBufferAssumption
  DEF WriteByte, IInv, Scalars, Ranges, Owed, Framing, args
<1>7. (StringRoom /\ PrefixRoom /\ Content /\ InBounds)'
  BY <1>1, <1>3, <1>4 DEF IInv, StringRoom, PrefixRoom, Content, InBounds, Strings
<1> QED
  BY <1>4, <1>5, <1>6, <1>7 DEF IInv

\* writeBytes
LEMMA WriteBytesStep ==
    ASSUME IInv, NEW n \in Lengths, WriteBytes(n)
    PROVE  IInv'
<1>1. n \in Nat /\ n < ShortMod /\ pc = "idle" /\ pc' = "idle"
  BY ByteBufferAssumption DEF WriteBytes, MayWrite, args
<1>2. /\ Scalars /\ Arrays /\ size <= bufferSize /\ offset = size
      /\ \A i \in 0 .. size - 1 : buffer[i] = log[i]
  BY <1>1 DEF IInv, Ranges, Framing, Content
<1>3. /\ Capacity(n) \in Nat /\ Capacity(n) >= bufferSize
      /\ size + n < Capacity(n)
      /\ Reallocated(n) \in [0 .. Capacity(n) - 1 -> Int]
      /\ \A i \in 0 .. size - 1 : Reallocated(n)[i] = buffer[i]
  BY <1>1, <1>2, EnsureWritableRoom
<1>4. /\ bufferSize' = Capacity(n) /\ size' = size + n /\ offset' = offset + n
      /\ buffer' = Filled(Reallocated(n), Capacity(n), n)
      /\ log' = Extended(n)
      /\ fault' = IF offset + n > Capacity(n) THEN "overrun" ELSE fault
  BY DEF WriteBytes
<1>5. fault' = fault
  BY <1>1, <1>2, <1>3, <1>4 DEF Scalars
<1>6. Arrays' /\ \A i \in 0 .. size' - 1 : buffer'[i] = log'[i]
  <2>1. size + n <= Capacity(n) /\ \A i \in 0 .. size - 1 : Reallocated(n)[i] = log[i]
    BY <1>1, <1>2, <1>3 DEF Scalars
  <2>2. /\ Filled(Reallocated(n), Capacity(n), n) \in [0 .. Capacity(n) - 1 -> Int]
        /\ Extended(n) \in [0 .. size + n - 1 -> Int]
        /\ \A i \in 0 .. size + n - 1 :
               Filled(Reallocated(n), Capacity(n), n)[i] = Extended(n)[i]
    BY <1>1, <1>2, <1>3, <2>1, FilledAppends, Zenon
  <2>3. buffer' \in [0 .. bufferSize' - 1 -> Int]
    BY <1>4, <2>2
  <2>4. log' \in [0 .. size' - 1 -> Int]
    BY <1>1, <1>2, <1>4, <2>2 DEF Scalars
  <2>5. \A i \in 0 .. size' - 1 : buffer'[i] = log'[i]
    BY <1>1, <1>2, <1>4, <2>2 DEF Scalars
  <2> QED
    BY <2>3, <2>4, <2>5 DEF Arrays
<1>7. Scalars'
  BY <1>1, <1>3, <1>4, <1>5 DEF WriteBytes, IInv, Scalars, args
<1>8. Ranges'
  BY SMTT(60), <1>1, <1>2, <1>3, <1>4, ByteBufferAssumption
  DEF WriteBytes, IInv, Scalars, Ranges, Owed, Framing, args
<1>9. (StringRoom /\ PrefixRoom /\ Content /\ InBounds)'
  BY <1>1, <1>5, <1>6 DEF IInv, StringRoom, PrefixRoom, Content, InBounds, Strings
<1> QED
  BY <1>6, <1>7, <1>8, <1>9 DEF IInv

\* What every operation that first makes room has in common.
LEMMA MakeRoom ==
    ASSUME IInv, pc = "idle", NEW n \in Nat, EnsureWritable(n),
           size' = size, log' = log
    PROVE  /\ bufferSize' \in Nat /\ bufferSize' >= bufferSize
           /\ n < ShortMod => size + n < bufferSize'
           /\ Arrays'
           /\ \A i \in 0 .. size' - 1 : buffer'[i] = log'[i]
           /\ offset = size /\ size <= bufferSize /\ reserve <= bufferSize
<1>1. /\ Scalars /\ Arrays /\ size <= bufferSize /\ offset = size
      /\ reserve <= bufferSize
      /\ \A i \in 0 .. size - 1 : buffer[i] = log[i]
  BY DEF IInv, Ranges, Framing, Content
<1>2. /\ Capacity(n) \in Nat /\ Capacity(n) >= bufferSize
      /\ n < ShortMod => size + n < Capacity(n)
      /\ Reallocated(n) \in [0 .. Capacity(n) - 1 -> Int]
      /\ \A i \in 0 .. size - 1 : Reallocated(n)[i] = buffer[i]
  BY <1>1, EnsureWritableRoom
<1>3. bufferSize' = Capacity(n) /\ buffer' = Reallocated(n)
  BY DEF EnsureWritable
<1>4. Arrays'
  BY <1>1, <1>2, <1>3 DEF Arrays
<1>5. \A i \in 0 .. size' - 1 : buffer'[i] = log'[i]
  BY <1>1, <1>2, <1>3 DEF Scalars
<1> QED
  BY <1>1, <1>2, <1>3, <1>4, <1>5

\* writeShort, writeInt, writeLong: the room is made
LEMMA BeginFixedStep ==
    ASSUME IInv, NEW n \in {2, 4, 8}, BeginFixed(n)
    PROVE  IInv'
<1>1. n \in Nat /\ n > 0 /\ EnsureWritable(n) /\ pc = "idle" /\ pc' = "fixed"
  BY DEF BeginFixed, MayWrite
<1>2. /\ size' = size /\ log' = log /\ offset' = offset /\ fault' = fault
      /\ left' = n /\ val' = val /\ copy' = copy /\ reserve' = reserve
      /\ body' = body /\ ops' = ops + 1 /\ size + n <= MaxSize
  BY DEF BeginFixed
<1>3. /\ bufferSize' \in Nat /\ bufferSize' >= bufferSize /\ Arrays'
      /\ \A i \in 0 .. size' - 1 : buffer'[i] = log'[i]
      /\ offset = size /\ size <= bufferSize /\ reserve <= bufferSize
  BY <1>1, <1>2, MakeRoom
<1>4. Scalars'
  BY <1>1, <1>2, <1>3 DEF IInv, Scalars, Locations
<1>5. Ranges'
  BY <1>1, <1>2, <1>3 DEF IInv, Scalars, Ranges, Owed, Framing
<1>6. (StringRoom /\ PrefixRoom /\ Content /\ InBounds)'
  BY <1>1, <1>2, <1>3 DEF IInv, StringRoom, PrefixRoom, Content, InBounds, Strings
<1> QED
  BY <1>3, <1>4, <1>5, <1>6 DEF IInv

\* writeVarInt as an operation of its own: nothing is written yet
LEMMA BeginVarIntStep ==
    ASSUME IInv, NEW value \in Values, BeginVarInt(value)
    PROVE  IInv'
<1>1. IsInt32(value) /\ pc = "idle" /\ pc' = "varint" /\ val' = value
  BY ByteBufferAssumption DEF BeginVarInt, MayWrite
<1>2. /\ buffer' = buffer /\ bufferSize' = bufferSize /\ size' = size
      /\ log' = log /\ offset' = offset /\ fault' = fault /\ left' = left
      /\ copy' = copy /\ reserve' = reserve /\ body' = body /\ ops' = ops + 1
      /\ size + 5 <= MaxSize
  BY DEF BeginVarInt
<1>3. VarIntLength(value) \in 1 .. 5
  BY <1>1, VarIntLengthStep
<1>4. Scalars'
  BY <1>1, <1>2 DEF IInv, Scalars, Locations, IsInt32
<1>5. Arrays'
  BY <1>2 DEF IInv, Arrays
<1>6. Ranges'
  BY <1>1, <1>2, <1>3, ByteBufferAssumption
  DEF IInv, Scalars, Ranges, Owed, Framing
<1>7. (StringRoom /\ PrefixRoom /\ Content /\ InBounds)'
  BY <1>1, <1>2 DEF IInv, StringRoom, PrefixRoom, Content, InBounds, Strings
<1> QED
  BY <1>4, <1>5, <1>6, <1>7 DEF IInv

\* writeString<int>: the room is made for four bytes of length and the payload
LEMMA BeginStringStep ==
    ASSUME IInv, NEW n \in Lengths, BeginString(n)
    PROVE  IInv'
<1>1. /\ n \in Nat /\ 4 + n \in Nat /\ EnsureWritable(4 + n)
      /\ pc = "idle" /\ pc' = "string-varint"
  BY ByteBufferAssumption DEF BeginString, MayWrite
<1>2. /\ size' = size /\ log' = log /\ offset' = offset /\ fault' = fault
      /\ left' = left /\ val' = n /\ copy' = n /\ reserve' = reserve
      /\ body' = body /\ ops' = ops + 1 /\ size + 5 + n <= MaxSize
  BY DEF BeginString
<1>3. /\ bufferSize' \in Nat /\ bufferSize' >= bufferSize /\ Arrays'
      /\ 4 + n < ShortMod => size + (4 + n) < bufferSize'
      /\ \A i \in 0 .. size' - 1 : buffer'[i] = log'[i]
      /\ offset = size /\ size <= bufferSize /\ reserve <= bufferSize
  BY <1>1, <1>2, MakeRoom
<1>4. n < Bits28 /\ IsInt32(n)
  BY <1>1, <1>2, ByteBufferAssumption DEF IInv, Scalars, IsInt32, Bits21, Bits28
<1>5. VarIntLength(n) \in 1 .. 4
  BY <1>4, VarIntLengthStep
<1>6. Scalars'
  BY <1>1, <1>2, <1>3 DEF IInv, Scalars, Locations
<1>7. Ranges'
  BY <1>1, <1>2, <1>3, <1>4, <1>5, ByteBufferAssumption
  DEF IInv, Scalars, Ranges, Owed, Framing
<1>8. StringRoom'
  BY <1>1, <1>2, <1>3, <1>5 DEF IInv, Scalars, StringRoom, Owed, Strings
<1>9. (PrefixRoom /\ Content /\ InBounds)'
  BY <1>1, <1>2, <1>3 DEF IInv, PrefixRoom, Content, InBounds
<1> QED
  BY <1>3, <1>6, <1>7, <1>8, <1>9 DEF IInv

\* writeString<unsigned short>
LEMMA BeginShortStringStep ==
    ASSUME IInv, NEW n \in Lengths, BeginShortString(n)
    PROVE  IInv'
<1> DEFINE m == UShort(n)
<1>1. /\ m \in Nat /\ 2 + m \in Nat /\ EnsureWritable(2 + m)
      /\ pc = "idle" /\ pc' = "string-fixed"
  BY UShortRange, ByteBufferAssumption DEF BeginShortString, MayWrite
<1>2. /\ size' = size /\ log' = log /\ offset' = offset /\ fault' = fault
      /\ left' = 2 /\ val' = val /\ copy' = m /\ reserve' = reserve
      /\ body' = body /\ ops' = ops + 1 /\ size + 2 + m <= MaxSize
  BY DEF BeginShortString
<1> HIDE DEF m
<1>3. /\ bufferSize' \in Nat /\ bufferSize' >= bufferSize /\ Arrays'
      /\ 2 + m < ShortMod => size + (2 + m) < bufferSize'
      /\ \A i \in 0 .. size' - 1 : buffer'[i] = log'[i]
      /\ offset = size /\ size <= bufferSize /\ reserve <= bufferSize
  BY <1>1, <1>2, MakeRoom
<1>4. Scalars'
  BY <1>1, <1>2, <1>3 DEF IInv, Scalars, Locations
<1>5. Ranges'
  BY <1>1, <1>2, <1>3, ByteBufferAssumption
  DEF IInv, Scalars, Ranges, Owed, Framing
<1>6. StringRoom'
  BY <1>1, <1>2, <1>3, ByteBufferAssumption DEF IInv, Scalars, StringRoom, Owed, Strings
<1>7. (PrefixRoom /\ Content /\ InBounds)'
  BY <1>1, <1>2, <1>3 DEF IInv, PrefixRoom, Content, InBounds
<1> QED
  BY <1>3, <1>4, <1>5, <1>6, <1>7 DEF IInv

\* One writeByte of an operation under way that appends.
LEMMA Appends ==
    ASSUME IInv, pc \notin Framing, NEW b \in Int, Put(b)
    PROVE  /\ bufferSize' \in Nat /\ bufferSize' >= bufferSize
           /\ size < bufferSize' /\ offset = size
           /\ offset' = offset + 1 /\ size' = size + 1 /\ fault' = fault
           /\ Arrays'
           /\ \A i \in 0 .. size' - 1 : buffer'[i] = log'[i]
<1>1. /\ Scalars /\ Arrays /\ size <= bufferSize /\ offset = size
      /\ \A i \in 0 .. size - 1 : buffer[i] = log[i]
  BY DEF IInv, Ranges, Framing, Content
<1>2. offset <= size
  BY <1>1 DEF Scalars
<1> QED
  BY <1>1, <1>2, PutTypes, PutAppends

\* One byte of writeShort, writeInt or writeLong
LEMMA FixedStepStep ==
    ASSUME IInv, FixedStep
    PROVE  IInv'
<1>1. /\ Stamp(size) \in Int /\ Put(Stamp(size))
      /\ pc \in {"fixed", "string-fixed"} /\ pc \notin Framing
  BY DEF FixedStep, Stamp, IInv, Scalars, Framing
<1>2. /\ left' = left - 1 /\ val' = val /\ copy' = copy /\ reserve' = reserve
      /\ body' = body /\ ops' = ops
      /\ pc' = IF left > 1 THEN pc
               ELSE IF pc = "fixed" THEN "idle" ELSE "string-copy"
  BY DEF FixedStep
<1>3. /\ bufferSize' \in Nat /\ bufferSize' >= bufferSize
      /\ size < bufferSize' /\ offset = size
      /\ offset' = offset + 1 /\ size' = size + 1 /\ fault' = fault
      /\ Arrays'
      /\ \A i \in 0 .. size' - 1 : buffer'[i] = log'[i]
  BY <1>1, Appends
<1>4. left > 0
  BY <1>1 DEF IInv, Ranges
<1>5. Scalars'
  BY <1>1, <1>2, <1>3, <1>4 DEF IInv, Scalars, Locations
<1>6. Ranges'
  BY <1>1, <1>2, <1>3, <1>4, ByteBufferAssumption
  DEF IInv, Scalars, Ranges, Owed, Framing
<1>7. StringRoom'
  BY <1>1, <1>2, <1>3, <1>4 DEF IInv, Scalars, StringRoom, Owed, Strings
<1>8. (PrefixRoom /\ Content /\ InBounds)'
  BY <1>1, <1>2, <1>3 DEF IInv, PrefixRoom, Content, InBounds
<1> QED
  BY <1>3, <1>5, <1>6, <1>7, <1>8 DEF IInv

\* One iteration of writeVarInt while it appends
LEMMA VarIntAppendStep ==
    ASSUME IInv, VarIntStep, pc # "prefix"
    PROVE  IInv'
<1>1. /\ Digit(val) \in Int /\ Put(Digit(val))
      /\ pc \in {"varint", "string-varint"} /\ pc \notin Framing
  BY DigitIsInt DEF VarIntStep, IInv, Scalars, Framing
<1>2. /\ left' = left /\ val' = val \div 128 /\ copy' = copy
      /\ reserve' = reserve /\ body' = body /\ ops' = ops
      /\ pc' = IF val \div 128 # 0 THEN pc
               ELSE IF pc = "varint" THEN "idle" ELSE "string-copy"
  BY <1>1 DEF VarIntStep, AfterVarInt
<1>3. /\ bufferSize' \in Nat /\ bufferSize' >= bufferSize
      /\ size < bufferSize' /\ offset = size
      /\ offset' = offset + 1 /\ size' = size + 1 /\ fault' = fault
      /\ Arrays'
      /\ \A i \in 0 .. size' - 1 : buffer'[i] = log'[i]
  BY <1>1, Appends
<1>4. /\ VarIntLength(val) \in 1 .. 5 /\ IsInt32(val \div 128)
      /\ val \div 128 = 0 => VarIntLength(val) = 1
      /\ val \div 128 # 0 => VarIntLength(val \div 128) = VarIntLength(val) - 1
  BY VarIntLengthStep DEF IInv, Ranges
<1>5. Scalars'
  BY <1>1, <1>2, <1>3, <1>4 DEF IInv, Scalars, Locations, IsInt32
<1>6. Ranges'
  <2>1. CASE val \div 128 # 0
    <3>1. pc' = pc /\ VarIntLength(val') = VarIntLength(val) - 1
      BY <2>1, <1>2, <1>4
    <3>2. Owed' = Owed - 1 /\ Owed \in Nat
      BY <3>1, <1>1, <1>2, <1>4 DEF Owed, IInv, Scalars
    <3> QED
      BY <3>1, <3>2, <1>1, <1>2, <1>3, <1>4, ByteBufferAssumption
      DEF IInv, Scalars, Ranges, Framing
  <2>2. CASE val \div 128 = 0
    <3>1. pc' = (IF pc = "varint" THEN "idle" ELSE "string-copy")
      BY <2>2, <1>2
    <3>2. Owed' = Owed - 1 /\ Owed \in Nat
      BY <2>2, <3>1, <1>1, <1>2, <1>4 DEF Owed, IInv, Scalars
    <3> QED
      BY <3>1, <3>2, <1>1, <1>2, <1>3, <1>4, ByteBufferAssumption
      DEF IInv, Scalars, Ranges, Framing
  <2> QED
    BY <2>1, <2>2
<1>7. StringRoom'
  <2>1. CASE pc = "varint"
    BY <2>1, <1>2 DEF StringRoom, Strings
  <2>2. CASE pc = "string-varint"
    <3> SUFFICES ASSUME copy + 4 < ShortMod PROVE StringRoom'
      BY <1>2 DEF StringRoom
    <3>1. size + VarIntLength(val) + copy <= bufferSize
      BY <2>2, <1>4 DEF IInv, Scalars, StringRoom, Strings, Owed
    <3>2. CASE val \div 128 # 0
      <4>1. pc' = "string-varint" /\ VarIntLength(val') = VarIntLength(val) - 1
        BY <3>2, <2>2, <1>2, <1>4
      <4>2. Owed' = VarIntLength(val') + copy'
        BY <4>1 DEF Owed
      <4> QED
        BY <3>1, <4>1, <4>2, <1>2, <1>3, <1>4 DEF IInv, Scalars, StringRoom
    <3>3. CASE val \div 128 = 0
      BY <3>1, <3>3, <2>2, <1>2, <1>3, <1>4
      DEF Owed, IInv, Scalars, StringRoom
    <3> QED
      BY <3>2, <3>3
  <2> QED
    BY <2>1, <2>2, <1>1
<1>8. (PrefixRoom /\ Content /\ InBounds)'
  BY <1>1, <1>2, <1>3 DEF IInv, PrefixRoom, Content, InBounds
<1> QED
  BY <1>3, <1>5, <1>6, <1>7, <1>8 DEF IInv

\* One iteration of writeVarInt in prefixLength: the byte falls in the gap the
\* shift has left, and the array is not reallocated.
LEMMA VarIntPrefixStep ==
    ASSUME IInv, VarIntStep, pc = "prefix"
    PROVE  IInv'
<1> DEFINE gap == VarIntLength(body)
<1>1. /\ Scalars /\ Arrays /\ size <= bufferSize
      /\ size = body + offset /\ offset + VarIntLength(val) = gap
      /\ body + gap < bufferSize
      /\ \A i \in 0 .. offset - 1 : buffer[i] = log[i]
      /\ \A i \in offset .. size - 1 : buffer[i + gap - offset] = log[i]
  BY DEF IInv, Ranges, PrefixRoom, Content
<1>2. /\ VarIntLength(val) \in 1 .. 5 /\ IsInt32(val \div 128)
      /\ val \div 128 = 0 => VarIntLength(val) = 1
      /\ val \div 128 # 0 => VarIntLength(val \div 128) = VarIntLength(val) - 1
  BY VarIntLengthStep DEF IInv, Ranges
<1>3. gap \in 1 .. 5
  BY DEF VarIntLength
<1>4. Put(Digit(val)) /\ Digit(val) \in Int
  BY DigitIsInt DEF VarIntStep, IInv, Scalars
<1>5. /\ left' = left /\ val' = val \div 128 /\ copy' = copy
      /\ reserve' = reserve /\ body' = body /\ ops' = ops
      /\ pc' = IF val \div 128 # 0 THEN "prefix" ELSE "prefix-end"
  BY DEF VarIntStep, AfterVarInt
<1>6. offset <= size /\ size + 1 < bufferSize
  BY <1>1, <1>2, <1>3 DEF Scalars
<1>7. /\ bufferSize' = bufferSize /\ offset' = offset + 1 /\ size' = size + 1
      /\ fault' = fault /\ Arrays'
      /\ buffer' = [buffer EXCEPT ![offset] = Digit(val)]
      /\ log' = Inserted(Digit(val))
  <2>1. Capacity(1) = bufferSize /\ Reallocated(1) = buffer
    BY <1>1, <1>6, EnsureWritableRoom, ByteBufferAssumption
  <2> QED
    BY <2>1, <1>1, <1>4, <1>6, PutTypes
<1>8. /\ \A i \in 0 .. offset' - 1 : buffer'[i] = log'[i]
      /\ \A i \in offset' .. size' - 1 : buffer'[i + gap - offset'] = log'[i]
  <2>1. \A i \in 0 .. offset : buffer'[i] = log'[i]
    BY <1>1, <1>6, <1>7 DEF Scalars, Arrays, Inserted
  <2>2. ASSUME NEW i \in offset + 1 .. size
        PROVE  buffer'[i + gap - (offset + 1)] = log'[i]
    <3>1. log'[i] = log[i - 1]
      BY <1>1, <1>7 DEF Scalars, Inserted
    <3>2. i - 1 \in offset .. size - 1
      BY <1>1 DEF Scalars
    <3>3. buffer[(i - 1) + gap - offset] = log[i - 1]
      BY <1>1, <3>2
    <3>4. (i - 1) + gap - offset = i + gap - (offset + 1)
      BY <1>1, <1>3 DEF Scalars
    <3>5. i + gap - (offset + 1) # offset
      BY <1>1, <1>2, <1>3 DEF Scalars
    <3>6. i + gap - (offset + 1) \in 0 .. bufferSize - 1
      BY <1>1, <1>2, <1>3 DEF Scalars
    <3> QED
      BY <1>1, <1>7, <3>1, <3>3, <3>4, <3>5, <3>6 DEF Arrays
  <2> QED
    BY <1>1, <1>7, <2>1, <2>2 DEF Scalars
<1>9. Scalars'
  BY <1>1, <1>2, <1>5, <1>7 DEF Scalars, Locations, IsInt32
<1>10. Ranges'
  BY <1>1, <1>2, <1>5, <1>6, <1>7 DEF IInv, Scalars, Ranges, Framing
<1>11. PrefixRoom'
  <2>1. gap' = gap
    BY <1>5
  <2> QED
    BY <1>1, <1>2, <1>3, <1>5, <1>7, <2>1 DEF Scalars, PrefixRoom
<1>12. Content'
  <2>1. CASE val \div 128 # 0
    BY <2>1, <1>5, <1>8 DEF Content
  <2>2. CASE val \div 128 = 0
    <3>1. pc' = "prefix-end" /\ gap = offset'
      BY <2>2, <1>1, <1>2, <1>5, <1>7 DEF Scalars
    <3>2. \A i \in offset' .. size' - 1 : buffer'[i] = log'[i]
      BY <1>1, <1>7, <1>8, <3>1 DEF Scalars
    <3> QED
      BY <1>1, <1>7, <1>8, <3>1, <3>2 DEF Scalars, Content
  <2> QED
    BY <2>1, <2>2
<1>13. (StringRoom /\ InBounds)'
  BY <1>5, <1>7 DEF IInv, StringRoom, InBounds, Strings
<1> QED
  BY <1>7, <1>9, <1>10, <1>11, <1>12, <1>13 DEF IInv

\* The memcpy of writeString, when the array has room for it
LEMMA StringCopyStep ==
    ASSUME IInv, StringCopy, size + copy <= bufferSize
    PROVE  IInv'
<1>1. /\ Scalars /\ Arrays /\ size <= bufferSize /\ offset = size
      /\ size + copy <= bufferSize /\ size + copy <= MaxSize
      /\ \A i \in 0 .. size - 1 : buffer[i] = log[i]
      /\ pc = "string-copy" /\ pc' = "idle"
  BY DEF StringCopy, IInv, Ranges, Framing, Content, Owed
<1>2. /\ buffer' = Filled(buffer, bufferSize, copy) /\ log' = Extended(copy)
      /\ bufferSize' = bufferSize
      /\ offset' = offset + copy /\ size' = size + copy /\ copy' = 0
      /\ val' = val /\ left' = left /\ reserve' = reserve /\ body' = body
      /\ ops' = ops
      /\ fault' = IF offset + copy > bufferSize THEN "overrun" ELSE fault
  BY DEF StringCopy
<1>3. fault' = fault
  BY <1>1, <1>2 DEF Scalars
<1>4. copy \in Nat /\ bufferSize \in Nat /\ buffer \in [0 .. bufferSize - 1 -> Int]
  BY <1>1 DEF Scalars, Arrays
<1>5. /\ Filled(buffer, bufferSize, copy) \in [0 .. bufferSize - 1 -> Int]
      /\ Extended(copy) \in [0 .. size + copy - 1 -> Int]
      /\ \A i \in 0 .. size + copy - 1 :
             Filled(buffer, bufferSize, copy)[i] = Extended(copy)[i]
  BY <1>1, <1>4, FilledAppends, Zenon
<1>6. buffer' \in [0 .. bufferSize' - 1 -> Int]
  BY <1>2, <1>4, <1>5
<1>7. log' \in [0 .. size' - 1 -> Int]
  BY <1>1, <1>2, <1>5 DEF Scalars
<1>8. \A i \in 0 .. size' - 1 : buffer'[i] = log'[i]
  BY <1>1, <1>2, <1>5 DEF Scalars
<1>9. Scalars'
  BY <1>1, <1>2, <1>3 DEF Scalars, Locations
<1>10. Ranges'
  BY <1>1, <1>2, ByteBufferAssumption DEF IInv, Scalars, Ranges, Owed, Framing
<1>11. (StringRoom /\ PrefixRoom /\ Content /\ InBounds)'
  BY <1>1, <1>3, <1>8 DEF IInv, StringRoom, PrefixRoom, Content, InBounds, Strings
<1> QED
  BY <1>6, <1>7, <1>9, <1>10, <1>11 DEF IInv, Arrays

\* The same when it has not: a string whose length was cut to 16 bits.
LEMMA StringOverruns ==
    ASSUME IInv, StringCopy, size + copy > bufferSize
    PROVE  /\ Overrun'
           /\ pc = "string-copy" /\ copy + 4 >= ShortMod
           /\ reserve < size + copy
<1>1. /\ Scalars /\ Arrays /\ reserve <= bufferSize /\ offset = size
      /\ pc = "string-copy" /\ pc' = "idle"
  BY DEF StringCopy, IInv, Ranges, Framing
<1>2. /\ buffer' = Filled(buffer, bufferSize, copy) /\ log' = Extended(copy)
      /\ bufferSize' = bufferSize
      /\ offset' = offset + copy /\ size' = size + copy /\ copy' = 0
      /\ val' = val /\ left' = left /\ reserve' = reserve /\ body' = body
      /\ ops' = ops
      /\ fault' = IF offset + copy > bufferSize THEN "overrun" ELSE fault
  BY DEF StringCopy
<1>3. fault' = "overrun"
  BY <1>1, <1>2
<1>4. copy + 4 >= ShortMod
  BY <1>1, ByteBufferAssumption DEF IInv, Scalars, StringRoom, Strings, Owed
<1>5. buffer' \in [0 .. bufferSize' - 1 -> Int]
  BY <1>1, <1>2 DEF Scalars, Arrays, Filled, Stamp
<1>6. log' \in [0 .. size' - 1 -> Int]
  BY <1>1, <1>2 DEF Scalars, Arrays, Extended, Stamp
<1>7. Scalars'
  BY <1>1, <1>2, <1>3 DEF Scalars, Locations
<1>8. reserve < size + copy
  BY <1>1 DEF Scalars
<1>9. Overrun'
  BY <1>1, <1>3, <1>5, <1>6, <1>7 DEF Overrun, Arrays
<1> QED
  BY <1>1, <1>4, <1>8, <1>9

\* prefixLength: after the shift every byte is a prefix length further up, and
\* the room for the prefix is there
LEMMA PrefixLengthStep ==
    ASSUME IInv, PrefixLength
    PROVE  IInv'
<1> DEFINE bytes == VarIntLength(size)
<1> DEFINE old == Reallocated(bytes)
<1>1. /\ Scalars /\ Arrays /\ size <= bufferSize /\ offset = size
      /\ size <= MaxSize
      /\ \A i \in 0 .. size - 1 : buffer[i] = log[i]
      /\ pc = "idle" /\ pc' = "prefix"
  BY ByteBufferAssumption
  DEF PrefixLength, IInv, Scalars, Ranges, Framing, Content, Owed
<1>2. size < Bits28 /\ IsInt32(size)
  BY <1>1, ByteBufferAssumption DEF Scalars, IsInt32, Bits21, Bits28
<1>3. bytes \in 1 .. 5
  BY <1>2, VarIntLengthStep
<1>4. bytes \in Nat /\ bytes < ShortMod
  BY <1>3, ByteBufferAssumption
<1>5. /\ Capacity(bytes) \in Nat /\ Capacity(bytes) >= bufferSize
      /\ size + bytes < Capacity(bytes)
      /\ old \in [0 .. Capacity(bytes) - 1 -> Int]
      /\ \A i \in 0 .. size - 1 : old[i] = buffer[i]
  <2> HIDE DEF bytes
  <2> QED
    BY <1>1, <1>4, EnsureWritableRoom
<1>6. /\ bufferSize' = Capacity(bytes)
      /\ buffer' = [i \in 0 .. Capacity(bytes) - 1 |->
                       IF i >= bytes /\ i < size + bytes
                       THEN old[i - bytes] ELSE old[i]]
      /\ fault' = IF size + bytes > Capacity(bytes) THEN "overrun" ELSE fault
      /\ offset' = 0 /\ val' = size /\ body' = size
      /\ size' = size /\ log' = log /\ left' = left /\ copy' = copy
      /\ reserve' = reserve /\ ops' = ops
  BY DEF PrefixLength
<1> HIDE DEF bytes, old
<1>7. fault' = fault
  BY <1>1, <1>3, <1>5, <1>6 DEF Scalars
<1>8. buffer' \in [0 .. bufferSize' - 1 -> Int]
  BY <1>1, <1>3, <1>5, <1>6 DEF Scalars
<1>9. \A i \in 0 .. size - 1 : buffer'[i + bytes] = log[i]
  BY <1>1, <1>3, <1>5, <1>6 DEF Scalars
<1>10. Arrays'
  BY <1>1, <1>6, <1>8 DEF Arrays
<1>11. Scalars'
  BY <1>1, <1>5, <1>6, <1>7 DEF Scalars, Locations
<1>12. Ranges'
  BY <1>1, <1>2, <1>5, <1>6 DEF IInv, Scalars, Ranges, Framing
<1>13. VarIntLength(val') = bytes /\ VarIntLength(body') = bytes
  BY <1>6 DEF bytes
<1>14. PrefixRoom'
  BY <1>1, <1>3, <1>5, <1>6, <1>13 DEF Scalars, PrefixRoom
<1>15. Content'
  <2>1. 0 .. -1 = {}
    OBVIOUS
  <2>2. ASSUME NEW i \in 0 .. size' - 1
        PROVE  buffer'[i + bytes - 0] = log'[i]
    <3>1. i + bytes - 0 = i + bytes /\ i \in 0 .. size - 1
      BY <1>1, <1>3, <1>6 DEF Scalars
    <3> QED
      BY <3>1, <1>6, <1>9
  <2>3. \A i \in 0 .. offset' - 1 : buffer'[i] = log'[i]
    BY <1>6, <2>1
  <2>4. \A i \in offset' .. size' - 1 :
            buffer'[i + VarIntLength(body') - offset'] = log'[i]
    BY <1>6, <1>13, <2>2
  <2> QED
    BY <1>1, <2>3, <2>4 DEF Content
<1>16. (StringRoom /\ InBounds)'
  BY <1>1, <1>7 DEF IInv, StringRoom, InBounds, Strings
<1> QED
  BY <1>10, <1>11, <1>12, <1>14, <1>15, <1>16 DEF IInv

\* The end of prefixLength
LEMMA PrefixEndStep ==
    ASSUME IInv, PrefixEnd
    PROVE  IInv'
<1>1. /\ pc = "prefix-end" /\ pc' = "framed" /\ offset' = 0
      /\ buffer' = buffer /\ bufferSize' = bufferSize /\ size' = size
      /\ log' = log /\ fault' = fault /\ val' = val /\ left' = left
      /\ copy' = copy /\ reserve' = reserve /\ body' = body /\ ops' = ops
  BY DEF PrefixEnd, args
<1>2. (Scalars /\ Arrays)'
  BY <1>1 DEF IInv, Scalars, Arrays, Locations
<1>3. (Ranges /\ StringRoom /\ PrefixRoom /\ Content /\ InBounds)'
  BY <1>1 DEF IInv, Ranges, StringRoom, PrefixRoom, Content, InBounds,
              Strings, Framing
<1> QED
  BY <1>2, <1>3 DEF IInv

\* release
LEMMA ReleaseStep ==
    ASSUME IInv, Release
    PROVE  IInv'
<1>1. /\ pc' = "free" /\ offset' = 0 /\ size' = 0 /\ reserve' = 0 /\ body' = 0
      /\ buffer' = [i \in 0 .. bufferSize - 1 |-> Junk]
      /\ log' = [i \in 0 .. -1 |-> Junk]
      /\ bufferSize' = bufferSize /\ val' = val /\ left' = left
      /\ copy' = copy /\ ops' = ops /\ fault' = fault
  BY DEF Release
<1>2. Scalars'
  BY <1>1 DEF IInv, Scalars, Locations
<1>3. Arrays'
  BY <1>1 DEF IInv, Scalars, Arrays, Junk
<1>4. (Ranges /\ StringRoom /\ PrefixRoom /\ Content /\ InBounds)'
  BY <1>1, ByteBufferAssumption
  DEF IInv, Scalars, Ranges, StringRoom, PrefixRoom, Content, InBounds,
      Strings, Framing, Owed
<1> QED
  BY <1>2, <1>3, <1>4 DEF IInv

\* use
LEMMA UseStep ==
    ASSUME IInv, Use
    PROVE  IInv'
<1>1. /\ pc = "free" /\ pc' = "idle" /\ offset' = offset
      /\ buffer' = buffer /\ bufferSize' = bufferSize /\ size' = size
      /\ log' = log /\ fault' = fault /\ val' = val /\ left' = left
      /\ copy' = copy /\ reserve' = reserve /\ body' = body /\ ops' = ops
  BY DEF Use, args
<1>2. (Scalars /\ Arrays)'
  BY <1>1 DEF IInv, Scalars, Arrays, Locations
<1>3. (Ranges /\ StringRoom /\ PrefixRoom /\ Content /\ InBounds)'
  BY <1>1 DEF IInv, Ranges, StringRoom, PrefixRoom, Content, InBounds,
              Strings, Framing, Owed
<1> QED
  BY <1>2, <1>3 DEF IInv

-----------------------------------------------------------------------------
\* A step ends in the array, or is the copy of a string that does not fit.
LEMMA StepIInv ==
    ASSUME IInv, Step
    PROVE  \/ IInv' /\ fault' = fault
           \/ /\ Overrun'
              /\ pc = "string-copy" /\ copy + 4 >= ShortMod
              /\ reserve < size + copy
<1> SUFFICES ASSUME ~ (StringCopy /\ size + copy > bufferSize)
             PROVE  IInv' /\ fault' = fault
  BY StringOverruns
<1> SUFFICES IInv'
  BY DEF IInv, InBounds
<1>1. CASE WriteByte
  BY <1>1, WriteByteStep
<1>2. CASE \E n \in Lengths : WriteBytes(n)
  BY <1>2, WriteBytesStep
<1>3. CASE \E n \in {2, 4, 8} : BeginFixed(n)
  BY <1>3, BeginFixedStep
<1>4. CASE \E value \in Values : BeginVarInt(value)
  BY <1>4, BeginVarIntStep
<1>5. CASE \E n \in Lengths : BeginString(n)
  BY <1>5, BeginStringStep
<1>6. CASE \E n \in Lengths : BeginShortString(n)
  BY <1>6, BeginShortStringStep
<1>7. CASE FixedStep
  BY <1>7, FixedStepStep
<1>8. CASE VarIntStep
  BY <1>8, VarIntAppendStep, VarIntPrefixStep
<1>9. CASE StringCopy
  <2>1. size + copy <= bufferSize
    BY <1>9 DEF IInv, Scalars
  <2> QED
    BY <1>9, <2>1, StringCopyStep
<1>10. CASE PrefixLength
  BY <1>10, PrefixLengthStep
<1>11. CASE PrefixEnd
  BY <1>11, PrefixEndStep
<1>12. CASE Release
  BY <1>12, ReleaseStep
<1>13. CASE Use
  BY <1>13, UseStep
<1>14. CASE \E n \in AllocSizes : AllocateBuffer(n)
  BY <1>14, AllocateStep
<1> QED
  BY <1>1, <1>2, <1>3, <1>4, <1>5, <1>6, <1>7, <1>8, <1>9, <1>10, <1>11,
     <1>12, <1>13, <1>14 DEF Step

LEMMA StutterIInv == IInv /\ UNCHANGED vars => IInv'
<1> SUFFICES ASSUME IInv, UNCHANGED vars PROVE IInv'
  OBVIOUS
<1>1. (Scalars /\ Arrays)'
  BY DEF vars, args, IInv, Scalars, Arrays, Locations
<1>2. (Ranges /\ StringRoom /\ PrefixRoom /\ Content /\ InBounds)'
  BY DEF vars, args, IInv, Ranges, StringRoom, PrefixRoom, Content,
         InBounds, Strings, Framing, Owed
<1> QED
  BY <1>1, <1>2 DEF IInv

\* Nothing follows an overrun.
LEMMA OverrunEnds == Overrun /\ [Next]_vars => Overrun' /\ fault' = fault
<1> SUFFICES ASSUME Overrun, UNCHANGED vars PROVE Overrun' /\ fault' = fault
  BY DEF Next, Undefined, Overrun
<1> QED
  BY DEF vars, args, Overrun, Scalars, Arrays, Locations

LEMMA NextSound == Sound /\ [Next]_vars => Sound'
<1>1. ASSUME IInv, Next PROVE Sound'
  BY <1>1, StepIInv DEF Next, Undefined, Sound, IInv, InBounds
<1> QED
  BY <1>1, StutterIInv, OverrunEnds DEF Sound

LEMMA Invariance == Spec => []Sound
<1>1. Init => Sound
  BY InitIInv DEF Sound
<1> QED
  BY <1>1, NextSound, PTL DEF Spec

\* Of all sequences of writes, of any lengths, into buffers of any sizes, only
\* those with a string of ShortMod - 4 bytes or more, in a buffer that was not
\* allocated for it, write outside the array.
THEOREM LongStringsAloneOverrun == Spec => OnlyLongStringsOverrun
<1> DEFINE A == fault' # fault =>
                   /\ pc = "string-copy" /\ copy + 4 >= ShortMod
                   /\ reserve < size + copy
<1>1. ASSUME IInv, Next PROVE A
  BY <1>1, StepIInv DEF Next, Undefined, IInv, InBounds
<1>2. Overrun /\ Next => A
  BY OverrunEnds
<1>3. Sound /\ [Next]_vars => [A]_vars
  BY <1>1, <1>2 DEF Sound
<1> QED
  BY <1>3, Invariance, PTL DEF Spec, OnlyLongStringsOverrun

\* The fields keep their ranges, and the array the length bufferSize says.
THEOREM BufferTypes == Spec => []TypeOK
<1>1. Sound => TypeOK
  BY DEF Sound, Overrun, IInv, TypeOK
<1> QED
  BY <1>1, Invariance, PTL

\* Until a string overruns the array, the bytes of a packet are, whenever it
\* may be sent, the bytes written, in order, with the prefix in front of them
\* after prefixLength.
THEOREM WritesKeepContent == Spec => []ContentKept
<1>1. Sound => ContentKept
  BY DEF Sound, Overrun, IInv, InBounds, Content, Ranges, ContentKept
<1> QED
  BY <1>1, Invariance, PTL

-----------------------------------------------------------------------------
(* The header that prefixLength writes is the one readVarInt reads.         *)

\* What is left of the size after its first k groups of 7 bits.
Rest(k) ==
    IF k = 0 THEN body
    ELSE IF k = 1 THEN body \div 128
    ELSE IF k = 2 THEN (body \div 128) \div 128
    ELSE ((body \div 128) \div 128) \div 128

\* The header as far as it is written holds the groups of the size in order,
\* and once it is complete the packet has grown by exactly its length.
Header ==
    pc \in Framing =>
        /\ body <= MaxSize
        /\ pc = "prefix" =>
               /\ val = Rest(offset)
               /\ \A i \in 0 .. offset - 1 : log[i] = Digit(Rest(i))
        /\ pc # "prefix" =>
               /\ size = body + VarIntLength(body)
               /\ \A i \in 0 .. VarIntLength(body) - 1 : log[i] = Digit(Rest(i))

\* A number below 128 ^ 4 has at most four groups: those before the last have
\* more after them, the last has not.
LEMMA Groups ==
    ASSUME body \in Nat, body <= MaxSize
    PROVE  /\ VarIntLength(body) \in 1 .. 4
           /\ \A i \in 0 .. 3 : Rest(i) \in Nat
           /\ \A i \in 0 .. 2 : Rest(i + 1) = Rest(i) \div 128
           /\ \A i \in 0 .. VarIntLength(body) - 2 : Rest(i) >= 128
           /\ Rest(VarIntLength(body) - 1) < 128
<1>1. body < Bits28
  BY ByteBufferAssumption DEF Bits28
<1>2. VarIntLength(body) \in 1 .. 4
  BY <1>1 DEF VarIntLength
<1>3. \A i \in 0 .. 3 : Rest(i) \in Nat
  BY DEF Rest
<1>4. \A i \in 0 .. 2 : Rest(i + 1) = Rest(i) \div 128
  BY DEF Rest
<1>5. /\ \A i \in 0 .. VarIntLength(body) - 2 : Rest(i) >= 128
      /\ Rest(VarIntLength(body) - 1) < 128
  <2>1. CASE body < 128
    BY <2>1 DEF VarIntLength, Rest
  <2>2. CASE body >= 128 /\ body < Bits14
    BY <2>2 DEF VarIntLength, Rest, Bits14
  <2>3. CASE body >= Bits14 /\ body < Bits21
    BY <2>3 DEF VarIntLength, Rest, Bits14, Bits21
  <2>4. CASE body >= Bits21
    BY <1>1, <2>4 DEF VarIntLength, Rest, Bits14, Bits21, Bits28
  <2> QED
    BY <2>1, <2>2, <2>3, <2>4 DEF Bits14, Bits21
<1> QED
  BY <1>2, <1>3, <1>4, <1>5

\* The high bit of a VarInt's byte says whether more follow, the low seven are
\* the group.
LEMMA DigitBits ==
    ASSUME NEW v \in Nat
    PROVE  /\ Digit(v) \in Nat
           /\ v < 128 => Digit(v) < 128
           /\ v >= 128 => Digit(v) >= 128
           /\ Digit(v) % 128 = v % 128
  BY DEF Digit

\* writeVarInt adds the next group
LEMMA HeaderStep ==
    ASSUME IInv, Header, VarIntStep, pc = "prefix"
    PROVE  Header'
<1>1. /\ Scalars /\ offset + VarIntLength(val) = VarIntLength(body)
      /\ size = body + offset /\ IsInt32(val)
  BY DEF IInv, PrefixRoom, Ranges
<1>2. /\ body <= MaxSize /\ val = Rest(offset)
      /\ \A i \in 0 .. offset - 1 : log[i] = Digit(Rest(i))
  BY DEF Header, Framing
<1>3. VarIntLength(body) \in 1 .. 4 /\ \A i \in 0 .. 2 : Rest(i + 1) = Rest(i) \div 128
  BY <1>1, <1>2, Groups DEF Scalars
<1>4. /\ VarIntLength(val) \in 1 .. 5
      /\ val \div 128 = 0 => VarIntLength(val) = 1
      /\ val \div 128 # 0 => VarIntLength(val \div 128) = VarIntLength(val) - 1
      /\ IsInt32(val \div 128)
  BY <1>1, VarIntLengthStep
<1>5. /\ offset' = offset + 1 /\ size' = size + 1 /\ body' = body
      /\ val' = val \div 128
      /\ log' = Inserted(Digit(val))
      /\ pc' = IF val \div 128 # 0 THEN "prefix" ELSE "prefix-end"
  BY DEF VarIntStep, Put, AfterVarInt, args
<1>6. \A i \in 0 .. offset : log'[i] = Digit(Rest(i))
  BY <1>1, <1>2, <1>5 DEF Scalars, Inserted
<1>7. \A i : Rest(i)' = Rest(i)
  BY <1>5 DEF Rest
<1>8. \A i \in 0 .. offset : log'[i] = Digit(Rest(i)')
  BY <1>6, <1>7
<1>9. CASE val \div 128 # 0
  <2>1. VarIntLength(val \div 128) \in 1 .. 5
    BY <1>4, VarIntLengthStep
  <2>2. offset \in 0 .. 2
    BY <1>1, <1>3, <1>4, <1>9, <2>1 DEF Scalars
  <2>3. val' = Rest(offset')
    BY <1>2, <1>3, <1>5, <2>2
  <2>4. val' = Rest(offset)'
    BY <2>3, <1>5 DEF Rest
  <2> QED
    BY <1>1, <1>2, <1>5, <1>8, <1>9, <2>4 DEF Header, Scalars
<1>10. CASE val \div 128 = 0
  <2>1. pc' = "prefix-end" /\ VarIntLength(body)' = offset + 1
    BY <1>1, <1>4, <1>5, <1>10 DEF Scalars
  <2>2. size' = body' + VarIntLength(body)'
    BY <1>1, <1>5, <2>1 DEF Scalars
  <2>3. \A i \in 0 .. VarIntLength(body)' - 1 : log'[i] = Digit(Rest(i)')
    BY <1>1, <1>8, <2>1 DEF Scalars
  <2> QED
    BY <1>2, <1>5, <2>1, <2>2, <2>3 DEF Header
<1> QED
  BY <1>9, <1>10

\* Every other step begins the header, leaves it alone, or is outside framing.
LEMMA NextHeader == IInv /\ Header /\ Step => Header'
<1> SUFFICES ASSUME IInv, Header, Step PROVE Header'
  OBVIOUS
<1>1. CASE VarIntStep
  <2>1. CASE pc = "prefix"
    BY <1>1, <2>1, HeaderStep
  <2>2. CASE pc # "prefix"
    BY <1>1, <2>2 DEF VarIntStep, AfterVarInt, Header, Framing
  <2> QED
    BY <2>1, <2>2
<1>2. CASE PrefixLength
  <2>1. size <= MaxSize /\ size \in Nat /\ pc' = "prefix"
    BY <1>2, ByteBufferAssumption
    DEF PrefixLength, IInv, Scalars, Ranges, Framing, Owed
  <2>2. offset' = 0 /\ val' = size /\ body' = size
    BY <1>2 DEF PrefixLength
  <2>3. 0 .. -1 = {}
    OBVIOUS
  <2> QED
    BY <2>1, <2>2, <2>3 DEF Header, Rest
<1>3. CASE PrefixEnd
  <2>1. /\ pc = "prefix-end" /\ pc' = "framed" /\ size' = size /\ body' = body
        /\ log' = log
    BY <1>3 DEF PrefixEnd, args
  <2> QED
    BY <2>1 DEF Header, Rest, Framing
<1>5. CASE pc' \notin Framing
  BY <1>5 DEF Header
<1>6. CASE WriteByte
  BY <1>6, <1>5 DEF WriteByte, MayWrite, Framing
<1>7. CASE \E n \in Lengths : WriteBytes(n)
  BY <1>7, <1>5 DEF WriteBytes, MayWrite, Framing
<1>8. CASE \E n \in {2, 4, 8} : BeginFixed(n)
  BY <1>8, <1>5 DEF BeginFixed, Framing
<1>9. CASE \E value \in Values : BeginVarInt(value)
  BY <1>9, <1>5 DEF BeginVarInt, Framing
<1>10. CASE \E n \in Lengths : BeginString(n)
  BY <1>10, <1>5 DEF BeginString, Framing
<1>11. CASE \E n \in Lengths : BeginShortString(n)
  BY <1>11, <1>5 DEF BeginShortString, Framing
<1>12. CASE FixedStep
  BY <1>12, <1>5 DEF FixedStep, Framing
<1>13. CASE StringCopy
  BY <1>13, <1>5 DEF StringCopy, Framing
<1>14. CASE Release
  BY <1>14, <1>5 DEF Release, Framing
<1>15. CASE Use
  BY <1>15, <1>5 DEF Use, Framing
<1>16. CASE \E n \in AllocSizes : AllocateBuffer(n)
  BY <1>16, <1>5 DEF AllocateBuffer, Framing
<1> QED
  BY <1>1, <1>2, <1>3, <1>6, <1>7, <1>8, <1>9, <1>10, <1>11, <1>12,
     <1>13, <1>14, <1>15, <1>16 DEF Step

LEMMA HeaderInvariance == Spec => []((IInv /\ Header) \/ Overrun)
<1>1. Init => IInv /\ Header
  BY InitIInv DEF Init, Header, Framing
<1>2. ASSUME IInv, Header, Next PROVE (IInv /\ Header)' \/ Overrun'
  BY <1>2, StepIInv, NextHeader DEF Next, Undefined, IInv, InBounds
<1>3. ASSUME IInv, Header, UNCHANGED vars PROVE (IInv /\ Header)'
  <2>1. Header'
    BY <1>3 DEF vars, args, Header, Rest
  <2> QED
    BY <1>3, <2>1, StutterIInv
<1>4. ((IInv /\ Header) \/ Overrun) /\ [Next]_vars => ((IInv /\ Header) \/ Overrun)'
  BY <1>2, <1>3, OverrunEnds
<1> QED
  BY <1>1, <1>4, PTL DEF Spec

\* Up to four groups of 7 bits, put back together, are the size.
LEMMA SumOfGroups ==
    ASSUME body \in Nat, body <= MaxSize,
           NEW n, n = VarIntLength(body),
           NEW part, \A k \in 1 .. n : part[k] = (Rest(k - 1) % 128) * <<1, 128, Bits14, Bits21>>[k],
           \A k \in n + 1 .. 4 : part[k] = 0
    PROVE  part[1] + part[2] + part[3] + part[4] = body
<1>1. body < Bits28
  BY ByteBufferAssumption DEF Bits28
<1>2. \A v \in Nat : v = 128 * (v \div 128) + (v % 128) /\ v \div 128 \in Nat
  OBVIOUS
<1>3. /\ body = 128 * (body \div 128) + (body % 128)
      /\ body \div 128 = 128 * ((body \div 128) \div 128) + ((body \div 128) % 128)
      /\ (body \div 128) \div 128
             = 128 * (((body \div 128) \div 128) \div 128)
                   + (((body \div 128) \div 128) % 128)
  <2>1. body \div 128 \in Nat /\ (body \div 128) \div 128 \in Nat
    BY <1>2
  <2> QED
    BY <1>2, <2>1, ZenonT(90)
<1>4. CASE n = 1
  <2>1. body < 128
    BY <1>1, <1>4 DEF VarIntLength
  <2>2. part[1] = body % 128 /\ part[2] = 0 /\ part[3] = 0 /\ part[4] = 0
    BY <1>4 DEF Rest
  <2> QED
    BY <2>1, <2>2
<1>5. CASE n = 2
  <2>1. body < Bits14
    BY <1>1, <1>5 DEF VarIntLength
  <2>2. /\ part[1] = body % 128 /\ part[2] = ((body \div 128) % 128) * 128
        /\ part[3] = 0 /\ part[4] = 0
    BY <1>5 DEF Rest
  <2>3. (body \div 128) % 128 = body \div 128
    BY <2>1 DEF Bits14
  <2> QED
    BY <1>3, <2>2, <2>3
<1>6. CASE n = 3
  <2>1. body < Bits21
    BY <1>1, <1>6 DEF VarIntLength
  <2>2. /\ part[1] = body % 128 /\ part[2] = ((body \div 128) % 128) * 128
        /\ part[3] = (((body \div 128) \div 128) % 128) * Bits14
        /\ part[4] = 0
    BY <1>6 DEF Rest
  <2>3. ((body \div 128) \div 128) % 128 = (body \div 128) \div 128
    BY <2>1 DEF Bits21
  <2> QED
    BY <1>3, <2>2, <2>3 DEF Bits14
<1>7. CASE n = 4
  <2>1. /\ part[1] = body % 128 /\ part[2] = ((body \div 128) % 128) * 128
        /\ part[3] = (((body \div 128) \div 128) % 128) * Bits14
        /\ part[4] = ((((body \div 128) \div 128) \div 128) % 128) * Bits21
    BY <1>7 DEF Rest
  <2>2. (((body \div 128) \div 128) \div 128) % 128
            = ((body \div 128) \div 128) \div 128
    BY <1>1 DEF Bits28
  <2> QED
    BY <1>3, <2>1, <2>2 DEF Bits14, Bits21
<1> QED
  BY <1>4, <1>5, <1>6, <1>7, Groups

\* Whatever its size below 2^28, a packet that prefixLength has framed can be
\* cut out of a stream again: readVarInt finds the end of the header and the
\* number in it, and the packet behind it as it was written.
THEOREM FramesAreRead == Spec => []FramedPacketParses
<1>1. ASSUME IInv, Header, pc = "framed"
      PROVE  FramedPacketParses
  <2> DEFINE n == VarIntLength(body)
  <2>1. /\ body \in Nat /\ size \in Nat /\ body <= MaxSize /\ size = body + n
        /\ \A i \in 0 .. n - 1 : log[i] = Digit(Rest(i))
        /\ \A i \in 0 .. size - 1 : buffer[i] = log[i]
    BY <1>1 DEF IInv, Scalars, Header, Framing, Content
  <2>2. /\ n \in 1 .. 4
        /\ \A i \in 0 .. 3 : Rest(i) \in Nat
        /\ \A i \in 0 .. n - 2 : Rest(i) >= 128
        /\ Rest(n - 1) < 128
    BY <2>1, Groups
  <2> HIDE DEF n
  <2>3. \A i \in 0 .. n - 1 : buffer[i] = Digit(Rest(i))
    BY <2>1, <2>2
  <2>4. /\ \A j \in 1 .. n - 1 : buffer[j - 1] >= 128
        /\ buffer[n - 1] < 128
        /\ \A i \in 0 .. n - 1 : buffer[i] % 128 = Rest(i) % 128
    <3>1. ASSUME NEW i \in 0 .. n - 1
          PROVE  /\ Rest(i) < 128 => buffer[i] < 128
                 /\ Rest(i) >= 128 => buffer[i] >= 128
                 /\ buffer[i] % 128 = Rest(i) % 128
      <4>1. Rest(i) \in Nat /\ buffer[i] = Digit(Rest(i))
        BY <2>2, <2>3
      <4> QED
        BY <4>1, DigitBits
    <3> QED
      BY <2>2, <3>1
  <2> DEFINE Ends(k) == buffer[k - 1] < 128 /\ \A j \in 1 .. k - 1 : buffer[j - 1] >= 128
  <2> DEFINE end == CHOOSE k \in 1 .. 4 : Ends(k)
  <2>5. Ends(n)
    BY <2>4
  <2>6. ASSUME NEW k \in 1 .. 4, Ends(k) PROVE k = n
    <3>0. \A i \in 0 .. n - 1 : buffer[i] \in Nat
      BY SMTT(60), <2>2, <2>3, DigitBits
    <3>1. CASE k < n
      BY <2>2, <2>4, <2>6, <3>0, <3>1
    <3>2. CASE k > n
      BY <2>2, <2>4, <2>6, <3>0, <3>2
    <3> QED
      BY <2>2, <3>1, <3>2
  <2> HIDE DEF Ends
  <2>7. end = n
    BY <2>2, <2>5, <2>6
  <2> DEFINE weight == <<1, 128, Bits14, Bits21>>
  <2> DEFINE part == [k \in 1 .. 4 |->
                IF k <= end THEN (buffer[k - 1] % 128) * weight[k] ELSE 0]
  <2>8. ReadVarInt = [value |-> part[1] + part[2] + part[3] + part[4], bytes |-> end]
    BY DEF ReadVarInt, Ends
  <2> HIDE DEF end
  <2>9. /\ \A k \in 1 .. n : part[k] = (Rest(k - 1) % 128) * weight[k]
        /\ \A k \in n + 1 .. 4 : part[k] = 0
    <3> HIDE DEF weight
    <3> QED
      BY <2>2, <2>4, <2>7
  <2> HIDE DEF part
  <2>10. part[1] + part[2] + part[3] + part[4] = body
    BY <2>1, <2>9, SumOfGroups DEF n
  <2>11. ReadVarInt.value = body /\ ReadVarInt.bytes = n
    BY <2>7, <2>8, <2>10
  <2>12. \A i \in 0 .. body - 1 : buffer[i + n] = log[i + (size - body)]
    BY <2>1, <2>2
  <2> QED
    BY <2>1, <2>2, <2>11, <2>12 DEF FramedPacketParses
<1>2. (IInv /\ Header) \/ Overrun => FramedPacketParses
  BY <1>1 DEF FramedPacketParses, Overrun
<1> QED
  BY <1>2, HeaderInvariance, PTL

-----------------------------------------------------------------------------
(***************************************************************************)
(* Theorems about PacketEdits, for every ShortMod, every size of packets,   *)
(* arrays and chunks, and every number of bytes deflate puts out.           *)
(*                                                                          *)
(* Whether the last bytes of a deflated packet are lost is decided by where *)
(* the first reallocation happens, which may be any chunk or the size at    *)
(* the end.  The invariant says that as long as the array is the one the    *)
(* caller got nothing is lost, and that afterwards a byte is missing which  *)
(* no later write can bring back, because all of them are behind it or in   *)
(* the gap.                                                                 *)
(***************************************************************************)

Deflating == {"skip", "id", "deflate", "back", "size"}
Sending == {"header", "length", "index", "body", "sent"} \cup Deflating
Tokens == {"before", "token", "resize", "read"}

\* The bytes of S are in the array as they have been written.
Stamped(S) == \A i \in S : buffer[i] = Stamp(i)

\* A byte from position 7 up to last is not in the array.
Lost(last) == \E i \in 7 .. last : i < bufferSize => buffer[i] = Junk

\* The array suffices for what deflate puts out.
Fits == output + 8 < room

Stages == stage \in {"none"} \cup Sending \cup Tokens

\* A released buffer has been rewound, and nothing is left of the last packet.
Rewound == stage = "none" => ~outside /\ (pc = "free" => offset = 0 /\ size = 0)

Numbers ==
    stage # "none" =>
        /\ bufferSize \in Nat /\ offset \in Nat /\ size \in Nat
        /\ packet \in Nat /\ pending \in Nat /\ room \in Nat
        /\ size <= bufferSize

Sizes ==
    stage \in Sending =>
        /\ packet < ShortMod /\ 10 + packet <= room /\ room <= bufferSize
        /\ output = -1 \/ output \in Nat \ {0}

Start ==
    stage = "header" =>
        /\ offset = 0 /\ size = 0 /\ bufferSize = room /\ ~outside
        /\ pending = IF output = -1 THEN packet ELSE output

\* A packet that is sent as it is: size covers all that has been written.
Plain ==
    stage \in {"length", "index", "body", "sent"} /\ (stage = "sent" => output = -1) =>
        /\ output = -1 /\ offset = size /\ ~outside
        /\ Stamped(0 .. size - 1)
        /\ stage # "sent" => pending = packet
        /\ stage # "length" => bits = UShort(packet * 8)

\* Where the deflated packet ends and what size says of it.
Lag ==
    /\ stage \in Deflating => output # -1 /\ pending <= output
    /\ stage = "skip" => offset = 5 /\ size = 5
    /\ stage = "id" => offset = 7 /\ size = 5
    /\ stage \in {"skip", "id"} => pending = output /\ bufferSize = room /\ ~outside
    /\ stage \in {"deflate", "back"} =>
           offset = 8 + (output - pending) /\ size = 6 + (output - pending)
    /\ stage = "back" => pending = 0
    /\ stage = "size" => offset = 5 /\ size = 6 + output
    /\ stage = "sent" /\ output # -1 => size = 8 + output

\* What has been written of it, but for the gap.
Kept ==
    /\ stage \in {"skip", "id"} => Stamped(0 .. 4)
    /\ stage \in {"deflate", "back", "size"} =>
           /\ Fits => bufferSize = room /\ ~outside
           /\ bufferSize = room => Stamped({i \in 0 .. size + 1 :
                                               i \notin {5, 6} /\ i < bufferSize})
           /\ bufferSize = room \/ Lost(size + 1)
    /\ stage = "sent" /\ output # -1 =>
           /\ bits = UShort((output + 1) * 8)
           /\ IF Fits THEN Whole ELSE Lost(size - 1)

\* The received packet around the token, which is counted twice in between.
Token ==
    stage \in Tokens =>
        /\ 8 <= pending /\ pending <= packet /\ packet <= bufferSize /\ ~outside
        /\ size = IF stage = "resize" THEN packet + 4 ELSE packet
        /\ offset = IF stage = "token" THEN pending - 4 ELSE pending
        /\ Stamped({i \in 0 .. packet - 1 :
                       stage \in {"resize", "read"} \/ i \notin pending - 4 .. pending - 1})

EInv == Stages /\ Rewound /\ Numbers /\ Sizes /\ Start /\ Plain /\ Lag /\ Kept /\ Token

-----------------------------------------------------------------------------
\* What a write of n bytes does, wherever offset is: without a reallocation
\* the bytes go into the array, with one the first size bytes are kept.
LEMMA Written ==
    ASSUME NEW n \in Nat, n < ShortMod, Write(n),
           bufferSize \in Nat, offset \in Nat, size \in Nat, size <= bufferSize
    PROVE  /\ bufferSize' \in Nat /\ bufferSize' >= bufferSize
           /\ offset' = offset + n /\ size' = size + n /\ size + n < bufferSize'
           /\ packet' = packet /\ output' = output /\ room' = room
           /\ ~outside /\ offset + n <= bufferSize' => ~outside'
           /\ size + n < bufferSize =>
                  /\ bufferSize' = bufferSize
                  /\ \A i \in 0 .. bufferSize - 1 :
                         buffer'[i] = IF i >= offset /\ i < offset + n
                                      THEN Stamp(i) ELSE buffer[i]
           /\ size + n >= bufferSize =>
                  /\ bufferSize' > bufferSize
                  /\ \A i \in 0 .. bufferSize' - 1 :
                         buffer'[i] = IF i >= offset /\ i < offset + n
                                      THEN Stamp(i)
                                      ELSE IF i < size /\ i < bufferSize
                                           THEN buffer[i] ELSE Junk
<1>1. UShort(n) = n
  BY UShortRange
<1>2. /\ bufferSize' = Capacity(n)
      /\ buffer' = Filled(Reallocated(n), Capacity(n), n)
      /\ offset' = offset + n /\ size' = size + n
      /\ packet' = packet /\ output' = output /\ room' = room
  BY DEF Write
<1>3. ASSUME ~outside, offset + n <= bufferSize' PROVE ~outside'
  <2>1. Capacity(n) \in Nat
    BY <1>1 DEF Capacity, BUFFER_SIZE
  <2>2. ~(offset + n > Capacity(n))
    BY <1>2, <1>3, <2>1
  <2> QED
    BY <1>3, <2>2, Zenon DEF Write
<1>4. CASE size + n < bufferSize
  <2>1. Capacity(n) = bufferSize /\ Reallocated(n) = buffer
    BY <1>1, <1>4 DEF Capacity, Reallocated, Grows
  <2>2. \A i \in 0 .. bufferSize - 1 :
            buffer'[i] = IF i >= offset /\ i < offset + n THEN Stamp(i) ELSE buffer[i]
    BY <1>2, <2>1 DEF Filled
  <2> QED
    BY <1>2, <1>4, <1>3, <2>1, <2>2
<1>5. CASE size + n >= bufferSize
  <2>1. /\ Capacity(n) = bufferSize + n + 50
        /\ Reallocated(n) = [i \in 0 .. Capacity(n) - 1 |->
                                IF i < size /\ i < bufferSize THEN buffer[i] ELSE Junk]
    BY <1>1, <1>5 DEF Capacity, Reallocated, Grows, BUFFER_SIZE
  <2>2. \A i \in 0 .. bufferSize' - 1 :
            buffer'[i] = IF i >= offset /\ i < offset + n
                         THEN Stamp(i)
                         ELSE IF i < size /\ i < bufferSize THEN buffer[i] ELSE Junk
    BY <1>2, <2>1 DEF Filled
  <2>3. size + n < bufferSize'
    BY <1>2, <2>1
  <2> QED
    BY SMTT(60), <1>2, <1>5, <1>3, <2>1, <2>2, <2>3
<1> QED
  BY <1>4, <1>5

\* What a step leaves alone follows from the names of the stages.
LEMMA NewStage ==
    ASSUME EInv, stage' \in Sending \cup Tokens
    PROVE  Stages' /\ Rewound'
  BY DEF Stages, Rewound, Sending, Deflating, Tokens

-----------------------------------------------------------------------------
LEMMA EditInitEInv == EditInit => EInv
  BY DEF EditInit, Init, EInv, Stages, Rewound, Numbers, Sizes, Start, Plain, Lag,
         Kept, Token, Sending, Deflating, Tokens

\* ByteBuffer leaves a buffer that is free rewound.
LEMMA BufferStep ==
    ASSUME EInv, stage = "none", Next, UNCHANGED editVars
    PROVE  EInv'
<1>1. stage' = "none" /\ outside' = outside
  BY DEF editVars
<1>2. CASE Step
  <2>1. pc' = "free" => offset' = 0 /\ size' = 0
    BY <1>2 DEF EInv, Rewound, Step, WriteByte, WriteBytes, BeginFixed, BeginVarInt,
           BeginString, BeginShortString, FixedStep, VarIntStep, AfterVarInt,
           StringCopy, PrefixLength, PrefixEnd, Release, Use, AllocateBuffer,
           MayWrite, args
  <2> QED
    BY <1>1, <2>1 DEF EInv, Stages, Rewound, Numbers, Sizes, Start, Plain, Lag,
                      Kept, Token, Sending, Deflating, Tokens
<1>3. CASE Undefined
  <2>1. pc' = pc /\ offset' = offset /\ size' = size
    BY <1>3 DEF Undefined, vars
  <2> QED
    BY <1>1, <2>1 DEF EInv, Stages, Rewound, Numbers, Sizes, Start, Plain, Lag,
                      Kept, Token, Sending, Deflating, Tokens
<1> QED
  BY <1>2, <1>3 DEF Next

LEMMA EncapsulateStep ==
    ASSUME EInv, NEW n \in Packets, NEW out \in {-1} \cup (1 .. n + Expansion),
           Encapsulate(n, out)
    PROVE  EInv'
<1>1. PICK m \in {m \in PoolSizes : m >= Asked(n)} \cup {Asked(n)} :
          bufferSize' = m /\ room' = m
  BY DEF Encapsulate
<1>2. n \in Nat /\ n < ShortMod /\ m \in Nat /\ m >= 10 + n /\ Expansion \in Nat
  BY EditsAssumption, ByteBufferAssumption DEF Asked
<1>3. /\ stage' = "header" /\ packet' = n /\ output' = out
      /\ pending' = IF out = -1 THEN n ELSE out
      /\ offset' = 0 /\ size' = 0 /\ outside' = outside /\ ~outside
  BY DEF Encapsulate, Idle, EInv, Rewound, others
<1>4. out = -1 \/ out \in Nat \ {0}
  BY <1>2
<1>5. Stages' /\ Rewound' /\ Numbers' /\ Sizes' /\ Start'
  BY <1>1, <1>2, <1>3, <1>4 DEF Stages, Rewound, Numbers, Sizes, Start, Sending
<1>6. Plain' /\ Lag' /\ Kept' /\ Token'
  BY <1>3 DEF Plain, Lag, Kept, Token, Deflating, Tokens
<1> QED
  BY <1>5, <1>6 DEF EInv

LEMMA WriteHeaderStep ==
    ASSUME EInv, WriteHeader
    PROVE  EInv'
<1>1. /\ stage = "header" /\ stage' = (IF output = -1 THEN "length" ELSE "skip")
      /\ Write(5) /\ pending' = pending
  BY DEF WriteHeader, Stage
<1>2. /\ bufferSize \in Nat /\ offset \in Nat /\ size \in Nat /\ packet \in Nat
      /\ pending \in Nat /\ room \in Nat /\ size <= bufferSize
      /\ packet < ShortMod /\ 10 + packet <= room /\ room <= bufferSize
      /\ output = -1 \/ output \in Nat \ {0}
      /\ offset = 0 /\ size = 0 /\ bufferSize = room /\ ~outside
      /\ pending = IF output = -1 THEN packet ELSE output
  BY <1>1 DEF EInv, Numbers, Sizes, Start, Sending
<1>3. /\ bufferSize' = bufferSize /\ offset' = 5 /\ size' = 5
      /\ packet' = packet /\ output' = output /\ room' = room /\ ~outside'
      /\ \A i \in 0 .. 4 : buffer'[i] = Stamp(i)
  BY <1>1, <1>2, Written, ByteBufferAssumption
<1>4. (Stages /\ Rewound)'
  BY <1>1, NewStage DEF Sending, Deflating
<1>5. (Numbers /\ Sizes /\ Start)'
  BY <1>1, <1>2, <1>3 DEF Numbers, Sizes, Start, Sending
<1>6. (Plain /\ Lag)'
  BY <1>1, <1>2, <1>3 DEF Plain, Lag, Deflating, Stamped
<1>7. (Kept /\ Token)'
  BY <1>1, <1>3 DEF Kept, Token, Tokens, Stamped
<1> QED
  BY <1>4, <1>5, <1>6, <1>7 DEF EInv

LEMMA SkipSizeStep ==
    ASSUME EInv, SkipSize
    PROVE  EInv'
<1>1. /\ stage = "skip" /\ stage' = "id" /\ offset' = 7
      /\ buffer' = buffer /\ bufferSize' = bufferSize /\ size' = size
      /\ packet' = packet /\ output' = output /\ pending' = pending
      /\ room' = room /\ outside' = outside
  BY DEF SkipSize, Stage, Seek
<1>2. (Stages /\ Rewound /\ Numbers /\ Sizes /\ Start)'
  BY <1>1, NewStage DEF EInv, Numbers, Sizes, Start, Sending, Deflating
<1>3. (Plain /\ Lag)'
  BY <1>1 DEF EInv, Plain, Lag, Deflating
<1>4. (Kept /\ Token)'
  BY <1>1 DEF EInv, Kept, Token, Tokens, Stamped
<1> QED
  BY <1>2, <1>3, <1>4 DEF EInv

LEMMA WriteIdStep ==
    ASSUME EInv, WriteId
    PROVE  EInv'
<1>1. /\ stage = "id" /\ stage' = "deflate" /\ Write(1) /\ pending' = pending
  BY DEF WriteId, Stage
<1>2. /\ bufferSize \in Nat /\ offset \in Nat /\ size \in Nat /\ packet \in Nat
      /\ pending \in Nat /\ room \in Nat /\ size <= bufferSize
      /\ packet < ShortMod /\ 10 + packet <= room /\ room <= bufferSize
      /\ output \in Nat \ {0}
      /\ offset = 7 /\ size = 5 /\ bufferSize = room /\ ~outside
      /\ pending = output /\ Stamped(0 .. 4)
  BY <1>1 DEF EInv, Numbers, Sizes, Lag, Kept, Sending, Deflating
<1>3. /\ bufferSize' = bufferSize /\ offset' = 8 /\ size' = 6
      /\ packet' = packet /\ output' = output /\ room' = room /\ ~outside'
      /\ \A i \in 0 .. bufferSize - 1 :
             buffer'[i] = IF i >= 7 /\ i < 8 THEN Stamp(i) ELSE buffer[i]
  BY <1>1, <1>2, Written, ByteBufferAssumption
<1>4. (Stages /\ Rewound)'
  BY <1>1, NewStage DEF Sending, Deflating
<1>5. (Numbers /\ Sizes /\ Start)'
  BY <1>1, <1>2, <1>3 DEF Numbers, Sizes, Start, Sending
<1>6. (Plain /\ Lag)'
  BY <1>1, <1>2, <1>3 DEF Plain, Lag, Deflating
<1>7. (Kept /\ Token)'
  <2>1. Stamped({i \in 0 .. size + 1 : i \notin {5, 6} /\ i < bufferSize})'
    BY <1>2, <1>3 DEF Stamped
  <2> QED
    BY <1>1, <1>2, <1>3, <2>1 DEF Kept, Token, Tokens
<1> QED
  BY <1>4, <1>5, <1>6, <1>7 DEF EInv

\* A reallocation loses the byte before offset, and what is lost stays so.
LEMMA WriteChunkStep ==
    ASSUME EInv, WriteChunk
    PROVE  EInv'
<1> DEFINE n == IF pending < CHUNK THEN pending ELSE CHUNK
<1>1. /\ stage = "deflate" /\ stage' \in {"deflate", "back"}
      /\ stage' = "back" => n < CHUNK
      /\ Write(n) /\ pending' = pending - n
  BY DEF WriteChunk, Stage
<1>2. /\ bufferSize \in Nat /\ offset \in Nat /\ size \in Nat /\ packet \in Nat
      /\ pending \in Nat /\ room \in Nat /\ size <= bufferSize
      /\ packet < ShortMod /\ 10 + packet <= room /\ room <= bufferSize
      /\ output \in Nat \ {0} /\ pending <= output
      /\ offset = 8 + (output - pending) /\ size = 6 + (output - pending)
      /\ Fits => bufferSize = room /\ ~outside
      /\ bufferSize = room => Stamped({i \in 0 .. size + 1 :
                                           i \notin {5, 6} /\ i < bufferSize})
      /\ bufferSize = room \/ Lost(size + 1)
  BY <1>1 DEF EInv, Numbers, Sizes, Lag, Kept, Sending, Deflating
<1>3. /\ n \in Nat /\ n < ShortMod /\ n <= pending
      /\ stage' = "back" => n = pending
  BY <1>1, <1>2, EditsAssumption, ByteBufferAssumption
<1> HIDE DEF n
<1>4. /\ bufferSize' \in Nat /\ bufferSize' >= bufferSize
      /\ offset' = offset + n /\ size' = size + n /\ size' < bufferSize'
      /\ packet' = packet /\ output' = output /\ room' = room
      /\ ~outside /\ offset + n <= bufferSize' => ~outside'
  BY <1>1, <1>2, <1>3, Written
<1>5. /\ offset' = 8 + (output' - pending') /\ size' = 6 + (output' - pending')
      /\ offset = size + 2 /\ offset' = size' + 2
      /\ pending' \in Nat /\ pending' <= output' /\ output' \in Nat \ {0}
      /\ offset' \in Nat /\ size' \in Nat
      /\ stage' = "back" => pending' = 0
  BY <1>1, <1>2, <1>3, <1>4
<1>6. (Stages /\ Rewound)'
  BY <1>1, NewStage DEF Sending, Deflating
<1>7. (Numbers /\ Sizes /\ Start)'
  BY <1>1, <1>2, <1>4, <1>5 DEF Numbers, Sizes, Start, Sending, Deflating
<1>8. (Plain /\ Lag)'
  BY SMTT(60), <1>1, <1>5 DEF Plain, Lag, Deflating
<1>9. CASE size + n < bufferSize
  <2>1. /\ bufferSize' = bufferSize
        /\ \A i \in 0 .. bufferSize - 1 :
               buffer'[i] = IF i >= offset /\ i < offset + n
                            THEN Stamp(i) ELSE buffer[i]
    BY <1>1, <1>2, <1>3, <1>9, Written
  <2>2. (Fits => bufferSize = room /\ ~outside)'
    BY <1>2, <1>3, <1>4, <2>1 DEF Fits
  <2>3. (bufferSize = room => Stamped({i \in 0 .. size + 1 :
                                           i \notin {5, 6} /\ i < bufferSize}))'
    BY <1>2, <1>3, <1>4, <2>1 DEF Stamped
  <2>4. Lost(size + 1) => Lost(size + 1)'
    BY <1>2, <1>3, <1>4, <2>1 DEF Lost
  <2>5. (bufferSize = room \/ Lost(size + 1))'
    BY <1>2, <1>4, <2>1, <2>4
  <2>6. Kept' /\ Token'
    BY <1>1, <2>2, <2>3, <2>5 DEF Kept, Token, Tokens
  <2> QED
    BY <1>6, <1>7, <1>8, <2>6 DEF EInv
<1>10. CASE size + n >= bufferSize
  <2>1. /\ bufferSize' > bufferSize
        /\ \A i \in 0 .. bufferSize' - 1 :
               buffer'[i] = IF i >= offset /\ i < offset + n
                            THEN Stamp(i)
                            ELSE IF i < size /\ i < bufferSize
                                 THEN buffer[i] ELSE Junk
    BY <1>1, <1>2, <1>3, <1>10, Written
  <2>2. ~Fits /\ ~Fits'
    BY <1>2, <1>3, <1>4, <1>10 DEF Fits
  <2>3. Lost(size + 1)'
    <3>1. size + 1 \in 7 .. size' + 1
      BY <1>2, <1>3, <1>4
    <3>2. size + 1 < bufferSize' => buffer'[size + 1] = Junk
      BY <1>2, <1>3, <1>4, <1>5, <2>1
    <3> QED
      BY <3>1, <3>2 DEF Lost
  <2>4. bufferSize' # room'
    BY <1>2, <1>4, <2>1
  <2>5. Kept' /\ Token'
    BY <1>1, <2>2, <2>3, <2>4 DEF Kept, Token, Tokens
  <2> QED
    BY <1>6, <1>7, <1>8, <2>5 DEF EInv
<1> QED
  BY <1>2, <1>3, <1>9, <1>10

LEMMA GoBackStep ==
    ASSUME EInv, GoBack
    PROVE  EInv'
<1>1. /\ stage = "back" /\ stage' = "size" /\ offset' = 5
      /\ buffer' = buffer /\ bufferSize' = bufferSize /\ size' = size
      /\ packet' = packet /\ output' = output /\ pending' = pending
      /\ room' = room /\ outside' = outside
  BY DEF GoBack, Stage, Seek
<1>2. /\ Numbers /\ Sizes /\ output \in Nat \ {0} /\ size = 6 + output
      /\ pending = 0
      /\ Fits => bufferSize = room /\ ~outside
      /\ bufferSize = room => Stamped({i \in 0 .. size + 1 :
                                           i \notin {5, 6} /\ i < bufferSize})
      /\ bufferSize = room \/ Lost(size + 1)
  BY <1>1 DEF EInv, Sizes, Lag, Kept, Sending, Deflating
<1>3. (Stages /\ Rewound /\ Numbers /\ Sizes /\ Start)'
  BY <1>1, <1>2, NewStage DEF Numbers, Sizes, Start, Sending, Deflating
<1>4. (Plain /\ Lag)'
  BY <1>1, <1>2 DEF Plain, Lag, Deflating
<1>5. (Kept /\ Token)'
  BY <1>1, <1>2 DEF Kept, Token, Tokens, Stamped, Lost, Fits
<1> QED
  BY <1>3, <1>4, <1>5 DEF EInv

\* The size at the end: the gap closes, or the last reallocation drops what
\* size has not counted.
LEMMA WriteSizeStep ==
    ASSUME EInv, WriteSize
    PROVE  EInv'
<1>1. /\ stage = "size" /\ stage' = "sent" /\ Write(2) /\ pending' = pending
      /\ bits' = UShort((size - 5) * 8)
  BY DEF WriteSize, Stage, FrameSize
<1>2. /\ bufferSize \in Nat /\ offset \in Nat /\ size \in Nat /\ packet \in Nat
      /\ pending \in Nat /\ room \in Nat /\ size <= bufferSize
      /\ packet < ShortMod /\ 10 + packet <= room /\ room <= bufferSize
      /\ output \in Nat \ {0} /\ offset = 5 /\ size = 6 + output
      /\ Fits => bufferSize = room /\ ~outside
      /\ bufferSize = room => Stamped({i \in 0 .. size + 1 :
                                           i \notin {5, 6} /\ i < bufferSize})
      /\ bufferSize = room \/ Lost(size + 1)
  BY <1>1 DEF EInv, Numbers, Sizes, Lag, Kept, Sending, Deflating
<1>3. /\ bufferSize' \in Nat /\ bufferSize' >= bufferSize
      /\ offset' = 7 /\ size' = 8 + output' /\ size' < bufferSize'
      /\ packet' = packet /\ output' = output /\ room' = room
      /\ ~outside /\ 7 <= bufferSize' => ~outside'
  BY <1>1, <1>2, Written, ByteBufferAssumption
<1>4. (Stages /\ Rewound)'
  BY <1>1, NewStage DEF Sending
<1>5. (Numbers /\ Sizes /\ Start)'
  BY <1>1, <1>2, <1>3 DEF Numbers, Sizes, Start, Sending, Deflating
<1>6. (Plain /\ Lag)'
  BY <1>1, <1>2, <1>3 DEF Plain, Lag, Deflating
<1>7. bits' = UShort((output' + 1) * 8)
  <2>1. size - 5 = output' + 1
    BY <1>2, <1>3
  <2> QED
    BY <1>1, <2>1
<1>8. CASE size + 2 < bufferSize
  <2>1. /\ bufferSize' = bufferSize
        /\ \A i \in 0 .. bufferSize - 1 :
               buffer'[i] = IF i >= 5 /\ i < 7 THEN Stamp(i) ELSE buffer[i]
    BY <1>1, <1>2, <1>8, Written, ByteBufferAssumption
  <2>2. ASSUME Fits PROVE Whole'
    <3>1. ~outside' /\ size' <= bufferSize'
      BY <1>2, <1>3, <2>1, <2>2
    <3>2. \A i \in 0 .. size' - 1 : buffer'[i] = Stamp(i)
      BY <1>2, <1>3, <2>1, <2>2 DEF Stamped
    <3> QED
      BY <3>1, <3>2 DEF Whole
  <2>3. ASSUME ~Fits PROVE Lost(size - 1)'
    <3>1. Lost(size + 1)
      BY <1>2, <1>8, <2>3 DEF Fits
    <3> QED
      BY <1>2, <1>3, <2>1, <3>1 DEF Lost
  <2>4. Kept' /\ Token'
    BY <1>1, <1>3, <1>7, <2>2, <2>3 DEF Kept, Token, Tokens, Fits
  <2> QED
    BY <1>4, <1>5, <1>6, <2>4 DEF EInv
<1>9. CASE size + 2 >= bufferSize
  <2>1. \A i \in 0 .. bufferSize' - 1 :
            buffer'[i] = IF i >= 5 /\ i < 7 THEN Stamp(i)
                         ELSE IF i < size /\ i < bufferSize
                              THEN buffer[i] ELSE Junk
    BY <1>1, <1>2, <1>9, Written, ByteBufferAssumption
  <2>2. ~Fits
    BY <1>2, <1>9 DEF Fits
  <2>3. Lost(size - 1)'
    <3>1. size' - 1 \in 7 .. size' - 1 /\ size' - 1 = size + 1
      BY <1>2, <1>3
    <3>2. size' - 1 < bufferSize' => buffer'[size' - 1] = Junk
      BY <1>2, <1>3, <2>1, <3>1
    <3> QED
      BY <3>1, <3>2 DEF Lost
  <2>4. Kept' /\ Token'
    BY <1>1, <1>3, <1>7, <2>2, <2>3 DEF Kept, Token, Tokens, Fits
  <2> QED
    BY <1>4, <1>5, <1>6, <2>4 DEF EInv
<1> QED
  BY <1>2, <1>8, <1>9

-----------------------------------------------------------------------------
\* A write of a packet that is sent as it is.
LEMMA PlainWrite ==
    ASSUME EInv, stage \in {"length", "index", "body"}, NEW n \in Nat,
           n < ShortMod, Write(n)
    PROVE  /\ (offset = size /\ ~outside /\ Stamped(0 .. size - 1) /\ output = -1)'
           /\ packet' = packet /\ room' = room
           /\ bufferSize' \in Nat /\ offset' \in Nat /\ size' \in Nat
           /\ packet \in Nat /\ pending \in Nat /\ room \in Nat
           /\ size' <= bufferSize'
           /\ packet < ShortMod /\ 10 + packet <= room /\ room <= bufferSize'
<1>1. /\ bufferSize \in Nat /\ offset \in Nat /\ size \in Nat /\ packet \in Nat
      /\ pending \in Nat /\ room \in Nat /\ size <= bufferSize
      /\ packet < ShortMod /\ 10 + packet <= room /\ room <= bufferSize
      /\ output = -1 /\ offset = size /\ ~outside
      /\ \A i \in 0 .. size - 1 : buffer[i] = Stamp(i)
  BY DEF EInv, Numbers, Sizes, Plain, Sending, Stamped
<1>2. /\ bufferSize' \in Nat /\ bufferSize' >= bufferSize
      /\ offset' = offset + n /\ size' = size + n /\ size + n < bufferSize'
      /\ packet' = packet /\ output' = output /\ room' = room
      /\ ~outside /\ offset + n <= bufferSize' => ~outside'
  BY <1>1, Written
<1>3. \A i \in 0 .. size' - 1 : buffer'[i] = Stamp(i)
  <2>1. CASE size + n < bufferSize
    <3>1. /\ bufferSize' = bufferSize
          /\ \A i \in 0 .. bufferSize - 1 :
                 buffer'[i] = IF i >= offset /\ i < offset + n
                              THEN Stamp(i) ELSE buffer[i]
      BY <1>1, <2>1, Written
    <3> QED
      BY <1>1, <1>2, <3>1
  <2>2. CASE size + n >= bufferSize
    <3>1. \A i \in 0 .. bufferSize' - 1 :
              buffer'[i] = IF i >= offset /\ i < offset + n
                           THEN Stamp(i)
                           ELSE IF i < size /\ i < bufferSize
                                THEN buffer[i] ELSE Junk
      BY <1>1, <2>2, Written
    <3> QED
      BY <1>1, <1>2, <3>1
  <2> QED
    BY <1>1, <2>1, <2>2
<1> QED
  BY <1>1, <1>2, <1>3 DEF Stamped

\* What the steps of such a packet have in common.
LEMMA PlainStep ==
    ASSUME EInv, stage \in {"length", "index", "body"},
           stage' \in {"index", "body", "sent"}, NEW n \in Nat, n < ShortMod,
           Write(n), pending' \in Nat, stage' # "sent" => pending' = packet,
           bits' = UShort(packet * 8)
    PROVE  EInv'
<1>1. /\ (offset = size /\ ~outside /\ Stamped(0 .. size - 1) /\ output = -1)'
      /\ packet' = packet /\ room' = room
      /\ bufferSize' \in Nat /\ offset' \in Nat /\ size' \in Nat
      /\ packet \in Nat /\ room \in Nat /\ size' <= bufferSize'
      /\ packet < ShortMod /\ 10 + packet <= room /\ room <= bufferSize'
  BY PlainWrite
<1>2. (Stages /\ Rewound)'
  BY NewStage DEF Sending
<1>3. (Numbers /\ Sizes /\ Start)'
  BY <1>1 DEF Numbers, Sizes, Start, Sending, Deflating
<1>4. (Plain /\ Lag)'
  BY <1>1 DEF Plain, Lag, Deflating
<1>5. (Kept /\ Token)'
  BY <1>1 DEF Kept, Token, Tokens
<1> QED
  BY <1>2, <1>3, <1>4, <1>5 DEF EInv

LEMMA WriteLengthStep ==
    ASSUME EInv, WriteLength
    PROVE  EInv'
<1>1. /\ stage = "length" /\ stage' \in {"index", "body"} /\ Write(2)
      /\ bits' = UShort(packet * 8) /\ pending' = pending
  BY DEF WriteLength
<1>2. pending \in Nat /\ pending = packet
  BY <1>1 DEF EInv, Numbers, Plain
<1> QED
  BY <1>1, <1>2, PlainStep, ByteBufferAssumption

LEMMA WriteIndexStep ==
    ASSUME EInv, WriteIndex
    PROVE  EInv'
<1>1. stage = "index" /\ stage' = "body" /\ Write(3) /\ pending' = pending /\ bits' = bits
  BY DEF WriteIndex, Stage
<1>2. pending \in Nat /\ pending = packet /\ bits = UShort(packet * 8)
  BY <1>1 DEF EInv, Numbers, Plain
<1> QED
  BY <1>1, <1>2, PlainStep, ByteBufferAssumption

LEMMA WriteBodyStep ==
    ASSUME EInv, WriteBody
    PROVE  EInv'
<1>1. stage = "body" /\ stage' = "sent" /\ Write(pending) /\ pending' = 0 /\ bits' = bits
  BY DEF WriteBody, Stage
<1>2. /\ pending \in Nat /\ pending < ShortMod /\ bits = UShort(packet * 8)
  BY <1>1 DEF EInv, Numbers, Sizes, Plain, Sending
<1> QED
  BY <1>1, <1>2, PlainStep

-----------------------------------------------------------------------------
LEMMA TokenArrivesStep ==
    ASSUME EInv, NEW stream \in Streams, TokenArrives(stream)
    PROVE  EInv'
<1>1. /\ stream.room \in Nat /\ stream.size \in Nat /\ stream.end \in Nat
      /\ 8 <= stream.end /\ stream.end <= stream.size /\ stream.size <= stream.room
  BY EditsAssumption
<1>2. /\ stage = "none" /\ stage' = "before" /\ bufferSize' = stream.room
      /\ size' = stream.size /\ offset' = stream.end
      /\ packet' = stream.size /\ pending' = stream.end /\ room' = stream.room
      /\ outside' = outside /\ ~outside
      /\ buffer' = [i \in 0 .. stream.room - 1 |->
                       IF i < stream.size /\ i \notin stream.end - 4 .. stream.end - 1
                       THEN Stamp(i) ELSE Junk]
  BY DEF TokenArrives, Idle, EInv, Rewound
<1>3. \A i \in 0 .. packet' - 1 :
          i \notin pending' - 4 .. pending' - 1 => buffer'[i] = Stamp(i)
  BY <1>1, <1>2
<1>4. (Stages /\ Rewound /\ Numbers /\ Sizes /\ Start)'
  BY <1>1, <1>2 DEF Stages, Rewound, Numbers, Sizes, Start, Sending, Deflating, Tokens
<1>5. (Plain /\ Lag /\ Kept)'
  BY <1>2 DEF Plain, Lag, Kept, Deflating
<1>6. Token'
  BY <1>1, <1>2, <1>3 DEF Token, Stamped
<1> QED
  BY <1>4, <1>5, <1>6 DEF EInv

LEMMA TokenBackStep ==
    ASSUME EInv, TokenBack
    PROVE  EInv'
<1>1. /\ stage = "before" /\ stage' = "token" /\ offset' = offset - 4
      /\ buffer' = buffer /\ bufferSize' = bufferSize /\ size' = size
      /\ packet' = packet /\ output' = output /\ pending' = pending
      /\ room' = room /\ outside' = outside
  BY DEF TokenBack, Stage, Seek
<1>2. Numbers /\ Token
  BY DEF EInv
<1>3. offset = pending /\ 8 <= pending
  BY <1>1, <1>2 DEF Token, Tokens
<1>4. (Stages /\ Rewound /\ Numbers /\ Sizes /\ Start)'
  BY <1>1, <1>2, <1>3, NewStage DEF Numbers, Sizes, Start, Sending, Deflating, Tokens
<1>5. (Plain /\ Lag /\ Kept)'
  BY <1>1 DEF Plain, Lag, Kept, Deflating
<1>6. Token'
  BY <1>1, <1>2, <1>3 DEF Token, Tokens, Stamped
<1> QED
  BY <1>4, <1>5, <1>6 DEF EInv

\* The token goes where its encoded form ended, whether or not writeBytes has
\* found it necessary to make room behind the packet.
LEMMA TokenWriteStep ==
    ASSUME EInv, TokenWrite
    PROVE  EInv'
<1>1. stage = "token" /\ stage' = "resize" /\ Write(4) /\ pending' = pending
  BY DEF TokenWrite, Stage
<1>2. /\ bufferSize \in Nat /\ offset \in Nat /\ size \in Nat /\ packet \in Nat
      /\ pending \in Nat /\ room \in Nat /\ size <= bufferSize
      /\ 8 <= pending /\ pending <= packet /\ ~outside
      /\ size = packet /\ offset = pending - 4
      /\ \A i \in 0 .. packet - 1 :
             i \notin pending - 4 .. pending - 1 => buffer[i] = Stamp(i)
  BY <1>1 DEF EInv, Numbers, Token, Tokens, Stamped
<1>3. /\ bufferSize' \in Nat /\ bufferSize' >= bufferSize
      /\ offset' = pending /\ size' = packet + 4 /\ packet + 4 < bufferSize'
      /\ packet' = packet /\ output' = output /\ room' = room
      /\ ~outside /\ pending <= bufferSize' => ~outside'
  BY <1>1, <1>2, Written, ByteBufferAssumption
<1>4. ASSUME NEW i \in 0 .. packet - 1
      PROVE  buffer'[i] = Stamp(i)
  <2>1. CASE size + 4 < bufferSize
    <3>1. /\ bufferSize' = bufferSize
          /\ \A j \in 0 .. bufferSize - 1 :
                 buffer'[j] = IF j >= offset /\ j < offset + 4
                              THEN Stamp(j) ELSE buffer[j]
      BY <1>1, <1>2, <2>1, Written, ByteBufferAssumption
    <3> QED
      BY <1>2, <1>3, <3>1
  <2>2. CASE size + 4 >= bufferSize
    <3>1. \A j \in 0 .. bufferSize' - 1 :
              buffer'[j] = IF j >= offset /\ j < offset + 4
                           THEN Stamp(j)
                           ELSE IF j < size /\ j < bufferSize
                                THEN buffer[j] ELSE Junk
      BY <1>1, <1>2, <2>2, Written, ByteBufferAssumption
    <3> QED
      BY <1>2, <1>3, <3>1
  <2> QED
    BY <1>2, <2>1, <2>2
<1>5. (Stages /\ Rewound /\ Numbers /\ Sizes /\ Start)'
  BY <1>1, <1>2, <1>3, NewStage DEF Numbers, Sizes, Start, Sending, Deflating, Tokens
<1>6. (Plain /\ Lag /\ Kept)'
  BY <1>1 DEF Plain, Lag, Kept, Deflating
<1>7. Token'
  BY <1>1, <1>2, <1>3, <1>4 DEF Token, Tokens, Stamped
<1> QED
  BY <1>5, <1>6, <1>7 DEF EInv

LEMMA TokenReadStep ==
    ASSUME EInv, TokenRead
    PROVE  EInv'
<1>1. /\ stage = "resize" /\ stage' = "read" /\ size' = size - 4
      /\ buffer' = buffer /\ bufferSize' = bufferSize /\ offset' = offset
      /\ packet' = packet /\ output' = output /\ pending' = pending
      /\ room' = room /\ outside' = outside
  BY DEF TokenRead, Stage, SizeBefore
<1>2. Numbers /\ Token
  BY DEF EInv
<1>3. size = packet + 4 /\ packet <= bufferSize
  BY <1>1, <1>2 DEF Token, Tokens
<1>4. (Stages /\ Rewound /\ Numbers /\ Sizes /\ Start)'
  BY <1>1, <1>2, <1>3, NewStage DEF Numbers, Sizes, Start, Sending, Deflating, Tokens
<1>5. (Plain /\ Lag /\ Kept)'
  BY <1>1 DEF Plain, Lag, Kept, Deflating
<1>6. Token'
  BY <1>1, <1>2, <1>3 DEF Token, Tokens, Numbers, Stamped
<1> QED
  BY <1>4, <1>5, <1>6 DEF EInv

LEMMA DoneStep ==
    ASSUME EInv, Done
    PROVE  EInv'
  BY DEF Done, EInv, Stages, Rewound, Numbers, Sizes, Start, Plain, Lag, Kept, Token,
         Sending, Deflating, Tokens

-----------------------------------------------------------------------------
LEMMA EditNextEInv == EInv /\ [EditNext]_<<vars, editVars>> => EInv'
<1> SUFFICES ASSUME EInv, [EditNext]_<<vars, editVars>> PROVE EInv'
  OBVIOUS
<1>1. CASE \E n \in Packets : \E out \in {-1} \cup (1 .. n + Expansion) : Encapsulate(n, out)
  BY <1>1, EncapsulateStep
<1>2. CASE WriteHeader \/ SkipSize \/ WriteId \/ WriteChunk \/ GoBack \/ WriteSize
  BY <1>2, WriteHeaderStep, SkipSizeStep, WriteIdStep, WriteChunkStep, GoBackStep,
     WriteSizeStep
<1>3. CASE WriteLength \/ WriteIndex \/ WriteBody
  BY <1>3, WriteLengthStep, WriteIndexStep, WriteBodyStep
<1>4. CASE \E stream \in Streams : TokenArrives(stream)
  BY <1>4, TokenArrivesStep
<1>5. CASE TokenBack \/ TokenWrite \/ TokenRead \/ Done
  BY <1>5, TokenBackStep, TokenWriteStep, TokenReadStep, DoneStep
<1>6. CASE stage = "none" /\ Next /\ UNCHANGED editVars
  BY <1>6, BufferStep
<1>7. CASE UNCHANGED <<vars, editVars>>
  BY <1>7 DEF vars, args, editVars, EInv, Stages, Rewound, Numbers, Sizes, Start, Plain,
              Lag, Kept, Token, Stamped, Lost, Fits, Whole, Sending, Deflating, Tokens
<1> QED
  BY <1>1, <1>2, <1>3, <1>4, <1>5, <1>6, <1>7 DEF EditNext, Edit

LEMMA EditInvariance == EditSpec => []EInv
  BY EditInitEInv, EditNextEInv, PTL DEF EditSpec

\* A lost byte shows: it is junk where a byte of the packet belongs.
LEMMA LostIsNotWhole ==
    ASSUME Numbers, stage # "none", Lost(size - 1)
    PROVE  ~Whole
<1>1. PICK i \in 7 .. size - 1 : i < bufferSize => buffer[i] = Junk
  BY DEF Lost
<1>2. size \in Nat /\ bufferSize \in Nat /\ size <= bufferSize
  BY DEF Numbers
<1>3. i \in 0 .. size - 1 /\ buffer[i] # Stamp(i)
  BY <1>1, <1>2 DEF Junk, Stamp
<1> QED
  BY <1>3 DEF Whole

\* Every packet is sent as it was written if it is not deflated; a deflated one
\* exactly if its bytes and eight more stay below the array the caller got,
\* which holds whenever deflate adds no more than one byte.
THEOREM EncapsulationIsKept == EditSpec => []EncapsulatedKept
<1>1. EInv => EncapsulatedKept
  <2> SUFFICES ASSUME EInv, stage = "sent"
               PROVE  /\ Whole <=> (output = -1 \/ output + 8 < room)
                      /\ output <= packet + 1 => Whole
    BY DEF EncapsulatedKept
  <2>1. /\ Numbers /\ packet \in Nat /\ room \in Nat /\ size <= bufferSize
        /\ 10 + packet <= room
        /\ output = -1 \/ output \in Nat \ {0}
    BY DEF EInv, Numbers, Sizes, Sending
  <2>2. CASE output = -1
    <3>1. ~outside /\ Stamped(0 .. size - 1)
      BY <2>2 DEF EInv, Plain
    <3> QED
      BY <2>1, <2>2, <3>1 DEF Whole, Stamped
  <2>3. CASE output # -1
    <3>1. IF Fits THEN Whole ELSE Lost(size - 1)
      BY <2>3 DEF EInv, Kept
    <3>2. ~Fits => ~Whole
      BY <2>1, <3>1, LostIsNotWhole
    <3>3. output <= packet + 1 => Fits
      BY <2>1, <2>3 DEF Fits
    <3> QED
      BY <2>3, <3>1, <3>2, <3>3 DEF Fits
  <2> QED
    BY <2>2, <2>3
<1> QED
  BY <1>1, EditInvariance, PTL

\* The size of a frame is the number of its bits for all frames whose bits can
\* be counted in an unsigned short, and for no others.
THEOREM FrameSizeIsAnnounced == EditSpec => []SizeAnnounced
<1>1. \A n \in Nat : UShort(n) = n <=> n < ShortMod
  <2> SUFFICES ASSUME NEW n \in Nat PROVE UShort(n) = n <=> n < ShortMod
    OBVIOUS
  <2>1. n % ShortMod < ShortMod
    BY ByteBufferAssumption
  <2> QED
    BY <2>1, ByteBufferAssumption DEF UShort
<1>2. EInv => SizeAnnounced
  <2> SUFFICES ASSUME EInv, stage = "sent"
               PROVE  LET frame == IF output = -1 THEN packet ELSE output + 1
                      IN  bits = frame * 8 <=> frame * 8 < ShortMod
    BY DEF SizeAnnounced
  <2>1. packet \in Nat /\ (output = -1 \/ output \in Nat)
    BY DEF EInv, Numbers, Sizes, Sending
  <2>2. bits = UShort((IF output = -1 THEN packet ELSE output + 1) * 8)
    BY DEF EInv, Plain, Kept
  <2>3. (IF output = -1 THEN packet ELSE output + 1) * 8 \in Nat
    BY <2>1
  <2> QED
    BY <1>1, <2>2, <2>3
<1> QED
  BY <1>2, EditInvariance, PTL

\* Putting the decoded token into the receive buffer changes no byte but its
\* own, whatever is received behind it and wherever the buffer ends.
THEOREM TokenEditKeepsStream == EditSpec => []TokenKeepsStream
<1>1. EInv => TokenKeepsStream
  BY DEF EInv, Numbers, Token, Tokens, Stamped, TokenKeepsStream, Whole
<1> QED
  BY <1>1, EditInvariance, PTL
=============================================================================
