---------------------------- MODULE Conversions -----------------------------
(***************************************************************************)
(* The conversions between numbers and bytes: what the read functions of    *)
(* ByteBuffer make of what its write functions wrote, the server hash of    *)
(* Encryption::genServerHash, and Base64.  They are pure functions, stated  *)
(* here as operators; the one variable is the input a conversion is tried   *)
(* with.  A char is a number from 0 up until the code uses its sign.        *)
(***************************************************************************)
EXTENDS Integers, Sequences, SequencesExt

CONSTANTS
    Byte,     \* 256; the fixed-size numbers are tried with a smaller byte
    Trials    \* [of |-> name of the conversion, input |-> its argument]

VARIABLE trial

Octet == 0 .. 255

Untried == [of |-> "nothing"]

\* The number with these digits, the highest first, which counts as first.
NumberFrom(first, digits, base) ==
    LET number[i \in 1 .. Len(digits)] ==
            IF i = 1 THEN first ELSE number[i - 1] * base + digits[i]
    IN  number[Len(digits)]

Number(digits, base) == NumberFrom(digits[1], digits, base)

\* The same as two's complement: the first byte carries the sign.
SignedNumber(bytes, base) ==
    NumberFrom(IF bytes[1] < base \div 2 THEN bytes[1] ELSE bytes[1] - base, bytes, base)

-----------------------------------------------------------------------------
(* VarInt: groups of seven bits of a 32-bit word, the lowest first.         *)

\* Mutant: the cast to unsigned is left out.  It stops at -1.
ShiftedSigned(value) == IF value = -1 THEN 0 ELSE value \div 128

\* (unsigned int) value >> 7
Shifted(value) == (value \div 128) % 33554432

\* writeVarInt: what is left after each byte, until nothing is.
VarIntBytes(value) ==
    LET left[i \in 1 .. 5] == Shifted(IF i = 1 THEN value ELSE left[i - 1])
        size == SelectInSeq(left, LAMBDA rest : rest = 0)
    IN  [i \in 1 .. size |->
            ((IF i = 1 THEN value ELSE left[i - 1]) % 128) + (IF i < size THEN 128 ELSE 0)]

\* (read & 0x7f) << (7 * n) in an int, which keeps four bits of the fifth byte.
Group(b, n) ==
    IF n < 4 THEN (b % 128) * <<1, 128, 16384, 2097152>>[n + 1]
             ELSE SignedNumber(<<(b % 16)>>, 16) * 268435456

\* readVarInt of what is readable: the number and the bytes it takes, or the
\* exception of the byte that is missing or one too many.
VarIntRead(bytes) ==
    LET n == SelectInSeq(bytes, LAMBDA b : b < 128)
        result[i \in 1 .. n] ==
            (IF i = 1 THEN 0 ELSE result[i - 1]) + Group(bytes[i], i - 1)
    IN  IF n \in 1 .. 5
        THEN [value |-> result[n], bytes |-> n]
        ELSE [throws |-> IF Len(bytes) > 5 THEN "VarInt is too big"
                                           ELSE "Cannot read anymore"]

-----------------------------------------------------------------------------
(* Numbers of a fixed size                                                  *)

\* value >> (8 * n)
RightShift(value, n) ==
    LET shifted[i \in 0 .. n] == IF i = 0 THEN value ELSE shifted[i - 1] \div Byte
    IN  shifted[n]

\* writeUnsignedShort, writeInt, writeLong: the highest of n bytes first.
Fixed(value, n) == [i \in 1 .. n |-> RightShift(value, n - i) % Byte]

\* writeInt24bit: the lowest of three bytes first.
Int24(value) == [i \in 1 .. 3 |-> RightShift(value, i - 1) % Byte]

\* readUnsignedShort, whose operands the compiler evaluates from the left.
ReadUnsignedShort(bytes) == Number(bytes, Byte)

\* Mutant: readLong adds its lower half as an int, sign and all.
ReadLongInHalves(bytes) ==
    LET n == Len(bytes) \div 2
    IN  SignedNumber(SubSeq(bytes, 1, n), Byte) * Byte ^ n
            + SignedNumber(SubSeq(bytes, n + 1, 2 * n), Byte)

\* readShort, readInt, readLong.
ReadFixed(bytes) == SignedNumber(bytes, Byte)

\* readInt24bit and readIntLE.
ReadInt24(bytes) == Number(Reverse(bytes), Byte)
ReadIntLE(bytes) == SignedNumber(Reverse(bytes), Byte)

-----------------------------------------------------------------------------
(* genServerHash: the digits of the hash as a signed hexadecimal number.    *)

\* Mutant: the carry is not cleared, so that every byte has one added.
CarriedThroughout(bytes) == [i \in DOMAIN bytes |-> (256 - bytes[i]) % 256]

\* Two's complement from the last byte up; the carry is lost where the sum
\* fits in a byte.
Negated(bytes) ==
    LET n == Len(bytes)
        carry[i \in 0 .. n] ==
            IF i = 0 \/ 255 - bytes[n + 1 - i] + carry[i - 1] > 255 THEN 1 ELSE 0
    IN  [i \in 1 .. n |-> (255 - bytes[i] + carry[n - i]) % 256]

\* Two digits per byte; only those of the first byte are left out when they
\* are zero.
HexDigits(bytes) ==
    LET digit(i) == IF i % 2 = 1 THEN bytes[(i + 1) \div 2] \div 16 ELSE bytes[i \div 2] % 16
        skipped == IF bytes[1] >= 16 THEN 0 ELSE IF bytes[1] > 0 THEN 1 ELSE 2
    IN  [i \in 1 .. 2 * Len(bytes) - skipped |-> digit(i + skipped)]

ServerHash(bytes) ==
    LET minus == bytes[1] >= 128
    IN  [minus |-> minus,
         digits |-> HexDigits(IF minus THEN Negated(bytes) ELSE bytes)]

-----------------------------------------------------------------------------
(* Base64: characters are their index in the alphabet, and Pad is '='.      *)

Pad == 64
NotFound == 255     \* npos as a BYTE

\* The four characters of three bytes, and the three bytes of four characters.
Sextets(b) ==
    <<b[1] \div 4, ((b[1] % 4) * 16) + (b[2] \div 16),
      ((b[2] % 16) * 4) + (b[3] \div 64), b[3] % 64>>

Octets(c) ==
    <<((c[1] * 4) + ((c[2] % 64) \div 16)) % 256,
      ((c[2] % 16) * 16) + ((c[3] % 64) \div 4),
      (((c[3] % 4) * 64) + c[4]) % 256>>

\* Group g of n elements of a sequence, counted from 0; the last one is filled
\* up with x.
Chunk(s, n, g, x) == [k \in 1 .. n |-> IF n * g + k <= Len(s) THEN s[n * g + k] ELSE x]

\* base64_encode: four characters for every three bytes.  Those that no bit of
\* a byte is in are Pad.
Encode(bytes) ==
    [i \in 1 .. 4 * ((Len(bytes) + 2) \div 3) |->
        LET g == (i - 1) \div 4
            k == (i - 1) % 4
        IN  IF 3 * g + k > Len(bytes) THEN Pad ELSE Sextets(Chunk(bytes, 3, g, 0))[k + 1]]

\* The bytes of so many characters that lie in them whole.
DecodedSize(n) == 3 * (n \div 4) + (IF n % 4 = 0 THEN 0 ELSE (n % 4) - 1)

Decoded(text, size) ==
    [i \in 1 .. size |-> Octets(Chunk(text, 4, (i - 1) \div 3, NotFound))[((i - 1) % 3) + 1]]

\* Mutant: the last group gives as many bytes as it has characters.
DecodeRounded(string) ==
    LET text == SelectSeq(string, LAMBDA c : c # Pad)
    IN  Decoded(text, 3 * (Len(text) \div 4) + (Len(text) % 4))

\* base64_decode: up to the first Pad.
Decode(string) ==
    LET end == SelectInSeq(string, LAMBDA c : c = Pad)
        text == IF end = 0 THEN string ELSE SubSeq(string, 1, end - 1)
    IN  Decoded(text, DecodedSize(Len(text)))

-----------------------------------------------------------------------------
\* What the callers convert: ints and longs, unsigned shorts and numbers of
\* three bytes, and strings of bytes, of which a hash has twenty.  A number
\* fits when what is left of it without the lower bytes does.
MaxInt == 2147483647
Int32 == -MaxInt - 1 .. MaxInt
Fits(value, n) == RightShift(value, n - 1) \in 0 .. Byte - 1
FitsSigned(value, n) == RightShift(value, n - 1) \in -(Byte \div 2) .. (Byte \div 2) - 1

ASSUME TrialsAssumption ==
    /\ Byte \in Nat \ {0} /\ Byte % 2 = 0
    /\ \A t \in Trials :
           /\ t.of = "varint" => t.input \in Int32
           /\ t.of = "signed" =>
                  t.size \in {2, 4, 8} /\ t.input \in Int /\ FitsSigned(t.input, t.size)
           /\ t.of = "unsigned" =>
                  t.size \in {2, 3} /\ t.input \in Nat /\ Fits(t.input, t.size)
           /\ t.of = "hash" => t.input \in Seq(Octet) /\ Len(t.input) >= 2
           /\ t.of = "base64" => t.input \in Seq(Octet)

-----------------------------------------------------------------------------
TrialInit == trial = Untried

\* A conversion is tried ...
Try == trial = Untried /\ trial' \in Trials

\* ... and the next one.
Again == trial # Untried /\ trial' = Untried

TrialNext == Try \/ Again

TrialSpec == TrialInit /\ [][TrialNext]_trial

-----------------------------------------------------------------------------
\* Every int comes back from its VarInt, negative ones included, and takes all
\* the bytes written for it; a part of them is never taken for a whole number.
VarIntsReadBack ==
    trial.of = "varint" =>
        LET bytes == VarIntBytes(trial.input)
        IN  /\ VarIntRead(bytes) = [value |-> trial.input, bytes |-> Len(bytes)]
            /\ \A n \in 0 .. Len(bytes) - 1 :
                   VarIntRead(SubSeq(bytes, 1, n))
                       = [throws |-> "Cannot read anymore"]

\* Numbers of a fixed size come back, with their sign if they have one: short,
\* int and long have 2, 4 and 8 bytes, unsigned short and int24bit 2 and 3.
FixedReadBack ==
    /\ trial.of = "signed" =>
           LET bytes == Fixed(trial.input, trial.size)
           IN  /\ ReadFixed(bytes) = trial.input
               /\ trial.size = 4 => ReadIntLE(Reverse(bytes)) = trial.input
    /\ trial.of = "unsigned" =>
           IF trial.size = 2 THEN ReadUnsignedShort(Fixed(trial.input, 2)) = trial.input
                             ELSE ReadInt24(Int24(trial.input)) = trial.input

\* The server hash is the number whose two's complement the bytes are, however
\* far the carry runs; it has a leading zero, with which the session server
\* does not know it, exactly when the number fits in half a byte less than the
\* bytes after the first (src/utils/Encryption.cpp:87-93).
HashIsSignedHex ==
    trial.of = "hash" =>
        LET hash == ServerHash(trial.input)
            size == Number(hash.digits, 16)
            half == [i \in 1 .. Len(trial.input) - 1 |-> IF i = 1 THEN 16 ELSE 0]
        IN  /\ (IF hash.minus THEN -size ELSE size) = SignedNumber(trial.input, 256)
            /\ hash.digits[1] = 0 <=> size < Number(half, 256)

\* Base64 gives back every byte, whatever is left over after whole groups.
Base64ReadsBack ==
    trial.of = "base64" => Decode(Encode(trial.input)) = trial.input
=============================================================================
