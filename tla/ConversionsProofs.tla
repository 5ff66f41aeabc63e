-------------------------- MODULE ConversionsProofs ---------------------------
(***************************************************************************)
(* Proofs about Conversions for all numbers and strings, of any length.     *)
(***************************************************************************)
EXTENDS Conversions, DataInduction

(***************************************************************************)
(* The recursive functions of the definitions, and that they are what they  *)
(* are defined to be.                                                       *)
(***************************************************************************)

\* number of NumberFrom.
Numbers(first, digits, base) ==
    CHOOSE number : number =
        [i \in 1 .. Len(digits) |->
            IF i = 1 THEN first ELSE number[i - 1] * base + digits[i]]

LEMMA NumberIs ==
    \A first, digits, base :
        NumberFrom(first, digits, base) = Numbers(first, digits, base)[Len(digits)]
  BY DEF NumberFrom, Numbers

LEMMA NumbersExist ==
    ASSUME NEW first \in Int, NEW digits \in Seq(Int), NEW base \in Int, Len(digits) >= 1
    PROVE  /\ Numbers(first, digits, base) \in [1 .. Len(digits) -> Int]
           /\ Numbers(first, digits, base)[1] = first
           /\ \A i \in 2 .. Len(digits) : Numbers(first, digits, base)[i]
                  = Numbers(first, digits, base)[i - 1] * base + digits[i]
<1> DEFINE size == Len(digits)
<1> DEFINE step == [pair \in (1 .. size) \X Int |-> pair[2] * base + digits[pair[1]]]
<1>1. size \in Nat /\ \A i \in 1 .. size : digits[i] \in Int
  OBVIOUS
<1>2. \A i \in 1 .. size, m \in Int : step[<<i, m>>] = m * base + digits[i]
  OBVIOUS
<1>3. IsStep(step, 1, size, Int)
  <2>1. ASSUME NEW pair \in (1 .. size) \X Int PROVE pair[2] * base + digits[pair[1]] \in Int
    <3>1. pair[1] \in 1 .. size /\ pair[2] \in Int
      OBVIOUS
    <3>2. digits[pair[1]] \in Int /\ pair[2] * base \in Int
      BY <1>1, <3>1
    <3> QED
      BY <3>2
  <2> QED
    BY <2>1 DEF IsStep
<1> HIDE DEF step
<1>4. \E g : IsRecursive(g, 1, size, Int, first, step)
  <2>1. 1 \in Int /\ size \in Int /\ 1 <= size
    BY <1>1
  <2> QED
    BY <1>3, <2>1, Recursion
<1>5. PICK g \in [1 .. size -> Int] :
           g[1] = first /\ \A i \in 1 .. size : i # 1 => g[i] = step[<<i, g[i - 1]>>]
  BY <1>4 DEF IsRecursive
<1>6. ASSUME NEW i \in 1 .. size, i # 1 PROVE g[i] = g[i - 1] * base + digits[i]
  <2> HIDE DEF size
  <2>1. g[i - 1] \in Int
    BY <1>1, <1>5, <1>6
  <2> QED
    BY <1>2, <1>5, <1>6, <2>1
<1>7. g = [i \in 1 .. size |-> IF i = 1 THEN first ELSE g[i - 1] * base + digits[i]]
  BY <1>5, <1>6
<1> DEFINE n == Numbers(first, digits, base)
<1>8. n = [i \in 1 .. size |-> IF i = 1 THEN first ELSE n[i - 1] * base + digits[i]]
  BY <1>7 DEF Numbers
<1> HIDE DEF n
<1>9. n[1] = first /\ \A i \in 1 .. size : i # 1 => n[i] = n[i - 1] * base + digits[i]
  <2>1. 1 \in 1 .. size
    BY <1>1
  <2> HIDE DEF size
  <2> QED
    BY <1>8, <2>1
<1>10. \A i \in 1 .. size : n[i] = g[i]
  <2>1. \A i \in 1 .. size : i # 1 /\ n[i - 1] = g[i - 1] => n[i] = g[i]
    BY <1>6, <1>9
  <2>2. AgreeStepwise(n, g, 1, size)
    BY <1>5, <1>9, <2>1 DEF AgreeStepwise
  <2>3. 1 \in Int /\ size \in Int
    BY <1>1
  <2> QED
    BY <2>2, <2>3, Agreement
<1>11. n \in [1 .. size -> Int]
  BY <1>8, <1>10
<1> QED
  BY SMTT(60), <1>9, <1>11 DEF n

\* shifted of RightShift.
Shifts(value, n) ==
    CHOOSE shifted : shifted =
        [i \in 0 .. n |-> IF i = 0 THEN value ELSE shifted[i - 1] \div Byte]

LEMMA ShiftIs == \A value, n : RightShift(value, n) = Shifts(value, n)[n]
  BY DEF RightShift, Shifts

LEMMA ByteFacts == Byte \in Int /\ Byte >= 2 /\ Byte % 2 = 0 /\ Byte = 2 * (Byte \div 2)
<1>1. Byte \in Int /\ Byte > 0 /\ Byte % 2 = 0
  BY TrialsAssumption
<1> QED
  BY <1>1

\* Dividing by any positive number, and by Byte.
LEMMA Division ==
    ASSUME NEW m \in Int, NEW d \in Int, d > 0
    PROVE  /\ m \div d \in Int /\ m % d \in 0 .. d - 1
           /\ m = (m \div d) * d + (m % d)
  OBVIOUS

LEMMA ShiftsExist ==
    ASSUME NEW value \in Int, NEW n \in Nat
    PROVE  /\ Shifts(value, n) \in [0 .. n -> Int]
           /\ Shifts(value, n)[0] = value
           /\ \A i \in 1 .. n : Shifts(value, n)[i] = Shifts(value, n)[i - 1] \div Byte
<1> DEFINE step == [pair \in (0 .. n) \X Int |-> pair[2] \div Byte]
<1>1. \A m \in Int : m \div Byte \in Int
  BY ByteFacts, Division
<1>2. \A i \in 0 .. n, m \in Int : step[<<i, m>>] = m \div Byte
  OBVIOUS
<1>3. IsStep(step, 0, n, Int)
  BY <1>1 DEF IsStep
<1> HIDE DEF step
<1>4. \E g : IsRecursive(g, 0, n, Int, value, step)
  <2>1. 0 \in Int /\ n \in Int /\ 0 <= n
    OBVIOUS
  <2> QED
    BY <1>3, <2>1, Recursion
<1>5. PICK g \in [0 .. n -> Int] :
           g[0] = value /\ \A i \in 0 .. n : i # 0 => g[i] = step[<<i, g[i - 1]>>]
  BY <1>4 DEF IsRecursive
<1>6. ASSUME NEW i \in 0 .. n, i # 0 PROVE g[i] = g[i - 1] \div Byte
  <2>1. g[i - 1] \in Int
    BY <1>6
  <2> QED
    BY <1>2, <1>5, <1>6, <2>1
<1>7. g = [i \in 0 .. n |-> IF i = 0 THEN value ELSE g[i - 1] \div Byte]
  BY <1>5, <1>6
<1> DEFINE s == Shifts(value, n)
<1>8. s = [i \in 0 .. n |-> IF i = 0 THEN value ELSE s[i - 1] \div Byte]
  BY <1>7 DEF Shifts
<1> HIDE DEF s
<1>9. s[0] = value /\ \A i \in 0 .. n : i # 0 => s[i] = s[i - 1] \div Byte
  BY <1>8
<1>10. \A i \in 0 .. n : s[i] = g[i]
  <2>1. \A i \in 0 .. n : i # 0 /\ s[i - 1] = g[i - 1] => s[i] = g[i]
    BY <1>6, <1>9
  <2>2. AgreeStepwise(s, g, 0, n)
    BY <1>5, <1>9, <2>1 DEF AgreeStepwise
  <2>3. 0 \in Int /\ n \in Int
    OBVIOUS
  <2> QED
    BY <2>2, <2>3, Agreement
<1>11. s \in [0 .. n -> Int]
  BY <1>8, <1>10
<1>12. \A i \in 1 .. n : s[i] = s[i - 1] \div Byte
  BY <1>9
<1> QED
  BY <1>9, <1>11, <1>12 DEF s

\* A number shifted by nothing, and by one byte more.
LEMMA RightShifts ==
    ASSUME NEW value \in Int
    PROVE  /\ RightShift(value, 0) = value
           /\ \A n \in Nat : RightShift(value, n) \in Int
           /\ \A n \in Nat : RightShift(value, n + 1) = RightShift(value, n) \div Byte
<1>1. RightShift(value, 0) = value
  <2>1. Shifts(value, 0)[0] = value
    BY ShiftsExist
  <2> QED
    BY <2>1, ShiftIs
<1>2. ASSUME NEW n \in Nat
      PROVE  /\ RightShift(value, n) \in Int
             /\ RightShift(value, n + 1) = RightShift(value, n) \div Byte
  <2>0. PICK g, h : g = Shifts(value, n) /\ h = Shifts(value, n + 1)
    OBVIOUS
  <2>1. g \in [0 .. n -> Int] /\ g[0] = value /\ \A i \in 1 .. n : g[i] = g[i - 1] \div Byte
    BY ZenonT(90), <2>0, ShiftsExist
  <2>2. n + 1 \in Nat
    OBVIOUS
  <2>3. h[0] = value /\ \A i \in 1 .. n + 1 : h[i] = h[i - 1] \div Byte
    BY ZenonT(90), <2>0, <2>2, ShiftsExist
  <2>4. \A i \in 0 .. n : g[i] = h[i]
    <3>1. \A i \in 0 .. n : i # 0 /\ g[i - 1] = h[i - 1] => g[i] = h[i]
      BY <2>1, <2>3
    <3>2. AgreeStepwise(g, h, 0, n)
      BY <2>1, <2>3, <3>1 DEF AgreeStepwise
    <3>3. 0 \in Int /\ n \in Int
      OBVIOUS
    <3> QED
      BY <3>2, <3>3, Agreement
  <2>5. h[n + 1] = h[n] \div Byte
    <3>1. n + 1 \in 1 .. n + 1 /\ (n + 1) - 1 = n
      OBVIOUS
    <3> QED
      BY <2>3, <3>1
  <2>6. RightShift(value, n) = g[n] /\ RightShift(value, n + 1) = h[n + 1]
    BY <2>0, ShiftIs
  <2> QED
    BY <2>1, <2>4, <2>5, <2>6
<1> QED
  BY <1>1, <1>2

-----------------------------------------------------------------------------
(* Numbers of a fixed size                                                  *)

\* The remainder of a number that is off by one divisor at most.
LEMMA NearRemainder ==
    ASSUME NEW d \in Int, d > 0, NEW t \in Int
    PROVE  /\ 0 <= t /\ t < d => t % d = t
           /\ -d <= t /\ t < 0 => t % d = t + d
<1> DEFINE q == t \div d
<1>1. q \in Int /\ t % d \in 0 .. d - 1 /\ t = q * d + (t % d)
  BY Division
<1> HIDE DEF q
<1>2. q >= 1 => q * d >= d
  <2>1. q >= 1 => (q - 1) * d >= 0 /\ q * d = (q - 1) * d + d
    BY <1>1
  <2> QED
    BY <1>1, <2>1
<1>3. q <= -1 => q * d <= -d
  <2>1. q <= -1 => (-1 - q) * d >= 0 /\ q * d = -d - ((-1 - q) * d)
    BY <1>1
  <2> QED
    BY <1>1, <2>1
<1>4. q <= -2 => q * d <= -d - d
  <2>1. q <= -2 => (-2 - q) * d >= 0 /\ q * d = (-d - d) - ((-2 - q) * d)
    BY <1>1
  <2> QED
    BY <1>1, <2>1
<1>5. q = 0 => q * d = 0
  BY <1>1
<1>6. q = -1 => q * d = -d
  BY <1>1
<1>7. ASSUME 0 <= t, t < d PROVE t % d = t
  <2>1. q = 0
    BY <1>1, <1>2, <1>3, <1>7
  <2> QED
    BY <1>1, <1>5, <2>1
<1>8. ASSUME -d <= t, t < 0 PROVE t % d = t + d
  <2>1. q = -1
    <3>1. ~(q >= 1) /\ ~(q <= -2) /\ q # 0
      BY <1>1, <1>2, <1>4, <1>5, <1>8
    <3> QED
      BY <1>1, <3>1
  <2> QED
    BY <1>1, <1>6, <2>1
<1> QED
  BY <1>7, <1>8

\* The bytes of v, the highest first, are its digits.
IsFixed(bytes, v, n) ==
    /\ bytes \in Seq(Int) /\ Len(bytes) = n
    /\ \A i \in 1 .. n : bytes[i] = RightShift(v, n - i) % Byte

LEMMA FixedNumber ==
    ASSUME NEW v \in Int, NEW n \in Nat, n >= 1, NEW bytes, IsFixed(bytes, v, n)
    PROVE  NumberFrom(RightShift(v, n - 1), bytes, Byte) = v
<1> DEFINE first == RightShift(v, n - 1)
<1> DEFINE g == Numbers(first, bytes, Byte)
<1> DEFINE h == [i \in 1 .. n |-> RightShift(v, n - i)]
<1>1. bytes \in Seq(Int) /\ Len(bytes) = n /\ n - 1 \in Nat
  BY DEF IsFixed
<1>2. first \in Int
  BY <1>1, RightShifts
<1>3. /\ g[1] = first
      /\ \A i \in 2 .. n : g[i] = g[i - 1] * Byte + bytes[i]
  <2>1. Len(bytes) >= 1 /\ Byte \in Int
    BY <1>1, ByteFacts
  <2> HIDE DEF first
  <2> QED
    BY ZenonT(90), <1>1, <1>2, <2>1, NumbersExist
<1>4. ASSUME NEW i \in 2 .. n PROVE h[i] = h[i - 1] * Byte + bytes[i]
  <2> DEFINE m == RightShift(v, n - i)
  <2>1. n - i \in Nat /\ (n - i) + 1 = n - (i - 1) /\ i \in 1 .. n /\ i - 1 \in 1 .. n
    OBVIOUS
  <2>2. m \in Int /\ RightShift(v, n - (i - 1)) = m \div Byte
    BY ZenonT(90), <2>1, RightShifts
  <2>3. bytes[i] = m % Byte
    BY <2>1 DEF IsFixed
  <2>4. h[i] = m /\ h[i - 1] = RightShift(v, n - (i - 1))
    BY <2>1
  <2>5. h[i - 1] = m \div Byte
    BY <2>2, <2>4
  <2> HIDE DEF m, h
  <2>6. m = (m \div Byte) * Byte + (m % Byte)
    BY <2>2, ByteFacts, Division
  <2> QED
    BY <2>3, <2>4, <2>5, <2>6
<1>5. h[1] = first /\ h[n] = v
  <2>1. n - n = 0 /\ 1 \in 1 .. n /\ n \in 1 .. n
    OBVIOUS
  <2> QED
    BY <2>1, RightShifts
<1> HIDE DEF g, h, first
<1>6. \A i \in 1 .. n : g[i] = h[i]
  <2>1. \A i \in 1 .. n : i # 1 /\ g[i - 1] = h[i - 1] => g[i] = h[i]
    BY <1>3, <1>4
  <2>2. AgreeStepwise(g, h, 1, n)
    BY <1>3, <1>5, <2>1 DEF AgreeStepwise
  <2>3. 1 \in Int /\ n \in Int
    OBVIOUS
  <2> QED
    BY <2>2, <2>3, Agreement
<1>7. g[n] = v
  BY <1>5, <1>6
<1> QED
  BY <1>1, <1>7, NumberIs DEF g, first

\* The first byte tells the sign.
LEMMA SignedReadsBack ==
    ASSUME NEW v \in Int, NEW n \in Nat, n >= 1, NEW bytes, IsFixed(bytes, v, n),
           FitsSigned(v, n)
    PROVE  SignedNumber(bytes, Byte) = v
<1> DEFINE t == RightShift(v, n - 1)
<1> DEFINE half == Byte \div 2
<1>1. t \in Int /\ half \in Int /\ Byte = 2 * half /\ Byte \in Int /\ Byte > 0
  <2>1. n - 1 \in Nat
    OBVIOUS
  <2> QED
    BY <2>1, RightShifts, ByteFacts, Division
<1>2. -half <= t /\ t <= half - 1
  BY <1>1 DEF FitsSigned
<1>3. bytes[1] = t % Byte
  BY DEF IsFixed
<1> HIDE DEF t, half
<1>4. /\ t >= 0 => t % Byte = t
      /\ t < 0 => t % Byte = t + Byte
  BY <1>1, <1>2, NearRemainder
<1>5. t = IF bytes[1] < half THEN bytes[1] ELSE bytes[1] - Byte
  BY <1>1, <1>2, <1>3, <1>4
<1>6. NumberFrom(t, bytes, Byte) = v
  BY FixedNumber DEF t
<1> QED
  BY <1>5, <1>6 DEF SignedNumber, half

LEMMA UnsignedReadsBack ==
    ASSUME NEW v \in Int, NEW n \in Nat, n >= 1, NEW bytes, IsFixed(bytes, v, n),
           Fits(v, n)
    PROVE  Number(bytes, Byte) = v
<1> DEFINE t == RightShift(v, n - 1)
<1>1. t \in Int /\ 0 <= t /\ t < Byte /\ Byte \in Int /\ Byte > 0
  BY ByteFacts DEF Fits
<1>2. bytes[1] = t % Byte
  BY DEF IsFixed
<1>3. bytes[1] = t
  BY <1>1, <1>2, NearRemainder
<1>4. NumberFrom(t, bytes, Byte) = v
  BY FixedNumber
<1> QED
  BY <1>3, <1>4 DEF Number

LEMMA FixedIs ==
    ASSUME NEW v \in Int, NEW n \in Nat
    PROVE  IsFixed(Fixed(v, n), v, n)
<1>1. \A i \in 1 .. n : RightShift(v, n - i) % Byte \in Int
  <2> TAKE i \in 1 .. n
  <2>1. n - i \in Nat
    OBVIOUS
  <2>2. RightShift(v, n - i) \in Int
    BY <2>1, RightShifts
  <2> QED
    BY <2>2, ByteFacts, Division
<1> QED
  BY <1>1 DEF IsFixed, Fixed

\* Reverse gives back what it is given, reversed.
LEMMA Int24Is ==
    ASSUME NEW v \in Int
    PROVE  IsFixed(Reverse(Int24(v)), v, 3)
<1>1. \A i \in 1 .. 3 : RightShift(v, i - 1) % Byte \in Int
  <2> TAKE i \in 1 .. 3
  <2>1. i - 1 \in Nat
    OBVIOUS
  <2>2. RightShift(v, i - 1) \in Int
    BY <2>1, RightShifts
  <2> QED
    BY <2>2, ByteFacts, Division
<1> DEFINE low == Int24(v)
<1>2. /\ low \in Seq(Int) /\ Len(low) = 3
      /\ \A i \in 1 .. 3 : low[i] = RightShift(v, i - 1) % Byte
  BY <1>1 DEF Int24
<1> HIDE DEF low
<1>3. /\ Reverse(low) \in Seq(Int) /\ Len(Reverse(low)) = 3
      /\ \A i \in 1 .. 3 : Reverse(low)[i] = low[(3 - i) + 1]
  BY <1>2 DEF Reverse
<1>4. ASSUME NEW i \in 1 .. 3 PROVE Reverse(low)[i] = RightShift(v, 3 - i) % Byte
  <2>1. (3 - i) + 1 \in 1 .. 3 /\ ((3 - i) + 1) - 1 = 3 - i
    OBVIOUS
  <2> QED
    BY <1>2, <1>3, <2>1
<1> QED
  BY <1>3, <1>4 DEF IsFixed, low

\* Two sequences with the same elements at the same places are one.
LEMMA SequencesEqual ==
    ASSUME NEW s \in Seq(Int), NEW q \in Seq(Int), Len(q) = Len(s),
           \A i \in 1 .. Len(s) : q[i] = s[i]
    PROVE  q = s
  BY SMTT(60)

LEMMA ReversedTwice ==
    ASSUME NEW s \in Seq(Int)
    PROVE  Reverse(Reverse(s)) = s
<1>1. /\ Reverse(s) \in Seq(Int) /\ Len(Reverse(s)) = Len(s)
      /\ \A i \in 1 .. Len(s) : Reverse(s)[i] = s[(Len(s) - i) + 1]
  BY DEF Reverse
<1> DEFINE r == Reverse(s)
<1> HIDE DEF r
<1>2. /\ Reverse(r) \in Seq(Int) /\ Len(Reverse(r)) = Len(s)
      /\ \A i \in 1 .. Len(s) : Reverse(r)[i] = r[(Len(s) - i) + 1]
  <2>1. r \in Seq(Int) /\ Len(r) = Len(s)
    BY <1>1 DEF r
  <2> QED
    BY <2>1 DEF Reverse
<1>3. ASSUME NEW i \in 1 .. Len(s) PROVE Reverse(r)[i] = s[i]
  <2>1. (Len(s) - i) + 1 \in 1 .. Len(s) /\ (Len(s) - ((Len(s) - i) + 1)) + 1 = i
    OBVIOUS
  <2> QED
    BY <1>1, <1>2, <2>1 DEF r
<1> DEFINE again == Reverse(r)
<1> HIDE DEF again
<1>4. again \in Seq(Int) /\ Len(again) = Len(s) /\ \A i \in 1 .. Len(s) : again[i] = s[i]
  BY <1>2, <1>3 DEF again
<1>5. again = s
  BY <1>4, SequencesEqual
<1> QED
  BY <1>5 DEF again, r

LEMMA FixedTrial ==
    ASSUME NEW t \in Trials
    PROVE  /\ t.of = "signed" =>
                  LET bytes == Fixed(t.input, t.size)
                  IN  /\ ReadFixed(bytes) = t.input
                      /\ ReadIntLE(Reverse(bytes)) = t.input
           /\ t.of = "unsigned" =>
                  IF t.size = 2 THEN ReadUnsignedShort(Fixed(t.input, 2)) = t.input
                                ELSE ReadInt24(Int24(t.input)) = t.input
<1>1. ASSUME t.of = "signed"
      PROVE  LET bytes == Fixed(t.input, t.size)
             IN  /\ ReadFixed(bytes) = t.input
                 /\ ReadIntLE(Reverse(bytes)) = t.input
  <2>1. /\ t.input \in Int /\ t.size \in Nat /\ t.size >= 1 /\ FitsSigned(t.input, t.size)
    BY <1>1, TrialsAssumption
  <2> DEFINE bytes == Fixed(t.input, t.size)
  <2>2. IsFixed(bytes, t.input, t.size)
    BY <2>1, FixedIs
  <2> HIDE DEF bytes
  <2>3. SignedNumber(bytes, Byte) = t.input
    BY <2>1, <2>2, SignedReadsBack
  <2>4. Reverse(Reverse(bytes)) = bytes
    BY <2>2, ReversedTwice DEF IsFixed
  <2> QED
    BY <2>3, <2>4 DEF bytes, ReadFixed, ReadIntLE
<1>2. ASSUME t.of = "unsigned", t.size = 2
      PROVE  ReadUnsignedShort(Fixed(t.input, 2)) = t.input
  <2>1. t.input \in Int /\ Fits(t.input, 2)
    BY <1>2, TrialsAssumption
  <2> QED
    BY <2>1, FixedIs, UnsignedReadsBack DEF ReadUnsignedShort
<1>3. ASSUME t.of = "unsigned", t.size # 2
      PROVE  ReadInt24(Int24(t.input)) = t.input
  <2>1. t.input \in Int /\ Fits(t.input, 3)
    BY <1>3, TrialsAssumption
  <2> QED
    BY <2>1, Int24Is, UnsignedReadsBack DEF ReadInt24
<1> QED
  BY <1>1, <1>2, <1>3

-----------------------------------------------------------------------------
(* Base64                                                                   *)

LEMMA MinIs ==
    ASSUME NEW S, S \subseteq Int, NEW k \in S, \A j \in S : k <= j
    PROVE  Min(S) = k
<1>1. \A m \in S : (\A j \in S : m <= j) => m = k
  <2> SUFFICES ASSUME NEW m \in S, \A j \in S : m <= j PROVE m = k
    OBVIOUS
  <2>1. m \in Int /\ k \in Int /\ m <= k /\ k <= m
    OBVIOUS
  <2> QED
    BY <2>1
<1>2. \E m \in S : \A j \in S : m <= j
  OBVIOUS
<1> QED
  BY <1>1, <1>2 DEF Min

LEMMA OctetsAre == 0 \in Octet /\ \A x \in Octet : x \in Int /\ 0 <= x /\ x <= 255
  BY DEF Octet

LEMMA ChunkBytes ==
    ASSUME NEW bytes \in Seq(Octet), NEW g \in Nat
    PROVE  \A k \in {1, 2, 3} : Chunk(bytes, 3, g, 0)[k] \in Octet
<1> TAKE k \in {1, 2, 3}
<1> DEFINE i == 3 * g + k
<1>1. Chunk(bytes, 3, g, 0)[k] = IF i <= Len(bytes) THEN bytes[i] ELSE 0
  BY DEF Chunk
<1>2. i <= Len(bytes) => i \in 1 .. Len(bytes)
  OBVIOUS
<1> HIDE DEF i
<1>3. i <= Len(bytes) => bytes[i] \in Octet
  BY <1>2
<1> QED
  BY <1>1, <1>3, OctetsAre

\* The characters of a group of three bytes.
LEMMA EncodedGroup ==
    ASSUME NEW bytes \in Seq(Octet), NEW g \in Nat, 3 * g < Len(bytes)
    PROVE  LET s == Encode(bytes)
               n == Len(bytes)
               x == Chunk(bytes, 3, g, 0)[1]
               y == Chunk(bytes, 3, g, 0)[2]
               z == Chunk(bytes, 3, g, 0)[3]
           IN  /\ s[4 * g + 1] = x \div 4
               /\ s[4 * g + 2] = ((x % 4) * 16) + (y \div 16)
               /\ s[4 * g + 3] = IF 3 * g + 2 > n THEN Pad ELSE ((y % 16) * 4) + (z \div 64)
               /\ s[4 * g + 4] = IF 3 * g + 3 > n THEN Pad ELSE z % 64
<1> DEFINE x == Chunk(bytes, 3, g, 0)[1]
           y == Chunk(bytes, 3, g, 0)[2]
           z == Chunk(bytes, 3, g, 0)[3]
<1> DEFINE n == Len(bytes)
<1> DEFINE size == 4 * ((n + 2) \div 3)
<1> DEFINE s == Encode(bytes)
<1>1. n \in Nat /\ 3 * g < n
  OBVIOUS
<1>2. s = [i \in 1 .. size |->
              IF 3 * ((i - 1) \div 4) + ((i - 1) % 4) > n THEN Pad
              ELSE Sextets(Chunk(bytes, 3, (i - 1) \div 4, 0))[((i - 1) % 4) + 1]]
  BY DEF Encode
<1>3. Sextets(Chunk(bytes, 3, g, 0))
          = <<x \div 4, ((x % 4) * 16) + (y \div 16), ((y % 16) * 4) + (z \div 64), z % 64>>
  BY DEF Sextets
<1> DEFINE c == Sextets(Chunk(bytes, 3, g, 0))
<1> HIDE DEF n, s, c, x, y, z
<1>4. ASSUME NEW k \in 0 .. 3
      PROVE  s[4 * g + k + 1] = IF 3 * g + k > n THEN Pad ELSE c[k + 1]
  <2> DEFINE i == 4 * g + k + 1
  <2>1. i \in 1 .. size /\ (i - 1) \div 4 = g /\ (i - 1) % 4 = k
    BY <1>1
  <2> HIDE DEF i, size
  <2>2. s[i] = IF 3 * g + k > n THEN Pad ELSE Sextets(Chunk(bytes, 3, g, 0))[k + 1]
    BY <1>2, <2>1
  <2> QED
    BY <2>2 DEF i, c
<1>5. s[4 * g + 0 + 1] = c[1] /\ s[4 * g + 1 + 1] = c[2]
  <2>1. ~(3 * g + 0 > n) /\ ~(3 * g + 1 > n) /\ 0 + 1 = 1 /\ 1 + 1 = 2
    BY <1>1
  <2>2. 0 \in 0 .. 3 /\ 1 \in 0 .. 3
    OBVIOUS
  <2> QED
    BY <1>4, <2>1, <2>2
<1>6. s[4 * g + 2 + 1] = IF 3 * g + 2 > n THEN Pad ELSE c[3]
  BY <1>4
<1>7. s[4 * g + 3 + 1] = IF 3 * g + 3 > n THEN Pad ELSE c[4]
  BY <1>4
<1>8. /\ 4 * g + 0 + 1 = 4 * g + 1 /\ 4 * g + 1 + 1 = 4 * g + 2
      /\ 4 * g + 2 + 1 = 4 * g + 3 /\ 4 * g + 3 + 1 = 4 * g + 4
  OBVIOUS
<1>9. /\ c[1] = x \div 4 /\ c[2] = ((x % 4) * 16) + (y \div 16)
      /\ c[3] = ((y % 16) * 4) + (z \div 64) /\ c[4] = z % 64
  BY <1>3 DEF c
<1> QED
  BY <1>5, <1>6, <1>7, <1>8, <1>9 DEF s, n, x, y, z

\* The characters that hold bits of n bytes.
TextSize(n) == 4 * (n \div 3) + (IF n % 3 = 0 THEN 0 ELSE (n % 3) + 1)

LEMMA Thirds ==
    ASSUME NEW n \in Nat
    PROVE  \E q \in Nat, r \in 0 .. 2 :
               /\ n = 3 * q + r /\ n \div 3 = q /\ n % 3 = r
               /\ (n + 2) \div 3 = IF r = 0 THEN q ELSE q + 1
               /\ TextSize(n) = 4 * q + (IF r = 0 THEN 0 ELSE r + 1)
<1> DEFINE q == n \div 3
           r == n % 3
<1>1. q \in Nat /\ r \in 0 .. 2 /\ n = 3 * q + r
  OBVIOUS
<1>2. (n + 2) \div 3 = IF r = 0 THEN q ELSE q + 1
  <2> HIDE DEF q, r
  <2> QED
    BY <1>1
<1>3. TextSize(n) = 4 * q + (IF r = 0 THEN 0 ELSE r + 1)
  BY DEF TextSize
<1> QED
  BY <1>1, <1>2, <1>3

LEMMA TextSizes ==
    ASSUME NEW n \in Nat
    PROVE  /\ TextSize(n) \in Nat
           /\ 4 * ((n + 2) \div 3) \in Nat
           /\ 4 * ((n + 2) \div 3) >= TextSize(n)
  BY Thirds

LEMMA Characters ==
    ASSUME NEW n \in Nat, NEW g \in Nat, NEW k \in 0 .. 3,
           4 * g + k + 1 <= 4 * ((n + 2) \div 3)
    PROVE  /\ 3 * g < n
           /\ 3 * g + k > n <=> 4 * g + k + 1 > TextSize(n)
  BY Thirds

LEMMA BytesOfText ==
    ASSUME NEW n \in Nat, NEW g \in Nat, NEW k \in 0 .. 2, 3 * g + k + 1 <= n
    PROVE  4 * g + k + 2 <= TextSize(n)
  BY Thirds

LEMMA IndexIn ==
    /\ \A i \in Nat : i >= 1 => \E g \in Nat, k \in 0 .. 2 :
           i = 3 * g + k + 1 /\ (i - 1) \div 3 = g /\ (i - 1) % 3 = k
    /\ \A i \in Nat : i >= 1 => \E g \in Nat, k \in 0 .. 3 :
           i = 4 * g + k + 1 /\ (i - 1) \div 4 = g /\ (i - 1) % 4 = k
<1>1. ASSUME NEW i \in Nat, i >= 1
      PROVE  \E g \in Nat, k \in 0 .. 2 :
                 i = 3 * g + k + 1 /\ (i - 1) \div 3 = g /\ (i - 1) % 3 = k
  <2>1. /\ (i - 1) \div 3 \in Nat /\ (i - 1) % 3 \in 0 .. 2
        /\ i = 3 * ((i - 1) \div 3) + ((i - 1) % 3) + 1
    BY <1>1
  <2> QED
    BY <2>1
<1>2. ASSUME NEW i \in Nat, i >= 1
      PROVE  \E g \in Nat, k \in 0 .. 3 :
                 i = 4 * g + k + 1 /\ (i - 1) \div 4 = g /\ (i - 1) % 4 = k
  <2>1. /\ (i - 1) \div 4 \in Nat /\ (i - 1) % 4 \in 0 .. 3
        /\ i = 4 * ((i - 1) \div 4) + ((i - 1) % 4) + 1
    BY <1>2
  <2> QED
    BY <2>1
<1> QED
  BY <1>1, <1>2

LEMMA SixBits ==
    ASSUME NEW x \in Octet, NEW y \in Octet, NEW z \in Octet
    PROVE  /\ x \div 4 \in 0 .. 63
           /\ ((x % 4) * 16) + (y \div 16) \in 0 .. 63
           /\ ((y % 16) * 4) + (z \div 64) \in 0 .. 63
           /\ z % 64 \in 0 .. 63
  BY SMTT(60), OctetsAre

\* The bits of a byte that are in two characters.
LEMMA EightBits ==
    ASSUME NEW x \in Octet, NEW y \in Octet, NEW z \in Octet
    PROVE  /\ (((x \div 4) * 4) + (((((x % 4) * 16) + (y \div 16)) % 64) \div 16)) % 256 = x
           /\ (((((x % 4) * 16) + (y \div 16)) % 16) * 16)
                  + (((((y % 16) * 4) + (z \div 64)) % 64) \div 4) = y
           /\ ((((((y % 16) * 4) + (z \div 64)) % 4) * 64) + (z % 64)) % 256 = z
<1>1. /\ x \in Int /\ 0 <= x /\ x <= 255 /\ y \in Int /\ 0 <= y /\ y <= 255
      /\ z \in Int /\ 0 <= z /\ z <= 255
  BY OctetsAre
<1>2. PICK p, q : p = x \div 4 /\ q = x % 4
  OBVIOUS
<1>3. PICK r, t : r = y \div 16 /\ t = y % 16
  OBVIOUS
<1>4. PICK v, w : v = z \div 64 /\ w = z % 64
  OBVIOUS
<1>5. x = 4 * p + q /\ p \in 0 .. 63 /\ q \in 0 .. 3
  BY <1>1, <1>2
<1>6. y = 16 * r + t /\ r \in 0 .. 15 /\ t \in 0 .. 15
  BY <1>1, <1>3
<1>7. z = 64 * v + w /\ v \in 0 .. 3 /\ w \in 0 .. 63
  BY <1>1, <1>4
<1>8. PICK b, c : b = (q * 16) + r /\ c = (t * 4) + v
  OBVIOUS
<1>9. b % 64 = b /\ b \div 16 = q /\ b % 16 = r
  BY <1>5, <1>6, <1>8
<1>10. c % 64 = c /\ c \div 4 = t /\ c % 4 = v
  BY <1>6, <1>7, <1>8
<1>11. /\ (p * 4) + ((b % 64) \div 16) = x
       /\ ((b % 16) * 16) + ((c % 64) \div 4) = y
       /\ ((c % 4) * 64) + w = z
  BY <1>5, <1>6, <1>7, <1>9, <1>10
<1>12. x % 256 = x /\ z % 256 = z
  BY <1>1
<1> QED
  BY <1>2, <1>3, <1>4, <1>8, <1>11, <1>12

LEMMA TextSizeDecoded ==
    ASSUME NEW n \in Nat
    PROVE  TextSize(n) \in Nat /\ DecodedSize(TextSize(n)) = n
<1> DEFINE q == n \div 3
           r == n % 3
<1>1. q \in Nat /\ r \in 0 .. 2 /\ n = 3 * q + r
  OBVIOUS
<1>2. TextSize(n) = 4 * q + (IF r = 0 THEN 0 ELSE r + 1)
  BY DEF TextSize
<1> DEFINE t == 4 * q + (IF r = 0 THEN 0 ELSE r + 1)
<1> HIDE DEF q, r
<1>3. t \in Nat /\ t \div 4 = q /\ t % 4 = (IF r = 0 THEN 0 ELSE r + 1)
  BY <1>1
<1>4. DecodedSize(t) = 3 * q + (IF r = 0 THEN 0 ELSE r)
  BY <1>1, <1>3 DEF DecodedSize
<1> QED
  BY <1>1, <1>2, <1>3, <1>4

\* Where Pad is.
LEMMA PadIs ==
    ASSUME NEW bytes \in Seq(Octet)
    PROVE  LET s == Encode(bytes)
               n == Len(bytes)
           IN  /\ s \in Seq(Int)
               /\ Len(s) = 4 * ((n + 2) \div 3) /\ Len(s) >= TextSize(n)
               /\ \A j \in 1 .. Len(s) : s[j] = Pad <=> j > TextSize(n)
<1> DEFINE n == Len(bytes)
           s == Encode(bytes)
           size == 4 * ((n + 2) \div 3)
<1>1. n \in Nat /\ size \in Nat
  OBVIOUS
<1> HIDE DEF n
<1>2. size >= TextSize(n) /\ size \in Nat
  BY <1>1, TextSizes
<1>3. ASSUME NEW j \in 1 .. size
      PROVE  s[j] \in Int /\ (s[j] = Pad <=> j > TextSize(n))
  <2> HIDE DEF size
  <2>0. j \in Nat /\ j >= 1 /\ j <= size
    BY <1>2
  <2>1. PICK g \in Nat, k \in 0 .. 3 : j = 4 * g + k + 1
    BY ZenonT(90), <2>0, IndexIn
  <2>2. 3 * g < n /\ (3 * g + k > n <=> j > TextSize(n))
    BY <1>1, <2>0, <2>1, Characters DEF size
  <2>3. PICK x, y, z : /\ x = Chunk(bytes, 3, g, 0)[1]
                       /\ y = Chunk(bytes, 3, g, 0)[2]
                       /\ z = Chunk(bytes, 3, g, 0)[3]
    OBVIOUS
  <2>4. x \in Octet /\ y \in Octet /\ z \in Octet
    BY <2>1, <2>3, ChunkBytes
  <2>5. /\ s[4 * g + 1] = x \div 4
        /\ s[4 * g + 2] = ((x % 4) * 16) + (y \div 16)
        /\ s[4 * g + 3] = IF 3 * g + 2 > n THEN Pad ELSE ((y % 16) * 4) + (z \div 64)
        /\ s[4 * g + 4] = IF 3 * g + 3 > n THEN Pad ELSE z % 64
    BY <2>2, <2>3, EncodedGroup DEF n
  <2> HIDE DEF s
  <2>6. /\ x \div 4 \in 0 .. 63 /\ ((x % 4) * 16) + (y \div 16) \in 0 .. 63
        /\ ((y % 16) * 4) + (z \div 64) \in 0 .. 63 /\ z % 64 \in 0 .. 63
    BY <2>4, SixBits
  <2>7. \E c \in 0 .. 63 : s[j] = IF 3 * g + k > n THEN Pad ELSE c
    <3>1. CASE k = 0
      BY <1>1, <2>1, <2>2, <2>5, <2>6, <3>1
    <3>2. CASE k = 1
      BY <1>1, <2>1, <2>2, <2>5, <2>6, <3>2
    <3>3. CASE k = 2
      BY <1>1, <2>1, <2>5, <2>6, <3>3
    <3>4. CASE k = 3
      BY <1>1, <2>1, <2>5, <2>6, <3>4
    <3> QED
      BY <2>1, <3>1, <3>2, <3>3, <3>4
  <2> QED
    BY <2>2, <2>7 DEF Pad
<1>4. s = [j \in 1 .. size |-> s[j]]
  BY DEF Encode, n
<1> HIDE DEF s, size
<1>5. s \in Seq(Int) /\ Len(s) = size
  BY SMTT(60), <1>2, <1>3, <1>4
<1> QED
  BY <1>2, <1>3, <1>5 DEF s, size, n

\* Decode takes what is before the first Pad.
LEMMA TextIs ==
    ASSUME NEW bytes \in Seq(Octet)
    PROVE  \E text \in Seq(Int) :
               /\ Decode(Encode(bytes)) = Decoded(text, DecodedSize(Len(text)))
               /\ Len(text) = TextSize(Len(bytes))
               /\ \A j \in 1 .. Len(text) : text[j] = Encode(bytes)[j]
<1> DEFINE n == Len(bytes)
           s == Encode(bytes)
           t == TextSize(n)
           pads == {j \in 1 .. Len(s) : s[j] = Pad}
           end == IF pads # {} THEN Min(pads) ELSE 0
           text == IF end = 0 THEN s ELSE SubSeq(s, 1, end - 1)
<1>1. n \in Nat /\ t \in Nat
  BY TextSizeDecoded
<1>2. /\ s \in Seq(Int) /\ Len(s) >= t
      /\ \A j \in 1 .. Len(s) : s[j] = Pad <=> j > t
  BY PadIs
<1>3. Decode(s) = Decoded(text, DecodedSize(Len(text)))
  BY DEF Decode, SelectInSeq
<1> HIDE DEF n, s, t
<1>4. text \in Seq(Int) /\ Len(text) = t /\ \A j \in 1 .. t : text[j] = s[j]
  <2>1. CASE Len(s) = t
    <3>1. pads = {}
      BY <1>1, <1>2, <2>1
    <3>2. text = s
      BY <3>1
    <3> QED
      BY <1>2, <2>1, <3>2
  <2>2. CASE Len(s) > t
    <3>1. t + 1 \in pads /\ pads \subseteq Int /\ \A j \in pads : t + 1 <= j
      BY <1>1, <1>2, <2>2
    <3>2. end = t + 1
      <4>1. Min(pads) = t + 1
        <5> HIDE DEF pads
        <5> QED
          BY <3>1, MinIs
      <4> QED
        BY <3>1, <4>1
    <3> HIDE DEF end
    <3>3. text = SubSeq(s, 1, t)
      BY <1>1, <3>2
    <3> HIDE DEF text
    <3>4. Len(s) \in Nat /\ t <= Len(s)
      BY <1>2
    <3>4a. PICK u : u = t /\ u \in Nat /\ u <= Len(s)
      BY <1>1, <3>4
    <3>5. /\ SubSeq(s, 1, t) \in Seq(Int) /\ Len(SubSeq(s, 1, t)) = t
          /\ \A j \in 1 .. t : SubSeq(s, 1, t)[j] = s[j]
      BY <1>2, <3>4, <3>4a
    <3> QED
      BY <3>3, <3>5
  <2> HIDE DEF text
  <2>3. Len(s) \in Nat
    BY <1>2
  <2> QED
    BY <1>1, <1>2, <2>1, <2>2, <2>3
<1> HIDE DEF text
<1>5. PICK tx : tx = text
  OBVIOUS
<1> QED
  BY <1>3, <1>4, <1>5 DEF n, s, t

LEMMA Base64Trial ==
    ASSUME NEW bytes \in Seq(Octet)
    PROVE  Decode(Encode(bytes)) = bytes
<1> DEFINE n == Len(bytes)
           s == Encode(bytes)
           t == TextSize(n)
<1>1. PICK text \in Seq(Int) :
          /\ Decode(s) = Decoded(text, DecodedSize(Len(text)))
          /\ Len(text) = t
          /\ \A j \in 1 .. Len(text) : text[j] = s[j]
  BY TextIs
<1>2. n \in Nat /\ t \in Nat /\ DecodedSize(t) = n
  BY SMTT(60), TextSizeDecoded
<1>3. Decode(s) = [i \in 1 .. n |->
          Octets(Chunk(text, 4, (i - 1) \div 3, NotFound))[((i - 1) % 3) + 1]]
  BY <1>1, <1>2 DEF Decoded
<1>4. ASSUME NEW i \in 1 .. n
      PROVE  Octets(Chunk(text, 4, (i - 1) \div 3, NotFound))[((i - 1) % 3) + 1] = bytes[i]
  <2> HIDE DEF n, s
  <2>0. i \in Nat /\ i >= 1 /\ i <= n
    BY <1>2
  <2>1. PICK g \in Nat, k \in 0 .. 2 :
            i = 3 * g + k + 1 /\ (i - 1) \div 3 = g /\ (i - 1) % 3 = k
    BY <2>0, IndexIn
  <2>2. 3 * g < n /\ 3 * g + k + 1 <= n /\ 4 * g + k + 2 <= t
    BY <1>2, <2>0, <2>1, BytesOfText
  <2>3. PICK x, y, z : /\ x = Chunk(bytes, 3, g, 0)[1]
                       /\ y = Chunk(bytes, 3, g, 0)[2]
                       /\ z = Chunk(bytes, 3, g, 0)[3]
    OBVIOUS
  <2>4. x \in Octet /\ y \in Octet /\ z \in Octet
    BY <2>3, ChunkBytes
  <2>5. bytes[i] = IF k = 0 THEN x ELSE IF k = 1 THEN y ELSE z
    <3>1. Chunk(bytes, 3, g, 0)[k + 1] = IF 3 * g + (k + 1) <= n THEN bytes[3 * g + (k + 1)] ELSE 0
      BY <2>1 DEF Chunk, n
    <3>2. Chunk(bytes, 3, g, 0)[k + 1] = bytes[i]
      BY <1>2, <2>1, <2>2, <3>1
    <3> QED
      BY <2>1, <2>3, <3>2
  <2>6. /\ s[4 * g + 1] = x \div 4
        /\ s[4 * g + 2] = ((x % 4) * 16) + (y \div 16)
        /\ s[4 * g + 3] = IF 3 * g + 2 > n THEN Pad ELSE ((y % 16) * 4) + (z \div 64)
        /\ s[4 * g + 4] = IF 3 * g + 3 > n THEN Pad ELSE z % 64
    BY <2>2, <2>3, EncodedGroup DEF n, s
  <2>7. PICK c : c = Chunk(text, 4, g, NotFound)
    OBVIOUS
  <2>8. ASSUME NEW j \in 1 .. 4, 4 * g + j <= t PROVE c[j] = s[4 * g + j]
    <3>1. c[j] = IF 4 * g + j <= t THEN text[4 * g + j] ELSE NotFound
      BY <1>1, <2>7 DEF Chunk
    <3>2. 4 * g + j \in 1 .. Len(text)
      <4> HIDE DEF t
      <4>1. 4 * g + j \in Nat /\ 4 * g + j >= 1
        BY <2>1
      <4> QED
        BY <1>1, <1>2, <2>8, <4>1
    <3> QED
      BY <1>1, <2>8, <3>1, <3>2
  <2> HIDE DEF t
  <2>9. c[1] = x \div 4 /\ c[2] = ((x % 4) * 16) + (y \div 16)
    <3>1. 4 * g + 1 <= t /\ 4 * g + 2 <= t
      BY <1>2, <2>1, <2>2
    <3> QED
      BY <2>6, <2>8, <3>1
  <2>10. k >= 1 => c[3] = ((y % 16) * 4) + (z \div 64)
    <3>1. k >= 1 => 4 * g + 3 <= t /\ ~(3 * g + 2 > n)
      BY <1>2, <2>1, <2>2
    <3> QED
      BY <2>6, <2>8, <3>1
  <2>11. k = 2 => c[4] = z % 64
    <3>1. k = 2 => 4 * g + 4 <= t /\ ~(3 * g + 3 > n)
      BY <1>2, <2>1, <2>2
    <3> QED
      BY <2>6, <2>8, <3>1
  <2>12. Octets(c) = <<((c[1] * 4) + ((c[2] % 64) \div 16)) % 256,
                       ((c[2] % 16) * 16) + ((c[3] % 64) \div 4),
                       (((c[3] % 4) * 64) + c[4]) % 256>>
    BY DEF Octets
  <2>13. CASE k = 0
    <3>1. ((c[1] * 4) + ((c[2] % 64) \div 16)) % 256 = x
      BY <2>4, <2>9, EightBits
    <3> QED
      BY <2>1, <2>5, <2>7, <2>12, <2>13, <3>1
  <2>14. CASE k = 1
    <3>1. ((c[2] % 16) * 16) + ((c[3] % 64) \div 4) = y
      BY <2>4, <2>9, <2>10, <2>14, EightBits
    <3> QED
      BY SMTT(60), <2>1, <2>5, <2>7, <2>12, <2>14, <3>1
  <2>15. CASE k = 2
    <3>1. (((c[3] % 4) * 64) + c[4]) % 256 = z
      BY <2>4, <2>10, <2>11, <2>15, EightBits
    <3>2. Octets(c)[3] = z
      BY <2>12, <3>1
    <3>3. Octets(Chunk(text, 4, (i - 1) \div 3, NotFound))[((i - 1) % 3) + 1] = Octets(c)[k + 1]
      BY <2>1, <2>7
    <3>4. k + 1 = 3 /\ bytes[i] = z
      BY <2>5, <2>15
    <3> QED
      BY <3>2, <3>3, <3>4
  <2> QED
    BY <2>1, <2>13, <2>14, <2>15
<1>5. Decode(s) = [i \in 1 .. n |-> bytes[i]]
  BY <1>3, <1>4
<1> QED
  BY <1>5

-----------------------------------------------------------------------------
(* VarInt                                                                   *)

\* left of VarIntBytes.
Lefts(value) ==
    CHOOSE left : left = [i \in 1 .. 5 |-> Shifted(IF i = 1 THEN value ELSE left[i - 1])]

LEMMA LeftsAre ==
    ASSUME NEW v \in Int
    PROVE  /\ Lefts(v) = [i \in 1 .. 5 |-> Lefts(v)[i]]
           /\ Lefts(v)[1] = Shifted(v)
           /\ Lefts(v)[2] = Shifted(Lefts(v)[1]) /\ Lefts(v)[3] = Shifted(Lefts(v)[2])
           /\ Lefts(v)[4] = Shifted(Lefts(v)[3]) /\ Lefts(v)[5] = Shifted(Lefts(v)[4])
<1>1. PICK q1 : q1 = Shifted(v)
  OBVIOUS
<1>2. PICK q2 : q2 = Shifted(q1)
  OBVIOUS
<1>3. PICK q3 : q3 = Shifted(q2)
  OBVIOUS
<1>4. PICK q4 : q4 = Shifted(q3)
  OBVIOUS
<1>5. PICK q5 : q5 = Shifted(q4)
  OBVIOUS
<1> DEFINE g == [i \in 1 .. 5 |->
        IF i = 1 THEN q1 ELSE IF i = 2 THEN q2 ELSE IF i = 3 THEN q3
        ELSE IF i = 4 THEN q4 ELSE q5]
<1>6. g[1] = q1 /\ g[2] = q2 /\ g[3] = q3 /\ g[4] = q4 /\ g[5] = q5
  OBVIOUS
<1>7. ASSUME NEW i \in 1 .. 5 PROVE g[i] = Shifted(IF i = 1 THEN v ELSE g[i - 1])
  <2>1. i = 1 \/ i = 2 \/ i = 3 \/ i = 4 \/ i = 5
    OBVIOUS
  <2>2. 2 - 1 = 1 /\ 3 - 1 = 2 /\ 4 - 1 = 3 /\ 5 - 1 = 4
    OBVIOUS
  <2> HIDE DEF g
  <2> QED
    BY <1>1, <1>2, <1>3, <1>4, <1>5, <1>6, <2>1, <2>2
<1>8. g = [i \in 1 .. 5 |-> Shifted(IF i = 1 THEN v ELSE g[i - 1])]
  BY <1>7
<1> DEFINE h == Lefts(v)
<1>9. h = [i \in 1 .. 5 |-> Shifted(IF i = 1 THEN v ELSE h[i - 1])]
  BY <1>8 DEF Lefts
<1> HIDE DEF h
<1>10. \A i \in 1 .. 5 : h[i] = Shifted(IF i = 1 THEN v ELSE h[i - 1])
  BY <1>9
<1>11. h[1] = Shifted(v)
  BY <1>10
<1>12. h[2] = Shifted(h[1]) /\ h[3] = Shifted(h[2]) /\ h[4] = Shifted(h[3]) /\ h[5] = Shifted(h[4])
  <2>1. 2 - 1 = 1 /\ 3 - 1 = 2 /\ 4 - 1 = 3 /\ 5 - 1 = 4
    OBVIOUS
  <2>2. \A i \in {2, 3, 4, 5} : h[i] = Shifted(h[i - 1])
    BY <1>10
  <2> QED
    BY <2>1, <2>2
<1>13. h = [i \in 1 .. 5 |-> h[i]]
  BY <1>9
<1> QED
  BY <1>11, <1>12, <1>13 DEF h

LEMMA Int32Is ==
    \A v \in Int32 : v \in Int /\ -2147483648 <= v /\ v <= 2147483647
<1>1. MaxInt \in Int /\ MaxInt = 2147483647
  BY SMT DEF MaxInt
<1>2. \A v \in Int32 : v \in Int /\ -MaxInt - 1 <= v /\ v <= MaxInt
  <2>1. MaxInt \in Int
    BY SMT, <1>1
  <2> QED
    BY <2>1 DEF Int32
<1> QED
  BY SMT, <1>1, <1>2

LEMMA ShiftedIs ==
    ASSUME NEW value, NEW q, q = Shifted(value)
    PROVE  q = (value \div 128) % 33554432
  BY SMT DEF Shifted

\* What is left of an int after each of its five groups, and what is in them.
LEMMA GroupsOf ==
    ASSUME NEW v \in Int32, NEW r \in [1 .. 5 -> Int],
           r[1] = Shifted(v), r[2] = Shifted(r[1]), r[3] = Shifted(r[2]),
           r[4] = Shifted(r[3]), r[5] = Shifted(r[4])
    PROVE  /\ r[1] >= 0 /\ r[2] >= 0 /\ r[3] >= 0 /\ r[4] >= 0 /\ r[4] < 16 /\ r[5] = 0
           /\ r[1] = 0 => r[2] = 0
           /\ r[2] = 0 => r[3] = 0
           /\ r[3] = 0 => r[4] = 0
           /\ r[1] = 128 * r[2] + (r[1] % 128)
           /\ r[2] = 128 * r[3] + (r[2] % 128)
           /\ r[3] = 128 * r[4] + (r[3] % 128)
           /\ r[4] % 128 = r[4]
           /\ v = (v % 128) + 128 * r[1] - (IF r[4] < 8 THEN 0 ELSE 4294967296)
<1>0. PICK w, q1, q2, q3, q4, q5 :
          w = v /\ q1 = r[1] /\ q2 = r[2] /\ q3 = r[3] /\ q4 = r[4] /\ q5 = r[5]
  BY SMT
<1>1. /\ w \in Int /\ -2147483648 <= w /\ w <= 2147483647
      /\ q1 \in Int /\ q2 \in Int /\ q3 \in Int /\ q4 \in Int /\ q5 \in Int
  <2>1. v \in Int /\ -2147483648 <= v /\ v <= 2147483647
    BY SMT, Int32Is
  <2> QED
    BY SMT, <1>0, <2>1
<1>2. q1 = (w \div 128) % 33554432
  BY SMTT(60), <1>0, ShiftedIs
<1>3. q2 = (q1 \div 128) % 33554432
  BY SMTT(60), <1>0, ShiftedIs
<1>4. q3 = (q2 \div 128) % 33554432
  BY SMTT(60), <1>0, ShiftedIs
<1>5. q4 = (q3 \div 128) % 33554432
  BY SMTT(60), <1>0, ShiftedIs
<1>6. q5 = (q4 \div 128) % 33554432
  BY SMTT(60), <1>0, ShiftedIs
<1>7. /\ 0 <= q1 /\ q1 < 33554432
      /\ w = (w % 128) + 128 * q1 - (IF w >= 0 THEN 0 ELSE 4294967296)
      /\ w >= 0 <=> q1 < 16777216
  <2>1. PICK d, m : d = w \div 128 /\ m = w % 128
    BY SMT
  <2>2. d \in Int /\ m \in 0 .. 127 /\ w = 128 * d + m
    BY SMT, <1>1, <2>1
  <2>3. -16777216 <= d /\ d <= 16777215 /\ (w >= 0 <=> d >= 0)
    BY SMT, <1>1, <2>2
  <2>4. q1 = IF d >= 0 THEN d ELSE d + 33554432
    BY SMT, <1>2, <2>1, <2>2, <2>3
  <2> QED
    BY SMT, <2>1, <2>2, <2>3, <2>4
<1>8. 0 <= q2 /\ q2 < 262144 /\ q1 = 128 * q2 + (q1 % 128)
  <2>1. /\ q1 \div 128 \in Int /\ 0 <= q1 \div 128 /\ q1 \div 128 < 262144
        /\ q1 = 128 * (q1 \div 128) + (q1 % 128)
    BY SMT, <1>1, <1>7
  <2> QED
    BY SMT, <1>3, <2>1
<1>9. 0 <= q3 /\ q3 < 2048 /\ q2 = 128 * q3 + (q2 % 128)
  <2>1. /\ q2 \div 128 \in Int /\ 0 <= q2 \div 128 /\ q2 \div 128 < 2048
        /\ q2 = 128 * (q2 \div 128) + (q2 % 128)
    BY SMT, <1>1, <1>8
  <2> QED
    BY SMT, <1>4, <2>1
<1>10. 0 <= q4 /\ q4 < 16 /\ q3 = 128 * q4 + (q3 % 128)
  <2>1. q3 \div 128 \in 0 .. 15 /\ q3 = 128 * (q3 \div 128) + (q3 % 128)
    BY SMT, <1>1, <1>9
  <2> QED
    BY SMT, <1>5, <2>1
<1>11. q5 = 0 /\ q4 % 128 = q4
  BY SMT, <1>1, <1>6, <1>10
<1>12. q1 < 16777216 <=> q4 < 8
  <2>1. q1 % 128 \in 0 .. 127 /\ q2 % 128 \in 0 .. 127 /\ q3 % 128 \in 0 .. 127
    BY SMT, <1>1
  <2> QED
    BY SMT, <1>1, <1>8, <1>9, <1>10, <2>1
<1>13. (q1 = 0 => q2 = 0) /\ (q2 = 0 => q3 = 0) /\ (q3 = 0 => q4 = 0)
  <2>1. q1 % 128 \in 0 .. 127 /\ q2 % 128 \in 0 .. 127 /\ q3 % 128 \in 0 .. 127
    BY SMT, <1>1
  <2> QED
    BY SMT, <1>1, <1>8, <1>9, <1>10, <2>1
<1>14. w = (w % 128) + 128 * q1 - (IF q4 < 8 THEN 0 ELSE 4294967296)
  BY SMT, <1>7, <1>12
<1> QED
  BY SMT, <1>0, <1>7, <1>8, <1>9, <1>10, <1>11, <1>13, <1>14

\* What VarIntBytes writes: its last byte is the first without a remainder.
VarIntSize(v, n) ==
    n \in 1 .. 5 /\ Lefts(v)[n] = 0 /\ \A i \in 1 .. 5 : i < n => Lefts(v)[i] # 0

LEMMA LeftsOf ==
    ASSUME NEW v \in Int32
    PROVE  Lefts(v) \in [1 .. 5 -> Int]
<1>1. v \in Int
  BY SMT, Int32Is
<1>2. \A w \in Int : Shifted(w) \in Int
  BY SMT DEF Shifted
<1> DEFINE h == Lefts(v)
<1>3. /\ h = [i \in 1 .. 5 |-> h[i]] /\ h[1] = Shifted(v) /\ h[2] = Shifted(h[1])
      /\ h[3] = Shifted(h[2]) /\ h[4] = Shifted(h[3]) /\ h[5] = Shifted(h[4])
  BY <1>1, LeftsAre
<1> HIDE DEF h
<1>4. h[1] \in Int /\ h[2] \in Int /\ h[3] \in Int /\ h[4] \in Int /\ h[5] \in Int
  BY <1>1, <1>2, <1>3
<1>5. \A i \in 1 .. 5 : h[i] \in Int
  <2> TAKE i \in 1 .. 5
  <2>1. i = 1 \/ i = 2 \/ i = 3 \/ i = 4 \/ i = 5
    OBVIOUS
  <2> QED
    BY <1>4, <2>1
<1> QED
  BY <1>3, <1>5 DEF h

LEMMA VarIntBytesAre ==
    ASSUME NEW v \in Int32
    PROVE  \E n \in 1 .. 5 :
               /\ VarIntSize(v, n)
               /\ VarIntBytes(v) = [i \in 1 .. n |->
                      ((IF i = 1 THEN v ELSE Lefts(v)[i - 1]) % 128)
                          + (IF i < n THEN 128 ELSE 0)]
<1> DEFINE r == Lefts(v)
           ends == {i \in 1 .. Len(r) : r[i] = 0}
           size == IF ends # {} THEN Min(ends) ELSE 0
<1>1. r \in [1 .. 5 -> Int]
  BY LeftsOf
<1>2. r[5] = 0
  <2>1. /\ r[1] = Shifted(v) /\ r[2] = Shifted(r[1]) /\ r[3] = Shifted(r[2])
        /\ r[4] = Shifted(r[3]) /\ r[5] = Shifted(r[4])
    <3>1. v \in Int
      BY SMT, Int32Is
    <3> HIDE DEF r
    <3> QED
      BY <3>1, LeftsAre DEF r
  <2> HIDE DEF r
  <2> QED
    BY <1>1, <2>1, GroupsOf
<1>3. VarIntBytes(v) = [i \in 1 .. size |->
          ((IF i = 1 THEN v ELSE r[i - 1]) % 128) + (IF i < size THEN 128 ELSE 0)]
  BY DEF VarIntBytes, Lefts, SelectInSeq
<1> HIDE DEF r
<1>4. Len(r) = 5
  <2>1. r = [i \in 1 .. 5 |-> r[i]]
    BY <1>1
  <2>2. PICK f : f = r
    OBVIOUS
  <2>3. Len([i \in 1 .. 5 |-> f[i]]) = 5
    OBVIOUS
  <2> QED
    BY <2>1, <2>2, <2>3
<1>5. ends \subseteq Nat /\ 5 \in ends
  BY <1>2, <1>4
<1>6. PICK n \in ends : \A m \in ends : n <= m
  BY <1>5, Smallest
<1>7. Min(ends) = n
  <2> HIDE DEF ends
  <2>1. ends \subseteq Int
    BY <1>5
  <2> QED
    BY <1>6, <2>1, MinIs
<1>8. size = n
  BY <1>7
<1>9. n \in 1 .. 5 /\ r[n] = 0
  BY <1>4
<1>10. \A i \in 1 .. 5 : i < n => r[i] # 0
  BY <1>4, <1>6, <1>9
<1> HIDE DEF size, ends
<1> QED
  BY <1>3, <1>8, <1>9, <1>10 DEF VarIntSize, r

\* What is read of a byte.
LEMMA SignedDigit ==
    ASSUME NEW x \in Int
    PROVE  SignedNumber(<<x>>, 16) = IF x < 8 THEN x ELSE x - 16
<1> DEFINE first == IF x < 8 THEN x ELSE x - 16
           s == <<x>>
<1>1. s \in Seq(Int) /\ Len(s) = 1 /\ s[1] = x /\ first \in Int
  OBVIOUS
<1>2. 16 \div 2 = 8
  OBVIOUS
<1>3. SignedNumber(s, 16) = NumberFrom(first, s, 16)
  BY <1>2 DEF SignedNumber
<1> HIDE DEF s, first
<1>4. Numbers(first, s, 16)[1] = first
  BY <1>1, NumbersExist
<1>5. NumberFrom(first, s, 16) = first
  BY <1>1, <1>4, NumberIs
<1> QED
  BY <1>3, <1>5 DEF first, s

LEMMA GroupIs ==
    ASSUME NEW x \in Int, 0 <= x, x < 128, NEW b, b = x \/ b = x + 128
    PROVE  /\ Group(b, 0) = x /\ Group(b, 1) = x * 128
           /\ Group(b, 2) = x * 16384 /\ Group(b, 3) = x * 2097152
           /\ x < 16 => Group(b, 4) = (IF x < 8 THEN x ELSE x - 16) * 268435456
<1>1. b % 128 = x /\ (x < 16 => b % 16 = x)
  OBVIOUS
<1> DEFINE weights == <<1, 128, 16384, 2097152>>
<1>3. weights[0 + 1] = 1 /\ weights[1 + 1] = 128 /\ weights[2 + 1] = 16384 /\ weights[3 + 1] = 2097152
  BY SMT
<1>4. \A n : Group(b, n) = IF n < 4 THEN x * weights[n + 1]
                           ELSE SignedNumber(<<(b % 16)>>, 16) * 268435456
  BY SMT, <1>1 DEF Group
<1> HIDE DEF weights
<1>5. Group(b, 0) = x * weights[0 + 1] /\ Group(b, 1) = x * weights[1 + 1]
  BY SMT, <1>4
<1>6. Group(b, 2) = x * weights[2 + 1] /\ Group(b, 3) = x * weights[3 + 1]
  BY SMT, <1>4
<1>7. Group(b, 4) = SignedNumber(<<(b % 16)>>, 16) * 268435456
  BY SMT, <1>4
<1>8. x < 16 => SignedNumber(<<(b % 16)>>, 16) = IF x < 8 THEN x ELSE x - 16
  BY <1>1, SignedDigit
<1> QED
  BY SMT, <1>3, <1>5, <1>6, <1>7, <1>8

\* result of VarIntRead.
Results(bytes, n) ==
    CHOOSE result : result =
        [i \in 1 .. n |-> (IF i = 1 THEN 0 ELSE result[i - 1]) + Group(bytes[i], i - 1)]

GroupsAreInts(bytes, n) == \A i \in 1 .. n : Group(bytes[i], i - 1) \in Int

LEMMA ResultsAre ==
    ASSUME NEW n \in 1 .. 5, NEW bytes, GroupsAreInts(bytes, n)
    PROVE  /\ Results(bytes, n)[1] = Group(bytes[1], 0)
           /\ \A i \in 2 .. n :
                  Results(bytes, n)[i] = Results(bytes, n)[i - 1] + Group(bytes[i], i - 1)
<1> DEFINE term(i) == Group(bytes[i], i - 1)
<1> DEFINE step == [pair \in (1 .. n) \X Int |-> pair[2] + term(pair[1])]
<1>1. \A i \in 1 .. n : term(i) \in Int
  BY DEF GroupsAreInts
<1>2. term(1) = Group(bytes[1], 0)
  OBVIOUS
<1> HIDE DEF term
<1>3. \A i \in 1 .. n, m \in Int : step[<<i, m>>] = m + term(i)
  OBVIOUS
<1>4. IsStep(step, 1, n, Int)
  BY <1>1 DEF IsStep
<1> HIDE DEF step
<1>5. \E g : IsRecursive(g, 1, n, Int, term(1), step)
  <2>1. 1 \in Int /\ n \in Int /\ 1 <= n /\ 1 \in 1 .. n
    OBVIOUS
  <2>2. term(1) \in Int
    BY <1>1, <2>1
  <2> QED
    BY <1>4, <2>1, <2>2, Recursion
<1>6. PICK g \in [1 .. n -> Int] :
           g[1] = term(1) /\ \A i \in 1 .. n : i # 1 => g[i] = step[<<i, g[i - 1]>>]
  BY <1>5 DEF IsRecursive
<1>7. ASSUME NEW i \in 1 .. n PROVE g[i] = (IF i = 1 THEN 0 ELSE g[i - 1]) + term(i)
  <2>1. CASE i = 1
    BY <1>1, <1>6, <2>1
  <2>2. CASE i # 1
    <3>1. g[i - 1] \in Int
      BY <2>2
    <3> QED
      BY <1>3, <1>6, <2>2, <3>1
  <2> QED
    BY <2>1, <2>2
<1>8. g = [i \in 1 .. n |-> (IF i = 1 THEN 0 ELSE g[i - 1]) + term(i)]
  BY <1>6, <1>7
<1> DEFINE h == Results(bytes, n)
<1>9. h = [i \in 1 .. n |-> (IF i = 1 THEN 0 ELSE h[i - 1]) + term(i)]
  BY <1>8 DEF Results, term
<1> HIDE DEF h
<1>10. h[1] = 0 + term(1) /\ \A i \in 2 .. n : h[i] = h[i - 1] + term(i)
  <2>1. \A i \in 1 .. n : h[i] = (IF i = 1 THEN 0 ELSE h[i - 1]) + term(i)
    BY <1>9
  <2>2. 1 \in 1 .. n
    OBVIOUS
  <2> QED
    BY <2>1, <2>2
<1>11. h[1] = term(1)
  <2>1. term(1) \in Int
    BY <1>1
  <2> QED
    BY <1>10, <2>1
<1>12. \A i \in 2 .. n : h[i] = h[i - 1] + Group(bytes[i], i - 1)
  BY <1>10 DEF term
<1> QED
  BY <1>2, <1>11, <1>12 DEF h

\* The first byte that has no bit for more after it.
LEMMA EndIs ==
    ASSUME NEW bytes \in Seq(Int)
    PROVE  /\ \A n \in 1 .. Len(bytes) :
                  bytes[n] < 128 /\ (\A i \in 1 .. Len(bytes) : i < n => bytes[i] >= 128)
                      => SelectInSeq(bytes, LAMBDA b : b < 128) = n
           /\ (\A i \in 1 .. Len(bytes) : bytes[i] >= 128)
                  => SelectInSeq(bytes, LAMBDA b : b < 128) = 0
<1> DEFINE ends == {i \in 1 .. Len(bytes) : bytes[i] < 128}
           size == IF ends # {} THEN Min(ends) ELSE 0
<1>1. SelectInSeq(bytes, LAMBDA b : b < 128) = size
  BY DEF SelectInSeq
<1>2. Len(bytes) \in Nat /\ \A i \in 1 .. Len(bytes) : bytes[i] \in Int
  OBVIOUS
<1>3. ASSUME NEW n \in 1 .. Len(bytes), bytes[n] < 128,
             \A i \in 1 .. Len(bytes) : i < n => bytes[i] >= 128
      PROVE  size = n
  <2>1. n \in ends /\ ends \subseteq Int /\ \A j \in ends : n <= j
    BY <1>2, <1>3
  <2>2. Min(ends) = n
    <3> HIDE DEF ends
    <3> QED
      BY <2>1, MinIs
  <2> QED
    BY <2>1, <2>2
<1>4. ASSUME \A i \in 1 .. Len(bytes) : bytes[i] >= 128
      PROVE  size = 0
  BY <1>2, <1>4
<1> HIDE DEF size
<1> QED
  BY <1>1, <1>3, <1>4

\* The number of the groups of a VarInt.
LEMMA GroupsGive ==
    ASSUME NEW v \in Int32, NEW n \in 1 .. 5, VarIntSize(v, n), NEW bytes,
           \A i \in 1 .. 5 : i <= n => bytes[i] =
               ((IF i = 1 THEN v ELSE Lefts(v)[i - 1]) % 128) + (IF i < n THEN 128 ELSE 0)
    PROVE  Results(bytes, n)[n] = v
<1>1. v \in Int
  BY Int32Is
<1> DEFINE r == Lefts(v)
<1>2. r \in [1 .. 5 -> Int]
  BY LeftsOf
<1>3. /\ r[1] = Shifted(v) /\ r[2] = Shifted(r[1]) /\ r[3] = Shifted(r[2])
      /\ r[4] = Shifted(r[3]) /\ r[5] = Shifted(r[4])
  BY <1>1, LeftsAre
<1> HIDE DEF r
<1>4. /\ r[1] >= 0 /\ r[2] >= 0 /\ r[3] >= 0 /\ r[4] >= 0 /\ r[4] < 16 /\ r[5] = 0
      /\ r[1] = 0 => r[2] = 0
      /\ r[2] = 0 => r[3] = 0
      /\ r[3] = 0 => r[4] = 0
      /\ r[1] = 128 * r[2] + (r[1] % 128)
      /\ r[2] = 128 * r[3] + (r[2] % 128)
      /\ r[3] = 128 * r[4] + (r[3] % 128)
      /\ r[4] % 128 = r[4]
      /\ v = (v % 128) + 128 * r[1] - (IF r[4] < 8 THEN 0 ELSE 4294967296)
  BY SMT, <1>2, <1>3, GroupsOf
<1>5. r[1] \in Int /\ r[2] \in Int /\ r[3] \in Int /\ r[4] \in Int
  BY <1>2
<1>6. PICK d1, d2, d3, d4, d5 :
          /\ d1 = v % 128 /\ d2 = r[1] % 128 /\ d3 = r[2] % 128 /\ d4 = r[3] % 128
          /\ d5 = r[4] % 128
  OBVIOUS
<1>7. /\ d1 \in Int /\ 0 <= d1 /\ d1 < 128 /\ d2 \in Int /\ 0 <= d2 /\ d2 < 128
      /\ d3 \in Int /\ 0 <= d3 /\ d3 < 128 /\ d4 \in Int /\ 0 <= d4 /\ d4 < 128
      /\ d5 \in Int /\ 0 <= d5 /\ d5 < 128 /\ d5 < 16 /\ d5 = r[4]
  <2>1. d5 = r[4] /\ 0 <= r[4] /\ r[4] < 16
    BY SMT, <1>4, <1>6
  <2> QED
    BY <1>1, <1>5, <1>6, <2>1
<1>8. ASSUME NEW i \in 1 .. 5, i <= n
      PROVE  bytes[i] = ((IF i = 1 THEN v ELSE r[i - 1]) % 128) + (IF i < n THEN 128 ELSE 0)
  BY <1>8 DEF r
<1>9. bytes[1] = d1 \/ bytes[1] = d1 + 128
  <2>1. 1 \in 1 .. 5 /\ 1 <= n
    OBVIOUS
  <2>2. bytes[1] = d1 + (IF 1 < n THEN 128 ELSE 0)
    BY <1>6, <1>8, <2>1
  <2> QED
    BY <1>7, <2>2
<1>10. ASSUME NEW i \in 2 .. 5, i <= n
       PROVE  bytes[i] = (r[i - 1] % 128) \/ bytes[i] = (r[i - 1] % 128) + 128
  <2>1. i \in 1 .. 5 /\ i # 1 /\ i - 1 \in 1 .. 5
    OBVIOUS
  <2>2. bytes[i] = (r[i - 1] % 128) + (IF i < n THEN 128 ELSE 0)
    BY <1>8, <1>10, <2>1
  <2>3. r[i - 1] % 128 \in Int
    BY <1>2, <2>1
  <2> QED
    BY <2>2, <2>3
<1>11. /\ 2 <= n => bytes[2] = d2 \/ bytes[2] = d2 + 128
       /\ 3 <= n => bytes[3] = d3 \/ bytes[3] = d3 + 128
       /\ 4 <= n => bytes[4] = d4 \/ bytes[4] = d4 + 128
       /\ 5 <= n => bytes[5] = d5 \/ bytes[5] = d5 + 128
  <2>1. 2 - 1 = 1 /\ 3 - 1 = 2 /\ 4 - 1 = 3 /\ 5 - 1 = 4
    OBVIOUS
  <2>2. 2 \in 2 .. 5 /\ 3 \in 2 .. 5 /\ 4 \in 2 .. 5 /\ 5 \in 2 .. 5
    OBVIOUS
  <2> QED
    BY <1>6, <1>10, <2>1, <2>2
<1>12. Group(bytes[1], 0) = d1
  BY <1>7, <1>9, GroupIs
<1>13. 2 <= n => Group(bytes[2], 1) = d2 * 128
  BY <1>7, <1>11, GroupIs
<1>14. 3 <= n => Group(bytes[3], 2) = d3 * 16384
  BY <1>7, <1>11, GroupIs
<1>15. 4 <= n => Group(bytes[4], 3) = d4 * 2097152
  BY SMT, <1>7, <1>11, GroupIs
<1>16. 5 <= n => Group(bytes[5], 4) = (IF d5 < 8 THEN d5 ELSE d5 - 16) * 268435456
  BY SMT, <1>7, <1>11, GroupIs
<1>17. GroupsAreInts(bytes, n)
  <2>1. /\ Group(bytes[1], 0) \in Int
        /\ 2 <= n => Group(bytes[2], 1) \in Int
        /\ 3 <= n => Group(bytes[3], 2) \in Int
        /\ 4 <= n => Group(bytes[4], 3) \in Int
        /\ 5 <= n => Group(bytes[5], 4) \in Int
    BY SMT, <1>7, <1>12, <1>13, <1>14, <1>15, <1>16
  <2>2. ASSUME NEW i \in 1 .. n PROVE Group(bytes[i], i - 1) \in Int
    <3>1. i \in Nat /\ (i = 1 \/ i = 2 \/ i = 3 \/ i = 4 \/ i = 5) /\ i <= n
      OBVIOUS
    <3>2. 1 - 1 = 0 /\ 2 - 1 = 1 /\ 3 - 1 = 2 /\ 4 - 1 = 3 /\ 5 - 1 = 4
      OBVIOUS
    <3> QED
      BY <2>1, <3>1, <3>2
  <2> QED
    BY <2>2 DEF GroupsAreInts
<1> DEFINE h == Results(bytes, n)
<1>18. /\ h[1] = Group(bytes[1], 0)
       /\ \A i \in 2 .. n : h[i] = h[i - 1] + Group(bytes[i], i - 1)
  BY <1>17, ResultsAre
<1> HIDE DEF h
<1>19. /\ 2 <= n => h[2] = h[1] + Group(bytes[2], 1)
       /\ 3 <= n => h[3] = h[2] + Group(bytes[3], 2)
       /\ 4 <= n => h[4] = h[3] + Group(bytes[4], 3)
       /\ 5 <= n => h[5] = h[4] + Group(bytes[5], 4)
  <2>1. 2 - 1 = 1 /\ 3 - 1 = 2 /\ 4 - 1 = 3 /\ 5 - 1 = 4
    OBVIOUS
  <2>2. /\ 2 <= n => 2 \in 2 .. n
        /\ 3 <= n => 3 \in 2 .. n
        /\ 4 <= n => 4 \in 2 .. n
        /\ 5 <= n => 5 \in 2 .. n
    OBVIOUS
  <2> QED
    BY <1>18, <2>1, <2>2
<1>20. h[1] = d1 /\ (2 <= n => h[2] = d1 + d2 * 128)
  BY <1>7, <1>12, <1>13, <1>18, <1>19
<1>21. 3 <= n => h[3] = d1 + d2 * 128 + d3 * 16384
  BY SMT, <1>7, <1>14, <1>19, <1>20
<1>22. 4 <= n => h[4] = d1 + d2 * 128 + d3 * 16384 + d4 * 2097152
  BY SMT, <1>7, <1>15, <1>19, <1>21
<1>23. 5 <= n => h[5] = d1 + d2 * 128 + d3 * 16384 + d4 * 2097152
                         + (IF d5 < 8 THEN d5 ELSE d5 - 16) * 268435456
  BY SMT, <1>7, <1>16, <1>19, <1>22
<1>24. PICK q1, q2, q3, q4 :
           q1 = r[1] /\ q2 = r[2] /\ q3 = r[3] /\ q4 = r[4]
  OBVIOUS
<1>25. /\ q1 \in Int /\ q2 \in Int /\ q3 \in Int /\ q4 \in Int
       /\ q4 = d5 /\ q3 = 128 * q4 + d4 /\ q2 = 128 * q3 + d3 /\ q1 = 128 * q2 + d2
       /\ q1 = 0 => q2 = 0
       /\ q2 = 0 => q3 = 0
       /\ q3 = 0 => q4 = 0
       /\ v = d1 + 128 * q1 - (IF q4 < 8 THEN 0 ELSE 4294967296)
  BY SMT, <1>4, <1>5, <1>6, <1>7, <1>24
<1>26. Lefts(v)[n] = 0
  BY DEF VarIntSize
<1>27. CASE n = 1
  <2>1. q1 = 0
    BY <1>24, <1>26, <1>27 DEF r
  <2>2. h[1] = v
    BY SMTT(60), <1>7, <1>20, <1>25, <2>1
  <2> QED
    BY <1>27, <2>2 DEF h
<1>28. CASE n = 2
  <2>1. q2 = 0
    BY <1>24, <1>26, <1>28 DEF r
  <2>2. q4 < 8 /\ q1 = d2
    BY SMT, <1>7, <1>25, <2>1
  <2>3. v = d1 + 128 * q1
    BY SMT, <1>1, <1>7, <1>25, <2>2
  <2>4. h[2] = v
    BY <1>7, <1>20, <1>28, <2>2, <2>3
  <2> QED
    BY <1>28, <2>4 DEF h
<1>29. CASE n = 3
  <2>1. q3 = 0
    BY <1>24, <1>26, <1>29 DEF r
  <2>2. q4 < 8 /\ q2 = d3 /\ q1 = 128 * d3 + d2
    <3>1. q4 = 0 /\ q2 = 128 * q3 + d3 /\ q1 = 128 * q2 + d2
      BY SMT, <1>25, <2>1
    <3>2. q2 = d3
      BY <1>7, <2>1, <3>1
    <3> QED
      BY <3>1, <3>2
  <2>3. v = d1 + 128 * q1
    BY SMT, <1>1, <1>7, <1>25, <2>2
  <2>4. h[3] = v
    BY <1>7, <1>21, <1>29, <2>2, <2>3
  <2> QED
    BY <1>29, <2>4 DEF h
<1>30. CASE n = 4
  <2>1. q4 = 0
    BY <1>24, <1>26, <1>30 DEF r
  <2>2. h[4] = v
    BY SMT, <1>7, <1>22, <1>25, <1>30, <2>1
  <2> QED
    BY <1>30, <2>2 DEF h
<1>31. CASE n = 5
  <2>1. h[5] = v
    BY SMT, <1>1, <1>7, <1>23, <1>25, <1>31
  <2> QED
    BY <1>31, <2>1 DEF h
<1> QED
  BY <1>27, <1>28, <1>29, <1>30, <1>31

LEMMA VarIntTrial ==
    ASSUME NEW v \in Int32
    PROVE  LET bytes == VarIntBytes(v)
           IN  /\ VarIntRead(bytes) = [value |-> v, bytes |-> Len(bytes)]
               /\ \A k \in 0 .. Len(bytes) - 1 :
                      VarIntRead(SubSeq(bytes, 1, k)) = [throws |-> "Cannot read anymore"]
<1>1. v \in Int
  BY Int32Is
<1> DEFINE r == Lefts(v)
<1>2. \A i \in 1 .. 5 : r[i] \in Int
  BY LeftsOf
<1> HIDE DEF r
<1> DEFINE digit(i) == (IF i = 1 THEN v ELSE r[i - 1]) % 128
<1>3. ASSUME NEW i \in 1 .. 5 PROVE digit(i) \in Int /\ 0 <= digit(i) /\ digit(i) < 128
  <2>1. i # 1 => r[i - 1] \in Int
    BY <1>2
  <2> QED
    BY <1>1, <2>1
<1> DEFINE bytes == VarIntBytes(v)
<1>4. PICK n \in 1 .. 5 :
          /\ VarIntSize(v, n)
          /\ bytes = [i \in 1 .. n |-> digit(i) + (IF i < n THEN 128 ELSE 0)]
  BY VarIntBytesAre DEF r
<1> HIDE DEF digit, bytes
<1>5. ASSUME NEW i \in 1 .. n
      PROVE  /\ digit(i) + (IF i < n THEN 128 ELSE 0) \in Int
             /\ i < n => digit(i) + (IF i < n THEN 128 ELSE 0) >= 128
             /\ i = n => digit(i) + (IF i < n THEN 128 ELSE 0) < 128
  <2>1. i \in 1 .. 5
    OBVIOUS
  <2> QED
    BY <1>3, <2>1
<1>6. /\ bytes \in Seq(Int) /\ Len(bytes) = n
      /\ \A i \in 1 .. n : bytes[i] = digit(i) + (IF i < n THEN 128 ELSE 0)
  BY <1>4, <1>5
<1>7. bytes[n] < 128 /\ \A i \in 1 .. n : i < n => bytes[i] >= 128
  <2>1. n \in 1 .. n
    OBVIOUS
  <2> QED
    BY <1>5, <1>6, <2>1
<1>8. SelectInSeq(bytes, LAMBDA b : b < 128) = n
  <2>1. n \in 1 .. Len(bytes)
    BY <1>6
  <2> QED
    BY <1>6, <1>7, <2>1, EndIs
<1>9. Results(bytes, n)[n] = v
  <2>1. ASSUME NEW i \in 1 .. 5, i <= n
        PROVE  bytes[i] = ((IF i = 1 THEN v ELSE Lefts(v)[i - 1]) % 128)
                              + (IF i < n THEN 128 ELSE 0)
    <3>1. i \in 1 .. n
      BY <2>1
    <3> QED
      BY <1>6, <3>1 DEF digit, r
  <2> QED
    BY <1>4, <2>1, GroupsGive
<1>10. VarIntRead(bytes) = [value |-> v, bytes |-> n]
  BY <1>8, <1>9 DEF VarIntRead, Results
<1>11. ASSUME NEW k \in 0 .. n - 1
       PROVE  VarIntRead(SubSeq(bytes, 1, k)) = [throws |-> "Cannot read anymore"]
  <2> DEFINE part == SubSeq(bytes, 1, k)
  <2>1. k \in Nat /\ k <= n /\ k < 5
    OBVIOUS
  <2>2. part \in Seq(Int) /\ Len(part) = k /\ \A i \in 1 .. k : part[i] = bytes[i]
    BY <1>6, <2>1
  <2> HIDE DEF part
  <2>3. \A i \in 1 .. Len(part) : part[i] >= 128
    BY <1>7, <2>1, <2>2
  <2>4. SelectInSeq(part, LAMBDA b : b < 128) = 0
    BY <2>2, <2>3, EndIs
  <2>5. ~(Len(part) > 5) /\ 0 \notin 1 .. 5
    BY <2>1, <2>2
  <2> QED
    BY <2>4, <2>5 DEF VarIntRead, part
<1> QED
  BY <1>6, <1>10, <1>11 DEF bytes

-----------------------------------------------------------------------------
(* The server hash                                                          *)

LEMMA BytesAreInts ==
    ASSUME NEW bytes \in Seq(Octet)
    PROVE  /\ bytes \in Seq(Int) /\ Len(bytes) \in Nat
           /\ \A i \in 1 .. Len(bytes) : bytes[i] \in Int /\ 0 <= bytes[i] /\ bytes[i] <= 255
<1>1. \A i \in 1 .. Len(bytes) : bytes[i] \in Octet
  OBVIOUS
<1>2. \A i \in 1 .. Len(bytes) : bytes[i] \in Int /\ 0 <= bytes[i] /\ bytes[i] <= 255
  BY <1>1, OctetsAre
<1>3. bytes = [i \in 1 .. Len(bytes) |-> bytes[i]] /\ Len(bytes) \in Nat
  OBVIOUS
<1> QED
  BY <1>2, <1>3

\* The digits of the number after each of them, with nothing before the first.
Prefix(bytes, base, i) == IF i = 0 THEN 0 ELSE Numbers(bytes[1], bytes, base)[i]

LEMMA PrefixesAre ==
    ASSUME NEW bytes \in Seq(Int), Len(bytes) >= 1, NEW base \in Int
    PROVE  /\ \A i \in 0 .. Len(bytes) : Prefix(bytes, base, i) \in Int
           /\ Prefix(bytes, base, 0) = 0
           /\ \A i \in 1 .. Len(bytes) :
                  Prefix(bytes, base, i) = Prefix(bytes, base, i - 1) * base + bytes[i]
           /\ Prefix(bytes, base, Len(bytes)) = Number(bytes, base)
<1> DEFINE h == Numbers(bytes[1], bytes, base)
           n == Len(bytes)
<1>1. n \in Nat /\ n >= 1 /\ \A i \in 1 .. n : bytes[i] \in Int
  OBVIOUS
<1>2. bytes[1] \in Int
  BY <1>1
<1>3. /\ h \in [1 .. n -> Int] /\ h[1] = bytes[1]
      /\ \A i \in 2 .. n : h[i] = h[i - 1] * base + bytes[i]
  BY <1>2, NumbersExist
<1>4. Number(bytes, base) = h[n]
  BY NumberIs DEF Number
<1> DEFINE p(i) == Prefix(bytes, base, i)
<1>5. p(0) = 0 /\ \A i \in 1 .. n : p(i) = h[i]
  BY DEF Prefix
<1> HIDE DEF h, n, p
<1>6. \A i \in 0 .. n : p(i) \in Int
  BY <1>1, <1>3, <1>5
<1>7. ASSUME NEW i \in 1 .. n PROVE p(i) = p(i - 1) * base + bytes[i]
  <2>1. CASE i = 1
    <3>1. i - 1 = 0 /\ 0 * base = 0 /\ bytes[i] \in Int
      BY <1>1, <2>1
    <3> QED
      BY <1>3, <1>5, <2>1, <3>1
  <2>2. CASE i # 1
    <3>1. i - 1 \in 1 .. n /\ i \in 2 .. n
      BY <1>1, <2>2
    <3> QED
      BY <1>3, <1>5, <3>1
  <2> QED
    BY <2>1, <2>2
<1>8. p(n) = h[n]
  BY <1>1, <1>5
<1> QED
  BY <1>4, <1>5, <1>6, <1>7, <1>8 DEF n, p

\* The number of the digits is that of the bytes.
LEMMA HexDigitsAre ==
    ASSUME NEW bytes \in Seq(Octet), Len(bytes) >= 2
    PROVE  /\ Number(HexDigits(bytes), 16) = Number(bytes, 256)
           /\ HexDigits(bytes)[1] = 0 <=> bytes[1] = 0 /\ bytes[2] < 16
<1> DEFINE n == Len(bytes)
           digit(i) == IF i % 2 = 1 THEN bytes[(i + 1) \div 2] \div 16 ELSE bytes[i \div 2] % 16
           skipped == IF bytes[1] >= 16 THEN 0 ELSE IF bytes[1] > 0 THEN 1 ELSE 2
           digits == HexDigits(bytes)
<1>1. /\ n \in Nat /\ n >= 2
      /\ \A i \in 1 .. n : bytes[i] \in Int /\ 0 <= bytes[i] /\ bytes[i] <= 255
  BY BytesAreInts
<1>2. digits = [i \in 1 .. 2 * n - skipped |-> digit(i + skipped)]
  BY DEF HexDigits
<1>3. skipped \in Int /\ 0 <= skipped /\ skipped <= 2
  OBVIOUS
<1>4. ASSUME NEW i \in 1 .. n
      PROVE  /\ digit(2 * i - 1) = bytes[i] \div 16
             /\ digit(2 * i) = bytes[i] % 16
             /\ digit(2 * i - 1) \in Int /\ digit(2 * i) \in Int
             /\ digit(2 * i - 1) * 16 + digit(2 * i) = bytes[i]
  <2>1. (2 * i - 1) % 2 = 1 /\ ((2 * i - 1) + 1) \div 2 = i /\ (2 * i) % 2 = 0 /\ (2 * i) \div 2 = i
    OBVIOUS
  <2>2. digit(2 * i - 1) = bytes[i] \div 16 /\ digit(2 * i) = bytes[i] % 16
    BY <2>1
  <2> HIDE DEF digit
  <2>3. bytes[i] \in Int
    BY <1>1
  <2> QED
    BY <2>2, <2>3
<1> HIDE DEF n, digit
<1>5. ASSUME NEW j \in 1 .. 2 * n PROVE digit(j) \in Int
  <2>1. PICK i \in 1 .. n : j = 2 * i - 1 \/ j = 2 * i
    <3>1. PICK i : i = (j + 1) \div 2
      OBVIOUS
    <3>2. i \in 1 .. n /\ (j = 2 * i - 1 \/ j = 2 * i)
      BY <1>1, <3>1
    <3> QED
      BY <3>2
  <2> QED
    BY <1>4, <2>1
<1>6. /\ bytes[1] \in Int /\ bytes[2] \in Int /\ 0 <= bytes[1] /\ 0 <= bytes[2]
      /\ bytes[1] <= 255 /\ bytes[2] <= 255
  BY <1>1
<1>7. /\ digit(1) = bytes[1] \div 16 /\ digit(2) = bytes[1] % 16 /\ digit(3) = bytes[2] \div 16
  <2>1. 1 \in 1 .. n /\ 2 \in 1 .. n
    BY <1>1
  <2>2. 2 * 1 - 1 = 1 /\ 2 * 1 = 2 /\ 2 * 2 - 1 = 3
    OBVIOUS
  <2> QED
    BY <1>4, <2>1, <2>2
<1>8. /\ skipped >= 1 => digit(1) = 0
      /\ skipped >= 2 => digit(2) = 0
      /\ digit(1 + skipped) = 0 <=> bytes[1] = 0 /\ bytes[2] < 16
  <2>1. CASE bytes[1] >= 16
    <3>1. 1 + skipped = 1 /\ bytes[1] \div 16 # 0 /\ bytes[1] # 0
      BY <1>6, <2>1
    <3> QED
      BY <1>7, <2>1, <3>1
  <2>2. CASE bytes[1] > 0 /\ bytes[1] < 16
    <3>1. 1 + skipped = 2 /\ bytes[1] \div 16 = 0 /\ bytes[1] % 16 # 0 /\ bytes[1] # 0
      BY <1>6, <2>2
    <3> QED
      BY <1>7, <2>2, <3>1
  <2>3. CASE bytes[1] = 0
    <3>1. /\ 1 + skipped = 3 /\ bytes[1] \div 16 = 0 /\ bytes[1] % 16 = 0
          /\ bytes[2] \div 16 = 0 <=> bytes[2] < 16
      BY <1>6, <2>3
    <3> QED
      BY <1>7, <2>3, <3>1
  <2> QED
    BY <1>6, <2>1, <2>2, <2>3
<1> HIDE DEF skipped
<1> DEFINE size == 2 * n - skipped
<1>9. size \in Nat /\ size >= 2
  BY <1>1, <1>3
<1>10. ASSUME NEW i \in 1 .. size PROVE digits[i] = digit(i + skipped) /\ digits[i] \in Int
  <2>1. i + skipped \in 1 .. 2 * n
    BY <1>1, <1>3
  <2>2. digits[i] = digit(i + skipped)
    BY <1>2
  <2> HIDE DEF digits, size
  <2> QED
    BY <1>5, <2>1, <2>2
<1>11. digits \in Seq(Int) /\ Len(digits) = size
  <2>1. digits = [i \in 1 .. size |-> digits[i]]
    BY <1>2
  <2> HIDE DEF digits, size
  <2> QED
    BY <1>9, <1>10, <2>1
<1> DEFINE g(i) == Prefix(digits, 16, i)
           h(i) == Prefix(bytes, 256, i)
<1> HIDE DEF digits
<1>12. /\ \A i \in 0 .. size : g(i) \in Int
       /\ g(0) = 0
       /\ \A i \in 1 .. size : g(i) = g(i - 1) * 16 + digits[i]
       /\ g(size) = Number(digits, 16)
  <2>1. Len(digits) >= 1 /\ 16 \in Int
    BY <1>9, <1>11
  <2> HIDE DEF size
  <2> QED
    BY <1>11, <2>1, PrefixesAre
<1>13. /\ \A i \in 0 .. n : h(i) \in Int
       /\ h(0) = 0
       /\ \A i \in 1 .. n : h(i) = h(i - 1) * 256 + bytes[i]
       /\ h(n) = Number(bytes, 256)
  <2>1. Len(bytes) >= 1 /\ 256 \in Int /\ bytes \in Seq(Int)
    BY BytesAreInts
  <2> QED
    BY ZenonT(90), <2>1, PrefixesAre DEF n
<1> HIDE DEF g, h
<1> DEFINE G(j) == IF j <= skipped THEN 0 ELSE g(j - skipped)
<1>14. ASSUME NEW j \in 1 .. 2 * n
       PROVE  G(j - 1) \in Int /\ G(j) = G(j - 1) * 16 + digit(j)
  <2>1. CASE j <= skipped
    <3>1. G(j) = 0 /\ G(j - 1) = 0 /\ digit(j) = 0
      <4>1. j = 1 \/ j = 2
        BY <1>3, <2>1
      <4> QED
        BY <1>3, <1>8, <2>1, <4>1
    <3> HIDE DEF G
    <3> QED
      BY <3>1
  <2>2. CASE j > skipped
    <3>1. j - skipped \in 1 .. size /\ (j - skipped) - 1 = (j - 1) - skipped /\ (j - skipped) + skipped = j
      BY <1>1, <1>3, <2>2
    <3>2. g(j - skipped) = g((j - 1) - skipped) * 16 + digit(j)
      BY <1>10, <1>12, <3>1
    <3>3. G(j) = g(j - skipped)
      BY <1>3, <2>2
    <3>4. G(j - 1) = g((j - 1) - skipped)
      <4>1. CASE j - 1 = skipped
        BY <1>3, <1>12, <4>1
      <4>2. CASE j - 1 > skipped
        BY <1>3, <4>2
      <4> QED
        BY <1>3, <2>2, <4>1, <4>2
    <3>5. (j - 1) - skipped \in 0 .. size
      BY <1>1, <1>3, <2>2
    <3> HIDE DEF G
    <3> QED
      BY <1>12, <3>2, <3>3, <3>4, <3>5
  <2> QED
    BY <1>3, <2>1, <2>2
<1>15. G(0) = 0 /\ G(2 * n) = g(size)
  BY <1>1, <1>3, <1>12
<1> HIDE DEF G, size
<1> DEFINE S == {i \in 0 .. n : G(2 * i) = h(i)}
<1>16. 0 \in S
  <2>1. 2 * 0 = 0 /\ 0 \in 0 .. n
    BY <1>1
  <2> QED
    BY <1>13, <1>15, <2>1
<1>17. ASSUME NEW k \in 0 .. n - 1, k \in S PROVE k + 1 \in S
  <2>1. PICK i : i = k + 1
    OBVIOUS
  <2>2. /\ i \in 1 .. n /\ i - 1 = k /\ 2 * i \in 1 .. 2 * n /\ 2 * i - 1 \in 1 .. 2 * n
        /\ (2 * i - 1) - 1 = 2 * k
    BY <1>1, <2>1
  <2>3. G(2 * k) = h(k)
    BY <1>17
  <2>4. /\ G(2 * i) = G(2 * i - 1) * 16 + digit(2 * i)
        /\ G(2 * i - 1) = G(2 * k) * 16 + digit(2 * i - 1)
        /\ G(2 * k) \in Int /\ G(2 * i - 1) \in Int
    BY <1>14, <2>2
  <2>5. h(i) = h(k) * 256 + bytes[i]
    BY <1>13, <2>2
  <2>6. /\ digit(2 * i - 1) \in Int /\ digit(2 * i) \in Int
        /\ digit(2 * i - 1) * 16 + digit(2 * i) = bytes[i]
    BY <1>4, <2>2
  <2>7. PICK d, e, x, y, z : /\ d = digit(2 * i - 1) /\ e = digit(2 * i)
                             /\ x = G(2 * k) /\ y = G(2 * i - 1) /\ z = G(2 * i)
    OBVIOUS
  <2>8. /\ d \in Int /\ e \in Int /\ x \in Int /\ y \in Int
        /\ z = y * 16 + e /\ y = x * 16 + d /\ h(i) = x * 256 + (d * 16 + e)
    BY <2>3, <2>4, <2>5, <2>6, <2>7
  <2>9. z = h(i)
    BY <2>8
  <2> QED
    BY <2>1, <2>2, <2>7, <2>9
<1>18. n \in S
  <2>1. 0 .. n \subseteq S
    <3> HIDE DEF S
    <3>1. 0 \in Int /\ n \in Int
      BY <1>1
    <3> QED
      BY <1>16, <1>17, <3>1, InductionUpTo
  <2> QED
    BY <1>1, <2>1
<1>19. digits[1] = digit(1 + skipped)
  BY <1>9, <1>10
<1>20. g(size) = h(n)
  BY <1>15, <1>18
<1> QED
  BY <1>8, <1>12, <1>13, <1>19, <1>20 DEF digits

\* A number with a byte more than half, which has 16 and then zeros.
LEMMA HalfIs ==
    ASSUME NEW bytes \in Seq(Octet), Len(bytes) >= 2,
           NEW half, half = [i \in 1 .. Len(bytes) - 1 |-> IF i = 1 THEN 16 ELSE 0]
    PROVE  Number(bytes, 256) < Number(half, 256) <=> bytes[1] = 0 /\ bytes[2] < 16
<1> DEFINE n == Len(bytes)
           h(i) == Prefix(bytes, 256, i)
           k(i) == Prefix(half, 256, i)
<1>1. /\ n \in Nat /\ n >= 2 /\ bytes \in Seq(Int)
      /\ \A i \in 1 .. n : bytes[i] \in Int /\ 0 <= bytes[i] /\ bytes[i] <= 255
  BY BytesAreInts
<1>2. half \in Seq(Int) /\ Len(half) = n - 1 /\ half[1] = 16 /\ \A i \in 2 .. n - 1 : half[i] = 0
  <2> HIDE DEF n
  <2>1. half = [i \in 1 .. n - 1 |-> IF i = 1 THEN 16 ELSE 0]
    BY DEF n
  <2> QED
    BY <1>1, <2>1
<1>3. /\ \A i \in 0 .. n : h(i) \in Int
      /\ h(0) = 0
      /\ \A i \in 1 .. n : h(i) = h(i - 1) * 256 + bytes[i]
      /\ h(n) = Number(bytes, 256)
  <2>1. Len(bytes) >= 1 /\ 256 \in Int
    OBVIOUS
  <2> QED
    BY ZenonT(90), <1>1, <2>1, PrefixesAre
<1> HIDE DEF n, h
<1>4. /\ \A i \in 0 .. n - 1 : k(i) \in Int
      /\ k(0) = 0
      /\ \A i \in 1 .. n - 1 : k(i) = k(i - 1) * 256 + half[i]
      /\ k(n - 1) = Number(half, 256)
  <2>1. half \in Seq(Int) /\ Len(half) >= 1 /\ 256 \in Int
    BY <1>1, <1>2
  <2>2. /\ \A i \in 0 .. Len(half) : k(i) \in Int
        /\ k(0) = 0
        /\ \A i \in 1 .. Len(half) : k(i) = k(i - 1) * 256 + half[i]
        /\ k(Len(half)) = Number(half, 256)
    BY ZenonT(90), <2>1, PrefixesAre
  <2>3. Len(half) = n - 1
    BY <1>2
  <2> HIDE DEF k
  <2>4. \A i \in 0 .. n - 1 : k(i) \in Int
    BY <2>2, <2>3, ZenonT(90)
  <2>5. k(0) = 0
    BY <2>2, Zenon
  <2>6. \A i \in 1 .. n - 1 : k(i) = k(i - 1) * 256 + half[i]
    BY <2>2, <2>3, ZenonT(90)
  <2>7. k(n - 1) = Number(half, 256)
    BY <2>2, <2>3, ZenonT(90)
  <2> QED
    BY <2>4, <2>5, <2>6, <2>7, Zenon
<1> HIDE DEF k
<1>5. k(1) = 16 /\ h(2) = bytes[1] * 256 + bytes[2]
  <2>1. 1 \in 1 .. n - 1 /\ 1 \in 1 .. n /\ 2 \in 1 .. n /\ 1 - 1 = 0 /\ 2 - 1 = 1
    BY <1>1
  <2>2. k(1) = k(1 - 1) * 256 + half[1]
    BY ZenonT(90), <1>4, <2>1
  <2>3. h(1) = h(1 - 1) * 256 + bytes[1]
    BY <1>3, <2>1
  <2>4. h(2) = h(2 - 1) * 256 + bytes[2]
    BY <1>3, <2>1
  <2>5. bytes[1] \in Int /\ bytes[2] \in Int
    BY <1>1, <2>1
  <2>6. k(1) = 0 * 256 + 16 /\ h(1) = 0 * 256 + bytes[1]
    BY <1>2, <1>3, <1>4, <2>1, <2>2, <2>3
  <2> QED
    BY <2>1, <2>4, <2>5, <2>6
<1>6. ASSUME NEW i \in 1 .. n - 2
      PROVE  \E x, y, b \in Int :
                 /\ x = h(i + 1) /\ y = k(i) /\ 0 <= b /\ b <= 255
                 /\ h((i + 1) + 1) = x * 256 + b /\ k(i + 1) = y * 256
  <2>1. /\ (i + 1) + 1 \in 1 .. n /\ ((i + 1) + 1) - 1 = i + 1 /\ i + 1 \in 2 .. n - 1
        /\ i + 1 \in 1 .. n - 1 /\ (i + 1) - 1 = i /\ i \in 0 .. n - 1 /\ i + 1 \in 0 .. n
    BY <1>1
  <2>2. h((i + 1) + 1) = h(((i + 1) + 1) - 1) * 256 + bytes[(i + 1) + 1]
    BY <1>3, <2>1
  <2>2a. k(i + 1) = k((i + 1) - 1) * 256 + half[i + 1]
    BY ZenonT(90), <1>4, <2>1
  <2>2b. half[i + 1] = 0
    BY <1>2, <2>1
  <2>3. PICK x, y, b : x = h(i + 1) /\ y = k(i) /\ b = bytes[(i + 1) + 1]
    OBVIOUS
  <2>4. x \in Int /\ y \in Int /\ b \in Int /\ 0 <= b /\ b <= 255
    BY <1>1, <1>3, <1>4, <2>1, <2>3
  <2>5. k(i + 1) = y * 256
    BY SMTT(60), <2>1, <2>2a, <2>2b, <2>3, <2>4
  <2>6. h((i + 1) + 1) = x * 256 + b
    BY <2>1, <2>2, <2>3
  <2> QED
    BY SMTT(60), <2>3, <2>4, <2>5, <2>6
<1>7. /\ 1 \in Int /\ n - 1 \in Int /\ n - 1 \in 1 .. n - 1 /\ (n - 1) + 1 = n
      /\ (n - 1) - 1 = n - 2 /\ 1 \in 1 .. n - 1 /\ 1 + 1 = 2
      /\ bytes[1] \in Int /\ bytes[2] \in Int /\ 0 <= bytes[1] /\ 0 <= bytes[2]
  <2>1. 1 \in 1 .. n /\ 2 \in 1 .. n
    BY <1>1
  <2> QED
    BY <1>1, <2>1
<1>8. ASSUME bytes[1] = 0, bytes[2] < 16
      PROVE  h(n) < k(n - 1)
  <2> DEFINE S == {i \in 1 .. n - 1 : h(i + 1) < k(i)}
  <2>1. 1 \in S
    <3>1. h(2) < k(1)
      BY SMTT(60), <1>5, <1>7, <1>8
    <3> QED
      BY <1>7, <3>1
  <2>2. ASSUME NEW i \in 1 .. (n - 1) - 1, i \in S PROVE i + 1 \in S
    <3>1. i \in 1 .. n - 2 /\ i + 1 \in 1 .. n - 1
      BY <1>1
    <3>2. PICK x, y, b \in Int :
              /\ x = h(i + 1) /\ y = k(i) /\ 0 <= b /\ b <= 255
              /\ h((i + 1) + 1) = x * 256 + b /\ k(i + 1) = y * 256
      BY ZenonT(90), <1>6, <3>1
    <3>3. x < y
      BY <2>2, <3>2
    <3>4. x * 256 + b < y * 256
      BY SMTT(60), <3>2, <3>3
    <3> QED
      BY <3>1, <3>2, <3>4
  <2>3. 1 .. n - 1 \subseteq S
    <3> HIDE DEF S
    <3> QED
      BY <1>7, <2>1, <2>2, InductionUpTo
  <2> QED
    BY <1>7, <2>3
<1>9. ASSUME ~(bytes[1] = 0 /\ bytes[2] < 16)
      PROVE  ~(h(n) < k(n - 1))
  <2> DEFINE S == {i \in 1 .. n - 1 : h(i + 1) >= k(i)}
  <2>1. 1 \in S
    <3>1. bytes[1] * 256 + bytes[2] >= 16
      <4>1. PICK x, y : x = bytes[1] /\ y = bytes[2]
        OBVIOUS
      <4>2. x \in Int /\ y \in Int /\ 0 <= x /\ 0 <= y /\ (x >= 1 \/ y >= 16)
        BY SMTT(60), <1>7, <1>9, <4>1
      <4>3. x * 256 + y >= 16
        BY <4>2
      <4> QED
        BY <4>1, <4>3
    <3>2. h(2) >= k(1)
      BY <1>5, <3>1
    <3> QED
      BY <1>7, <3>2
  <2>2. ASSUME NEW i \in 1 .. (n - 1) - 1, i \in S PROVE i + 1 \in S
    <3>1. i \in 1 .. n - 2 /\ i + 1 \in 1 .. n - 1
      BY <1>1
    <3>2. PICK x, y, b \in Int :
              /\ x = h(i + 1) /\ y = k(i) /\ 0 <= b /\ b <= 255
              /\ h((i + 1) + 1) = x * 256 + b /\ k(i + 1) = y * 256
      BY ZenonT(90), <1>6, <3>1
    <3>3. x >= y
      BY <2>2, <3>2
    <3>4. x * 256 + b >= y * 256
      BY SMTT(60), <3>2, <3>3
    <3> QED
      BY <3>1, <3>2, <3>4
  <2>3. 1 .. n - 1 \subseteq S
    <3> HIDE DEF S
    <3> QED
      BY <1>7, <2>1, <2>2, InductionUpTo
  <2>4. h(n) >= k(n - 1)
    BY <1>7, <2>3
  <2>5. h(n) \in Int /\ k(n - 1) \in Int
    BY <1>1, <1>3, <1>4
  <2> QED
    BY <2>4, <2>5
<1> QED
  BY <1>3, <1>4, <1>8, <1>9

\* carry of Negated.
IsCarry(carry, bytes) ==
    carry = [i \in 0 .. Len(bytes) |->
                IF i = 0 \/ 255 - bytes[Len(bytes) + 1 - i] + carry[i - 1] > 255 THEN 1 ELSE 0]

Carries(bytes) == CHOOSE carry : IsCarry(carry, bytes)

LEMMA CarriesAre ==
    ASSUME NEW bytes \in Seq(Octet), Len(bytes) >= 2
    PROVE  /\ Carries(bytes)[0] = 1
           /\ \A i \in 0 .. Len(bytes) : Carries(bytes)[i] \in {0, 1}
           /\ \A i \in 1 .. Len(bytes) : Carries(bytes)[i] =
                  IF 255 - bytes[Len(bytes) + 1 - i] + Carries(bytes)[i - 1] > 255 THEN 1 ELSE 0
<1> DEFINE n == Len(bytes)
           bit == {0, 1}
           term(i, c) == IF 255 - bytes[n + 1 - i] + c > 255 THEN 1 ELSE 0
           step == [pair \in (0 .. n) \X bit |-> term(pair[1], pair[2])]
<1>1. n \in Nat /\ 1 \in bit
  OBVIOUS
<1>2. \A i, c : term(i, c) \in bit
  OBVIOUS
<1> HIDE DEF term, bit, n
<1>3. \A i \in 0 .. n, c \in bit : step[<<i, c>>] = term(i, c)
  OBVIOUS
<1>4. IsStep(step, 0, n, bit)
  BY <1>2 DEF IsStep
<1> HIDE DEF step
<1>5. \E g : IsRecursive(g, 0, n, bit, 1, step)
  <2>1. 0 \in Int /\ n \in Int /\ 0 <= n
    BY <1>1
  <2> QED
    BY <1>1, <1>4, <2>1, Recursion
<1>6. PICK g \in [0 .. n -> bit] :
           g[0] = 1 /\ \A i \in 0 .. n : i # 0 => g[i] = step[<<i, g[i - 1]>>]
  BY <1>5 DEF IsRecursive
<1>7. ASSUME NEW i \in 0 .. n, i # 0 PROVE g[i] = term(i, g[i - 1])
  <2>1. g[i - 1] \in bit
    BY <1>1, <1>7
  <2> QED
    BY <1>3, <1>6, <1>7, <2>1
<1>8. g = [i \in 0 .. n |-> IF i = 0 THEN 1 ELSE term(i, g[i - 1])]
  BY <1>6, <1>7
<1>9. g = [i \in 0 .. n |->
              IF i = 0 \/ 255 - bytes[n + 1 - i] + g[i - 1] > 255 THEN 1 ELSE 0]
  BY ZenonT(90), <1>8 DEF term
<1>9a. IsCarry(g, bytes)
  BY <1>9 DEF IsCarry, n
<1> DEFINE h == Carries(bytes)
<1>9b. IsCarry(h, bytes)
  BY <1>9a DEF Carries
<1> HIDE DEF h
<1>10. h = [i \in 0 .. n |->
               IF i = 0 \/ 255 - bytes[n + 1 - i] + h[i - 1] > 255 THEN 1 ELSE 0]
  BY <1>9b DEF IsCarry, n
<1>11. \A i \in 0 .. n : h[i] = IF i = 0 \/ 255 - bytes[n + 1 - i] + h[i - 1] > 255 THEN 1 ELSE 0
  BY <1>10
<1>12. h[0] = 1 /\ \A i \in 1 .. n : h[i] = term(i, h[i - 1])
  <2>1. 0 \in 0 .. n
    BY <1>1
  <2>2. ASSUME NEW i \in 1 .. n PROVE h[i] = term(i, h[i - 1])
    <3>1. i \in 0 .. n /\ i # 0
      BY <1>1
    <3> QED
      BY <1>11, <3>1 DEF term
  <2> QED
    BY <1>11, <2>1, <2>2
<1>13. \A i \in 0 .. n : h[i] \in {0, 1}
  BY <1>11
<1> QED
  BY <1>12, <1>13 DEF h, n, term

\* One byte of the complement, with the carry into it and out of it.
LEMMA NegatedByte ==
    ASSUME NEW b \in Int, 0 <= b, b <= 255, NEW c \in Int, c = 0 \/ c = 1
    PROVE  /\ (255 - b + c) % 256 \in Octet
           /\ (255 - b + c) % 256 = 255 - b + c - 256 * (IF 255 - b + c > 255 THEN 1 ELSE 0)
<1>1. PICK m : m = (255 - b + c) % 256
  OBVIOUS
<1>2. CASE c = 0 \/ b > 0
  <2>1. 0 <= 255 - b + c /\ 255 - b + c <= 255
    BY <1>2
  <2> QED
    BY <2>1 DEF Octet
<1>3. CASE c = 1 /\ b = 0
  <2>1. 255 - b + c = 256
    BY <1>3
  <2> QED
    BY <2>1 DEF Octet
<1> QED
  BY <1>2, <1>3

IsNumbers(g, first, digits, base) ==
    /\ g \in [1 .. Len(digits) -> Int] /\ g[1] = first
    /\ \A i \in 2 .. Len(digits) : g[i] = g[i - 1] * base + digits[i]

LEMMA NumbersAre ==
    ASSUME NEW first \in Int, NEW digits \in Seq(Int), NEW base \in Int, Len(digits) >= 1
    PROVE  IsNumbers(Numbers(first, digits, base), first, digits, base)
  BY NumbersExist DEF IsNumbers

\* The complement of a number with a sign bit is the number without its sign.
LEMMA NegatedIs ==
    ASSUME NEW bytes \in Seq(Octet), Len(bytes) >= 2, bytes[1] >= 128
    PROVE  /\ Negated(bytes) \in Seq(Octet) /\ Len(Negated(bytes)) = Len(bytes)
           /\ Number(Negated(bytes), 256) = -SignedNumber(bytes, 256)
<1> DEFINE n == Len(bytes)
           c == Carries(bytes)
           m == Negated(bytes)
<1>1. /\ n \in Nat /\ n >= 2 /\ bytes \in Seq(Int)
      /\ \A i \in 1 .. n : bytes[i] \in Int /\ 0 <= bytes[i] /\ bytes[i] <= 255
  BY BytesAreInts
<1>2. /\ c[0] = 1
      /\ \A i \in 0 .. n : c[i] \in {0, 1}
      /\ \A i \in 1 .. n : c[i] = IF 255 - bytes[n + 1 - i] + c[i - 1] > 255 THEN 1 ELSE 0
  BY CarriesAre
<1>3. m = [i \in 1 .. n |-> (255 - bytes[i] + c[n - i]) % 256]
  BY DEF Negated, Carries, IsCarry
<1> HIDE DEF n, c, m
<1>4. ASSUME NEW i \in 1 .. n
      PROVE  /\ c[n - i] \in {0, 1} /\ c[n - (i - 1)] \in {0, 1}
             /\ m[i] \in Octet
             /\ m[i] = 255 - bytes[i] + c[n - i] - 256 * c[n - (i - 1)]
             /\ c[n - (i - 1)] = IF 255 - bytes[i] + c[n - i] > 255 THEN 1 ELSE 0
  <2>1. PICK j : j = n - (i - 1)
    OBVIOUS
  <2>2. j \in 1 .. n /\ j \in 0 .. n /\ n + 1 - j = i /\ j - 1 = n - i /\ n - i \in 0 .. n
    BY <1>1, <2>1
  <2>3. c[j] = IF 255 - bytes[n + 1 - j] + c[j - 1] > 255 THEN 1 ELSE 0
    BY <1>2, <2>2
  <2>4. c[j] = IF 255 - bytes[i] + c[n - i] > 255 THEN 1 ELSE 0
    BY <2>2, <2>3
  <2>5. c[n - i] \in {0, 1} /\ c[j] \in {0, 1}
    BY <1>2, <2>2
  <2>6. m[i] = (255 - bytes[i] + c[n - i]) % 256
    BY <1>3
  <2>7. PICK b, d : b = bytes[i] /\ d = c[n - i]
    OBVIOUS
  <2>8. b \in Int /\ 0 <= b /\ b <= 255 /\ d \in Int /\ (d = 0 \/ d = 1)
    BY <1>1, <2>5, <2>7
  <2>9. /\ (255 - b + d) % 256 \in Octet
        /\ (255 - b + d) % 256 = 255 - b + d - 256 * (IF 255 - b + d > 255 THEN 1 ELSE 0)
    BY <2>8, NegatedByte
  <2> QED
    BY <2>1, <2>4, <2>5, <2>6, <2>7, <2>9
<1>5. m \in Seq(Octet) /\ Len(m) = n
  <2>1. m = [i \in 1 .. n |-> m[i]]
    BY <1>3
  <2>2. n \in Nat /\ \A i \in 1 .. n : m[i] \in Octet
    BY <1>1, <1>4
  <2> QED
    BY <2>1, <2>2
<1>6. m \in Seq(Int) /\ \A i \in 1 .. n : m[i] \in Int
  BY <1>5, BytesAreInts
<1> DEFINE first == bytes[1] - 256
           s == Numbers(first, bytes, 256)
           h == Numbers(m[1], m, 256)
<1>7. 1 \in 1 .. n /\ n \in 1 .. n /\ n - n = 0 /\ 1 \in Int /\ n \in Int
  BY <1>1
<1>8. bytes[1] \in Int /\ bytes[1] <= 255 /\ m[1] \in Int /\ first \in Int
  BY <1>1, <1>6, <1>7
<1>9. SignedNumber(bytes, 256) = s[n]
  <2>1. 256 \div 2 = 128 /\ ~(bytes[1] < 128)
    BY <1>8
  <2> QED
    BY <2>1, NumberIs DEF SignedNumber, n
<1>10. Number(m, 256) = h[n]
  BY <1>5, NumberIs DEF Number
<1> HIDE DEF first
<1>11. /\ s \in [1 .. n -> Int] /\ s[1] = first
       /\ \A i \in 2 .. n : s[i] = s[i - 1] * 256 + bytes[i]
  <2>1. bytes \in Seq(Int) /\ first \in Int /\ Len(bytes) >= 1 /\ 256 \in Int
    BY <1>1, <1>8
  <2>2. /\ s \in [1 .. Len(bytes) -> Int] /\ s[1] = first
        /\ \A i \in 2 .. Len(bytes) : s[i] = s[i - 1] * 256 + bytes[i]
    <3>1. PICK f : f = first
      OBVIOUS
    <3>2. f \in Int
      BY <2>1, <3>1
    <3>3. IsNumbers(Numbers(f, bytes, 256), f, bytes, 256)
      BY <2>1, <3>2, NumbersAre
    <3>4. IsNumbers(s, first, bytes, 256)
      BY <3>1, <3>3
    <3> HIDE DEF s
    <3> QED
      BY <3>4 DEF IsNumbers
  <2> HIDE DEF s
  <2> QED
    BY <2>2 DEF n
<1>12. /\ h \in [1 .. n -> Int] /\ h[1] = m[1]
       /\ \A i \in 2 .. n : h[i] = h[i - 1] * 256 + m[i]
  <2>1. m \in Seq(Int) /\ m[1] \in Int /\ Len(m) >= 1 /\ 256 \in Int
    BY <1>1, <1>5, <1>6, <1>8
  <2>2. /\ h \in [1 .. Len(m) -> Int] /\ h[1] = m[1]
        /\ \A i \in 2 .. Len(m) : h[i] = h[i - 1] * 256 + m[i]
    BY SMTT(60), <2>1, NumbersExist
  <2> HIDE DEF h
  <2> QED
    BY <1>5, <2>2
<1> HIDE DEF s, h
<1> DEFINE S == {i \in 1 .. n : h[i] + s[i] = c[n - i] - 1}
<1>13. 1 \in S
  <2>1. /\ c[n - 1] \in {0, 1} /\ m[1] = 255 - bytes[1] + c[n - 1] - 256 * c[n - (1 - 1)]
        /\ c[n - (1 - 1)] = IF 255 - bytes[1] + c[n - 1] > 255 THEN 1 ELSE 0
    BY <1>4, <1>7
  <2>2. PICK b, d, e : b = bytes[1] /\ d = c[n - 1] /\ e = c[n - (1 - 1)]
    OBVIOUS
  <2>3. b \in Int /\ b >= 128 /\ d \in {0, 1} /\ e = 0
    BY <1>8, <2>1, <2>2
  <2>4. m[1] = 255 - b + d /\ s[1] = b - 256
    BY <1>11, <2>1, <2>2, <2>3 DEF first
  <2>5. h[1] + s[1] = d - 1
    BY <1>12, <2>3, <2>4
  <2> QED
    BY <1>7, <2>2, <2>5
<1>14. ASSUME NEW k \in 1 .. n - 1, k \in S PROVE k + 1 \in S
  <2>1. PICK i : i = k + 1
    OBVIOUS
  <2>2. i \in 2 .. n /\ i \in 1 .. n /\ i - 1 = k /\ k \in 1 .. n
    BY <1>1, <2>1
  <2>3. /\ c[n - i] \in {0, 1} /\ c[n - k] \in {0, 1}
        /\ m[i] = 255 - bytes[i] + c[n - i] - 256 * c[n - k]
    BY <1>4, <2>2
  <2>4. h[i] = h[k] * 256 + m[i] /\ s[i] = s[k] * 256 + bytes[i]
    BY <1>11, <1>12, <2>2
  <2>5. h[k] \in Int /\ s[k] \in Int /\ bytes[i] \in Int
    <3>1. h[k] \in Int /\ s[k] \in Int
      BY SMTT(60), <1>11, <1>12, <2>2
    <3> QED
      BY <1>1, <2>2, <3>1
  <2>6. h[k] + s[k] = c[n - k] - 1
    BY <1>14
  <2>7. PICK x, y, b, d, e :
            x = h[k] /\ y = s[k] /\ b = bytes[i] /\ d = c[n - i] /\ e = c[n - k]
    OBVIOUS
  <2>8. x \in Int /\ y \in Int /\ b \in Int /\ d \in Int /\ e \in Int
    BY <2>3, <2>5, <2>7
  <2>8a. x + y = e - 1
    BY <2>6, <2>7
  <2>8b. h[i] = x * 256 + (255 - b + d - 256 * e) /\ s[i] = y * 256 + b
    BY <2>3, <2>4, <2>7
  <2>9. h[i] + s[i] = d - 1
    BY <2>8, <2>8a, <2>8b
  <2> QED
    BY <2>1, <2>2, <2>7, <2>9
<1>15. n \in S
  <2>1. 1 .. n \subseteq S
    <3> HIDE DEF S
    <3> QED
      BY <1>7, <1>13, <1>14, InductionUpTo
  <2> QED
    BY <1>7, <2>1
<1>16. h[n] + s[n] = 0 /\ h[n] \in Int /\ s[n] \in Int
  BY <1>2, <1>7, <1>11, <1>12, <1>15
<1>17. h[n] = -s[n]
  BY <1>16
<1> QED
  BY <1>5, <1>9, <1>10, <1>17 DEF n, m

LEMMA HashTrial ==
    ASSUME NEW bytes \in Seq(Octet), Len(bytes) >= 2
    PROVE  LET hash == ServerHash(bytes)
               size == Number(hash.digits, 16)
               half == [i \in 1 .. Len(bytes) - 1 |-> IF i = 1 THEN 16 ELSE 0]
           IN  /\ (IF hash.minus THEN -size ELSE size) = SignedNumber(bytes, 256)
               /\ hash.digits[1] = 0 <=> size < Number(half, 256)
<1> DEFINE minus == bytes[1] >= 128
           m == IF minus THEN Negated(bytes) ELSE bytes
           half == [i \in 1 .. Len(bytes) - 1 |-> IF i = 1 THEN 16 ELSE 0]
           size == Number(HexDigits(m), 16)
<1>1. /\ ServerHash(bytes).minus = minus
      /\ ServerHash(bytes).digits = HexDigits(m)
  BY DEF ServerHash
<1>2. minus => /\ Negated(bytes) \in Seq(Octet) /\ Len(Negated(bytes)) = Len(bytes)
               /\ Number(Negated(bytes), 256) = -SignedNumber(bytes, 256)
  BY NegatedIs
<1>3. ~minus => Number(bytes, 256) = SignedNumber(bytes, 256)
  <2>1. bytes[1] \in Int
    BY BytesAreInts
  <2>2. 256 \div 2 = 128 /\ (~minus => bytes[1] < 128)
    BY <2>1
  <2> QED
    BY <2>2 DEF Number, SignedNumber
<1>4. m \in Seq(Octet) /\ Len(m) = Len(bytes)
  BY <1>2
<1>5. Len(m) >= 2
  BY <1>4
<1>6. Number(m, 256) \in Int
  <2>1. m \in Seq(Int)
    BY <1>4, BytesAreInts
  <2> HIDE DEF m
  <2>2. Len(m) >= 1 /\ 256 \in Int /\ Len(m) \in 0 .. Len(m)
    BY <1>5, <2>1
  <2> QED
    BY <2>1, <2>2, PrefixesAre
<1> HIDE DEF minus
<1>7. (IF minus THEN -Number(m, 256) ELSE Number(m, 256)) = SignedNumber(bytes, 256)
  <2>1. CASE minus
    <3>1. m = Negated(bytes)
      BY <2>1
    <3>2. Number(m, 256) = -SignedNumber(bytes, 256)
      BY <1>2, <2>1, <3>1
    <3>3. SignedNumber(bytes, 256) \in Int
      <4>1. /\ bytes \in Seq(Int) /\ bytes[1] \in Int
        BY BytesAreInts
      <4> DEFINE first == IF bytes[1] < 256 \div 2 THEN bytes[1] ELSE bytes[1] - 256
      <4>2. /\ first \in Int /\ Len(bytes) \in 1 .. Len(bytes) /\ 256 \in Int
            /\ bytes \in Seq(Int) /\ Len(bytes) >= 1
        BY <4>1
      <4>3. SignedNumber(bytes, 256) = Numbers(first, bytes, 256)[Len(bytes)]
        BY NumberIs DEF SignedNumber
      <4> HIDE DEF first
      <4>4. Numbers(first, bytes, 256) \in [1 .. Len(bytes) -> Int]
        BY <4>2, NumbersExist
      <4> QED
        BY <4>2, <4>3, <4>4
    <3> HIDE DEF m
    <3> QED
      BY <2>1, <3>2, <3>3
  <2>2. CASE ~minus
    BY <1>3, <2>2
  <2> QED
    BY <2>1, <2>2
<1> HIDE DEF m
<1>8. /\ size = Number(m, 256)
      /\ HexDigits(m)[1] = 0 <=> m[1] = 0 /\ m[2] < 16
  BY <1>4, <1>5, HexDigitsAre
<1>9. Number(m, 256) < Number(half, 256) <=> m[1] = 0 /\ m[2] < 16
  <2>1. half = [i \in 1 .. Len(m) - 1 |-> IF i = 1 THEN 16 ELSE 0]
    BY <1>4
  <2> HIDE DEF half
  <2> QED
    BY <1>4, <1>5, <2>1, HalfIs
<1>10. /\ (IF minus THEN -size ELSE size) = SignedNumber(bytes, 256)
       /\ HexDigits(m)[1] = 0 <=> size < Number(half, 256)
  BY <1>7, <1>8, <1>9
<1> QED
  BY <1>1, <1>10

-----------------------------------------------------------------------------
(* The theorems: the input is one of those the callers convert.             *)

TrialIsOne == trial = Untried \/ trial \in Trials

LEMMA TrialsOnly == TrialSpec => []TrialIsOne
<1>1. TrialInit => TrialIsOne
  BY DEF TrialInit, TrialIsOne
<1>2. TrialIsOne /\ [TrialNext]_trial => TrialIsOne'
  BY DEF TrialIsOne, TrialNext, Try, Again
<1> QED
  BY <1>1, <1>2, PTL DEF TrialSpec

\* Every int comes back from its VarInt, and no part of one is read: what
\* readVarInt makes of what writeVarInt wrote (src/src/utils/ByteBuffer.cpp).
THEOREM VarIntsReadBackHolds == TrialSpec => []VarIntsReadBack
<1>1. TrialIsOne => VarIntsReadBack
  <2> SUFFICES ASSUME trial \in Trials, trial.of = "varint" PROVE VarIntsReadBack
    <3>1. trial = Untried => ~(trial.of = "varint")
      BY DEF Untried
    <3>2. ~(trial.of = "varint") => VarIntsReadBack
      BY Zenon DEF VarIntsReadBack
    <3> QED
      BY <3>1, <3>2 DEF TrialIsOne
  <2>1. trial.input \in Int32
    BY TrialsAssumption
  <2>2. LET bytes == VarIntBytes(trial.input)
        IN  /\ VarIntRead(bytes) = [value |-> trial.input, bytes |-> Len(bytes)]
            /\ \A n \in 0 .. Len(bytes) - 1 :
                   VarIntRead(SubSeq(bytes, 1, n)) = [throws |-> "Cannot read anymore"]
    BY <2>1, VarIntTrial
  <2> QED
    BY <2>2 DEF VarIntsReadBack
<1> QED
  BY <1>1, TrialsOnly, PTL

\* Numbers of a fixed size come back with their sign, from either end, in
\* bytes of any even base.
THEOREM FixedReadBackHolds == TrialSpec => []FixedReadBack
<1>1. TrialIsOne => FixedReadBack
  <2>1. CASE trial = Untried
    BY <2>1 DEF Untried, FixedReadBack
  <2>2. CASE trial \in Trials
    BY <2>2, FixedTrial DEF FixedReadBack
  <2> QED
    BY <2>1, <2>2 DEF TrialIsOne
<1> QED
  BY <1>1, TrialsOnly, PTL

\* The server hash of any two bytes or more is the number they are, in
\* hexadecimal and with its sign; it has a leading zero exactly when the first
\* byte and half of the second are zero (genServerHash).
THEOREM HashIsSignedHexHolds == TrialSpec => []HashIsSignedHex
<1>1. TrialIsOne => HashIsSignedHex
  <2> SUFFICES ASSUME trial \in Trials, trial.of = "hash" PROVE HashIsSignedHex
    BY DEF TrialIsOne, Untried, HashIsSignedHex
  <2>1. trial.input \in Seq(Octet) /\ Len(trial.input) >= 2
    BY TrialsAssumption
  <2> QED
    BY SMTT(60), <2>1, HashTrial DEF HashIsSignedHex
<1> QED
  BY <1>1, TrialsOnly, PTL

\* Base64 gives back every string of bytes (base64_encode, base64_decode).
THEOREM Base64ReadsBackHolds == TrialSpec => []Base64ReadsBack
<1>1. TrialIsOne => Base64ReadsBack
  <2> SUFFICES ASSUME trial \in Trials, trial.of = "base64" PROVE Base64ReadsBack
    BY DEF TrialIsOne, Untried, Base64ReadsBack
  <2>1. trial.input \in Seq(Octet)
    BY TrialsAssumption
  <2> QED
    BY <2>1, Base64Trial DEF Base64ReadsBack
<1> QED
  BY <1>1, TrialsOnly, PTL
=============================================================================
