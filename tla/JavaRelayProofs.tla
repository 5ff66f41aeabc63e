-------------------------- MODULE JavaRelayProofs ---------------------------
(***************************************************************************)
(* Proofs about JavaRelay for every stream, every division of it into       *)
(* packets and every buffer: types, the room left for recv, the order of    *)
(* what is sent, and, for the blocking sockets of the servers, that the     *)
(* relay implements PacketPipe's safety part.                               *)
(***************************************************************************)
EXTENDS JavaRelay, TLAPS

-----------------------------------------------------------------------------
(* Facts about the stream and the helpers                                   *)

\* readVarInt yields a header of one to five bytes and a length.
LEMMA HeaderTypes ==
    \A h \in Header :
        h.header \in 1 .. 5 /\ h.length \in Int /\ PacketSize(h) \in Int
<1>1. CASE Position \in Starts
  <2>1. Header = {Frames[Position]}
    BY <1>1 DEF Header
  <2>2. Frames[Position].header \in 1 .. 5 /\ Frames[Position].length \in Nat \ {0}
    BY <1>1, RelayAssumption
  <2> QED
    BY <2>1, <2>2 DEF PacketSize
<1>2. CASE Position \notin Starts
  <2>1. Header = Stray
    BY <1>2 DEF Header
  <2>2. Garbage \subseteq Int
    BY RelayAssumption
  <2>3. \A h \in Header : h.header \in 1 .. 5 /\ h.length \in Int
    BY <2>1, <2>2 DEF Stray
  <2> QED
    BY <2>3 DEF PacketSize
<1> QED
  BY <1>1, <1>2

\* Where a packet starts, its own header is read.
LEMMA HeaderAtStart ==
    ASSUME Position \in Starts
    PROVE  \A h \in Header :
               /\ h = Frames[Position] /\ h.length \in Nat \ {0}
               /\ PacketSize(h) \in Nat /\ PacketSize(h) > 0
               /\ Position + PacketSize(h) = NextStart(Position)
<1>1. Header = {Frames[Position]}
  BY DEF Header
<1>2. Frames[Position].header \in 1 .. 5 /\ Frames[Position].length \in Nat \ {0}
  BY RelayAssumption
<1>3. Position \in Nat
  BY RelayAssumption
<1> QED
  BY <1>1, <1>2, <1>3 DEF PacketSize, NextStart

\* An unsigned short is never negative.
LEMMA UShortNat == \A n \in Int : UShort(n) \in Nat
  BY RelayAssumption DEF UShort

-----------------------------------------------------------------------------
(* Types and room                                                           *)

Fields ==
    /\ base \in Nat /\ size \in Nat /\ offset \in Nat /\ bufferSize \in Nat
    /\ offset <= size /\ size <= bufferSize /\ Received <= Total
    /\ at \in {"scan", "handle", "wedged", "endless", "closed"}
    /\ destination \in {"up", "lost"}
    /\ rewinds \in 0 .. MaxRewinds

\* A VarInt too big, read where no packet starts, has been caught.
CaughtAstray == Catches /\ Position \notin Starts

\* A connection that is polled has room in its buffer, and its buffer starts
\* with the packet that is to be handled.
RoomToReceive ==
    /\ bufferSize >= 5
    /\ at = "scan" => offset = 0 /\ (size < bufferSize \/ CaughtAstray)

\* As long as offset has not been moved back, what has been sent lies before
\* the current position, piece after piece.
Sent ==
    /\ out \in Seq(Nat \X Nat)
    /\ rewinds = 0 =>
           \A i \in DOMAIN out : out[i][1] <= out[i][2] /\ out[i][2] <= Position

\* The first half of NothingTwice.
InOrder == rewinds = 0 => \A i, j \in DOMAIN out : i < j => out[i][2] <= out[j][1]

IInv == Fields /\ RoomToReceive /\ ClosedAtEnd /\ Sent /\ InOrder

USE DEF Position, Received, Readable, Room

LEMMA InitIInv == Init => IInv
<1> SUFFICES ASSUME Init PROVE IInv
  OBVIOUS
<1>1. Fields /\ RoomToReceive /\ ClosedAtEnd
  BY RelayAssumption DEF Init, Fields, RoomToReceive, CaughtAstray, ClosedAtEnd
<1>2. out = << >>
  BY DEF Init
<1>3. Sent /\ InOrder
  BY <1>2 DEF Sent, InOrder
<1> QED
  BY <1>1, <1>3 DEF IInv

\* Steps that send nothing, and move back in the stream only as a rewind, keep
\* Sent.
LEMMA NothingSent ==
    ASSUME Sent, InOrder, Fields, out' = out, base' \in Nat, offset' \in Nat,
           rewinds' = 0 => rewinds = 0 /\ base + offset <= base' + offset'
    PROVE  Sent' /\ InOrder'
<1>1. out' \in Seq(Nat \X Nat) /\ InOrder'
  BY Zenon DEF Sent, InOrder
<1>2. ASSUME rewinds' = 0, NEW i \in DOMAIN out'
      PROVE  out'[i][1] <= out'[i][2] /\ out'[i][2] <= Position'
  <2>1. rewinds = 0 /\ base + offset <= base' + offset' /\ i \in DOMAIN out
    BY <1>2
  <2>2. out[i][1] <= out[i][2] /\ out[i][2] <= base + offset
    BY <2>1 DEF Sent
  <2>3. out[i] \in Nat \X Nat
    BY <2>1 DEF Sent
  <2>4. PICK y \in Nat : y = out[i][2]
    BY <2>3
  <2>5. PICK old \in Nat : old = base + offset
    BY DEF Fields
  <2>6. PICK new \in Nat : new = base' + offset'
    <3>1. \A b, o \in Nat : b + o \in Nat
      OBVIOUS
    <3> QED
      BY <3>1, Zenon
  <2>7. y <= old /\ old <= new
    BY <2>1, <2>2, <2>4, <2>5, <2>6, Zenon
  <2>8. y <= new
    BY <2>7
  <2> QED
    BY <2>2, <2>4, <2>6, <2>8, Zenon
<1> QED
  BY <1>1, <1>2, Zenon DEF Sent

\* A piece that begins at the current position is put behind the others.
LEMMA PieceSent ==
    ASSUME Sent, InOrder, Fields,
           NEW n \in Nat, NEW m \in Nat, n <= m,
           out' = Append(out, <<Position, Position + n>>),
           base' = base, offset' = offset + m, rewinds' = rewinds
    PROVE  Sent' /\ InOrder'
<1> DEFINE p == <<Position, Position + n>>
<1>1. Position \in Nat /\ Position + n \in Nat /\ p \in Nat \X Nat
  BY DEF Fields
<1>2. p[1] = Position /\ p[2] = Position + n
  OBVIOUS
<1> HIDE DEF p
<1>3. out \in Seq(Nat \X Nat) /\ out' = Append(out, p)
  BY DEF Sent, p
<1>4. /\ out' \in Seq(Nat \X Nat)
      /\ DOMAIN out = 1 .. Len(out) /\ DOMAIN out' = 1 .. Len(out) + 1
      /\ Len(out) \in Nat
      /\ \A i \in 1 .. Len(out) : out'[i] = out[i]
      /\ out'[Len(out) + 1] = p
  BY <1>1, <1>3
<1>. Len(out) \in Nat
  BY <1>4
<1>5. ASSUME rewinds = 0
      PROVE  \A i \in 1 .. Len(out) :
          /\ out[i][1] \in Nat /\ out[i][2] \in Nat
          /\ out[i][1] <= out[i][2] /\ out[i][2] <= Position
  <2> TAKE i \in 1 .. Len(out)
  <2>1. i \in DOMAIN out /\ out[i] \in Nat \X Nat
    BY <1>3, <1>4
  <2>2. out[i][1] <= out[i][2] /\ out[i][2] <= Position
    BY <1>5, <2>1 DEF Sent
  <2> QED
    BY <2>1, <2>2
<1>6. Position' = Position + m /\ Position' \in Nat
  BY DEF Fields
<1>7. ASSUME rewinds = 0
      PROVE  \A i \in 1 .. Len(out) + 1 : out'[i][1] <= out'[i][2] /\ out'[i][2] <= Position'
  <2> TAKE i \in 1 .. Len(out) + 1
  <2>1. CASE i \in 1 .. Len(out)
    <3>1. out'[i] = out[i]
      BY <2>1, <1>4
    <3>2. out[i][2] \in Nat /\ out[i][1] <= out[i][2] /\ out[i][2] <= Position
      BY <1>7, <2>1, <1>5
    <3> QED
      BY SMTT(60), <3>1, <3>2, <1>1, <1>6
  <2>2. CASE i = Len(out) + 1
    <3>1. out'[i] = p
      BY <2>2, <1>4
    <3>2. p[1] <= p[2] /\ p[2] <= Position'
      BY SMTT(60), <1>1, <1>2, <1>6
    <3> QED
      BY <3>1, <3>2
  <2>3. i \in 1 .. Len(out) \/ i = Len(out) + 1
    OBVIOUS
  <2> QED
    BY <2>1, <2>2, <2>3, Zenon
<1>8. ASSUME rewinds = 0
      PROVE  \A i, j \in 1 .. Len(out) + 1 : i < j => out'[i][2] <= out'[j][1]
  <2> SUFFICES ASSUME NEW i \in 1 .. Len(out) + 1, NEW j \in 1 .. Len(out) + 1, i < j
               PROVE  out'[i][2] <= out'[j][1]
    OBVIOUS
  <2>1. i \in 1 .. Len(out)
    BY <1>4
  <2>2. CASE j \in 1 .. Len(out)
    BY <1>8, <2>1, <2>2, <1>4 DEF InOrder
  <2>3. CASE j = Len(out) + 1
    BY <1>8, <2>1, <2>3, <1>1, <1>2, <1>4, <1>5
  <2> QED
    BY SMTT(60), <2>2, <2>3, <1>4
<1> QED
  BY <1>4, <1>7, <1>8 DEF Sent, InOrder

-----------------------------------------------------------------------------
(* One lemma per action                                                     *)

LEMMA ReceiveStep == ASSUME IInv, NEW n \in 1 .. Total, Receive(n) PROVE IInv'
<1>1. Fields /\ RoomToReceive /\ Sent /\ InOrder
  BY DEF IInv
<1>2. /\ at = "scan" /\ n <= bufferSize - size /\ n <= Total - (base + size)
      /\ size' = size + n /\ at' = "handle"
      /\ UNCHANGED <<base, offset, bufferSize, destination, out, rewinds>>
  BY DEF Receive
<1>3. Fields' /\ RoomToReceive' /\ ClosedAtEnd'
  BY <1>1, <1>2, RelayAssumption DEF Fields, RoomToReceive, CaughtAstray, ClosedAtEnd
<1>4. Sent' /\ InOrder'
  BY <1>1, <1>2, NothingSent DEF Fields
<1> QED
  BY <1>3, <1>4 DEF IInv

LEMMA ReceiveZeroStep == ASSUME IInv, ReceiveZero PROVE IInv'
<1>1. Fields /\ RoomToReceive /\ Sent /\ InOrder
  BY DEF IInv
<1>2. Fields' /\ RoomToReceive' /\ ClosedAtEnd'
  BY <1>1 DEF ReceiveZero, Fields, RoomToReceive, CaughtAstray, ClosedAtEnd
<1>3. Sent' /\ InOrder'
  BY <1>1, NothingSent DEF ReceiveZero, Fields
<1> QED
  BY <1>2, <1>3 DEF IInv

LEMMA FinishStep == ASSUME IInv, Finish PROVE IInv'
<1>1. Fields /\ RoomToReceive /\ Sent /\ InOrder
  BY DEF IInv
<1>2. Fields' /\ RoomToReceive' /\ ClosedAtEnd'
  BY <1>1 DEF Finish, Forget, Fields, RoomToReceive, CaughtAstray, ClosedAtEnd
<1>3. Sent' /\ InOrder'
  BY <1>1, NothingSent DEF Finish, Forget, Fields
<1> QED
  BY <1>2, <1>3 DEF IInv

LEMMA ForwardFailsStep == ASSUME IInv, ForwardFails PROVE IInv'
<1>1. Fields /\ RoomToReceive /\ Sent /\ InOrder
  BY DEF IInv
<1>2. Forget /\ UNCHANGED <<bufferSize, destination, out, rewinds>>
  BY DEF ForwardFails
<1>3. Fields' /\ RoomToReceive' /\ ClosedAtEnd'
  BY <1>1, <1>2 DEF Forget, Fields, RoomToReceive, CaughtAstray, ClosedAtEnd
<1>4. Sent' /\ InOrder'
  BY <1>1, <1>2, NothingSent DEF Forget, Fields
<1> QED
  BY <1>3, <1>4 DEF IInv

\* What Compact moves to the front is less than a header of at most 5 bytes,
\* which every buffer has room for, or starts astray.
LEMMA HeaderThrowsStep == ASSUME IInv, HeaderThrows PROVE IInv'
<1>1. Fields /\ RoomToReceive /\ Sent /\ InOrder
  BY DEF IInv
<1>2. Handling /\ UNCHANGED <<bufferSize, destination, out, rewinds>>
  BY DEF HeaderThrows
<1>3. size - offset < 5 \/ Position \notin Starts
  BY <1>1, HeaderTypes DEF HeaderThrows, Fields
<1>4. CASE Catches
  <2>1. Compact /\ at' = "scan"
    BY <1>4 DEF HeaderThrows
  <2>2. base' + offset' = base + offset /\ size' = size - offset
    BY <1>1, <2>1 DEF Compact, Fields
  <2>3. Fields' /\ ClosedAtEnd'
    BY <1>1, <1>2, <2>1 DEF Compact, Fields, ClosedAtEnd
  <2>4. RoomToReceive'
    <3>1. CASE size - offset < 5
      BY <1>1, <1>2, <2>1, <3>1 DEF Compact, Fields, RoomToReceive
    <3>2. CASE Position \notin Starts
      <4>1. base' + offset' \notin Starts
        BY <2>2, <3>2, Zenon
      <4>2. offset' = 0 /\ bufferSize' >= 5
        BY <1>1, <1>2, <2>1 DEF Compact, RoomToReceive
      <4> QED
        BY <1>4, <4>1, <4>2 DEF RoomToReceive, CaughtAstray
    <3> QED
      BY <1>3, <3>1, <3>2
  <2>5. Sent' /\ InOrder'
    BY <1>1, <1>2, <2>1, NothingSent DEF Compact, Fields
  <2> QED
    BY <2>3, <2>4, <2>5 DEF IInv
<1>5. CASE ~Catches
  <2>1. UNCHANGED <<base, size, offset>> /\ at' = "wedged"
    BY <1>5 DEF HeaderThrows
  <2>2. Fields' /\ RoomToReceive' /\ ClosedAtEnd'
    BY <1>1, <1>2, <2>1 DEF Fields, RoomToReceive, ClosedAtEnd
  <2>3. Sent' /\ InOrder'
    BY <1>1, <1>2, <2>1, NothingSent DEF Fields
  <2> QED
    BY <2>2, <2>3 DEF IInv
<1> QED
  BY <1>4, <1>5

LEMMA PacketThrowsStep == ASSUME IInv, PacketThrows PROVE IInv'
<1>1. Fields /\ RoomToReceive /\ Sent /\ InOrder
  BY DEF IInv
<1>2. Fields' /\ RoomToReceive' /\ ClosedAtEnd'
  BY <1>1 DEF PacketThrows, Fields, RoomToReceive, ClosedAtEnd
<1>3. Sent' /\ InOrder'
  BY <1>1, NothingSent DEF PacketThrows, Fields
<1> QED
  BY <1>2, <1>3 DEF IInv

LEMMA SpinStep == ASSUME IInv, Spin PROVE IInv'
<1>1. Fields /\ RoomToReceive /\ Sent /\ InOrder
  BY DEF IInv
<1>2. Fields' /\ RoomToReceive' /\ ClosedAtEnd'
  BY <1>1 DEF Spin, Fields, RoomToReceive, ClosedAtEnd
<1>3. Sent' /\ InOrder'
  BY <1>1, NothingSent DEF Spin, Fields
<1> QED
  BY <1>2, <1>3 DEF IInv

\* Growing by the length cut to 16 bits is enough for one more byte.
LEMMA IncompleteStep == ASSUME IInv, Incomplete PROVE IInv'
<1>1. Fields /\ RoomToReceive /\ Sent /\ InOrder
  BY DEF IInv
<1>2. /\ Handling /\ Compact /\ at' = "scan"
      /\ UNCHANGED <<destination, out, rewinds>>
  BY DEF Incomplete
<1>3. PICK h \in Header : bufferSize' = Grown(h)
  BY DEF Incomplete
<1>4. UShort(h.length) \in Nat
  BY <1>3, HeaderTypes, UShortNat
<1>5. bufferSize' \in Nat /\ bufferSize' > size - offset /\ bufferSize' >= bufferSize
  BY <1>1, <1>3, <1>4, RelayAssumption DEF Grown, Fields
<1>6. Fields' /\ RoomToReceive' /\ ClosedAtEnd'
  BY <1>1, <1>2, <1>5 DEF Compact, Handling, Fields, RoomToReceive, CaughtAstray, ClosedAtEnd
<1>7. Sent' /\ InOrder'
  BY <1>1, <1>2, NothingSent DEF Compact, Fields
<1> QED
  BY <1>6, <1>7 DEF IInv

\* A complete packet ends within the buffer.  offset moves back only as a
\* rewind, and not at all for a size that is not negative.
LEMMA PassMoves ==
    ASSUME IInv, NEW h \in Header, Complete(h), Pass(h)
    PROVE  /\ base' = base /\ offset' \in Nat
           /\ Fields' /\ RoomToReceive' /\ ClosedAtEnd'
           /\ rewinds' = 0 => rewinds = 0 /\ base + offset <= base' + offset'
           /\ PacketSize(h) >= 0 =>
                  offset' = offset + PacketSize(h) /\ rewinds' = rewinds
<1>1. Fields /\ RoomToReceive /\ MaxRewinds \in Nat
  BY RelayAssumption DEF IInv
<1>2. PICK k \in Int : k = PacketSize(h)
  BY HeaderTypes
<1>3. k <= size - offset /\ at = "handle"
  BY <1>2 DEF Complete, Handling
<1>4. /\ offset' = IF offset + k < 0 THEN size ELSE offset + k
      /\ rewinds' = IF 0 <= offset + k /\ offset + k < offset THEN rewinds + 1 ELSE rewinds
      /\ rewinds' <= MaxRewinds
      /\ UNCHANGED <<base, size, bufferSize, at, destination>>
  BY <1>2 DEF Pass
<1>5. offset' \in Nat /\ offset' <= size /\ rewinds' \in 0 .. MaxRewinds
  BY <1>1, <1>3, <1>4 DEF Fields
<1>6. rewinds' = 0 => rewinds = 0 /\ base + offset <= base + offset'
  BY <1>1, <1>3, <1>4 DEF Fields
<1>7. k >= 0 => offset' = offset + k /\ rewinds' = rewinds
  BY <1>1, <1>3, <1>4 DEF Fields
<1>8. Fields' /\ RoomToReceive' /\ ClosedAtEnd'
  BY <1>1, <1>3, <1>4, <1>5 DEF Fields, RoomToReceive, ClosedAtEnd
<1> QED
  BY <1>2, <1>4, <1>5, <1>6, <1>7, <1>8

LEMMA ConsumeStep == ASSUME IInv, Consume PROVE IInv'
<1>1. PICK h \in Header : Complete(h) /\ Pass(h)
  BY DEF Consume
<1>2. Fields /\ Sent /\ InOrder
  BY DEF IInv
<1>3. /\ base' = base /\ offset' \in Nat
      /\ Fields' /\ RoomToReceive' /\ ClosedAtEnd'
      /\ rewinds' = 0 => rewinds = 0 /\ base + offset <= base' + offset'
  BY <1>1, PassMoves
<1>4. out' = out /\ base' \in Nat
  BY <1>2, <1>3 DEF Consume, Fields
<1>5. Sent' /\ InOrder'
  BY <1>2, <1>3, <1>4, NothingSent
<1> QED
  BY <1>3, <1>5 DEF IInv

LEMMA ForwardStep == ASSUME IInv, Forward PROVE IInv'
<1>1. PICK h \in Header :
          /\ Complete(h) /\ PacketSize(h) > 0 /\ Pass(h)
          /\ out' = Append(out, <<Position, Position + PacketSize(h)>>)
  BY DEF Forward
<1>2. Fields /\ Sent /\ InOrder /\ PacketSize(h) \in Nat
  BY <1>1, HeaderTypes DEF IInv
<1>3. /\ base' = base /\ offset' = offset + PacketSize(h) /\ rewinds' = rewinds
      /\ Fields' /\ RoomToReceive' /\ ClosedAtEnd'
  BY <1>1, <1>2, PassMoves
<1>4. Sent' /\ InOrder'
  BY <1>1, <1>2, <1>3, PieceSent
<1> QED
  BY <1>3, <1>4 DEF IInv

LEMMA ForwardPartStep ==
    ASSUME IInv, NEW n \in 1 .. Total, ForwardPart(n)
    PROVE  IInv'
<1>1. PICK h \in Header :
          /\ Complete(h) /\ Pass(h) /\ n < PacketSize(h)
          /\ out' = Append(out, <<Position, Position + n>>)
  BY DEF ForwardPart
<1>2. PacketSize(h) \in Nat /\ n \in Nat /\ n <= PacketSize(h)
  BY <1>1, HeaderTypes
<1>3. Fields /\ Sent /\ InOrder
  BY DEF IInv
<1>4. /\ base' = base /\ offset' = offset + PacketSize(h) /\ rewinds' = rewinds
      /\ Fields' /\ RoomToReceive' /\ ClosedAtEnd'
  BY <1>1, <1>2, PassMoves
<1>5. Sent' /\ InOrder'
  BY <1>1, <1>2, <1>3, <1>4, PieceSent
<1> QED
  BY <1>4, <1>5 DEF IInv

LEMMA UnchangedStep == ASSUME IInv, UNCHANGED vars PROVE IInv'
  BY DEF vars, IInv, Fields, RoomToReceive, CaughtAstray, ClosedAtEnd, Sent, InOrder

LEMMA LoseDestinationStep == ASSUME IInv, LoseDestination PROVE IInv'
  BY DEF LoseDestination, IInv, Fields, RoomToReceive, CaughtAstray, ClosedAtEnd, Sent, InOrder

LEMMA NextIInv == IInv /\ [Next]_vars => IInv'
<1> SUFFICES ASSUME IInv, [Next]_vars PROVE IInv'
  OBVIOUS
<1>1. CASE \E n \in 1 .. Total : Receive(n)
  BY <1>1, ReceiveStep
<1>2. CASE ReceiveZero
  BY <1>2, ReceiveZeroStep
<1>3. CASE Handle
  BY <1>3, FinishStep, HeaderThrowsStep, PacketThrowsStep, IncompleteStep,
     ConsumeStep, SpinStep, ForwardStep, ForwardPartStep, ForwardFailsStep DEF Handle
<1>4. CASE LoseDestination
  BY <1>4, LoseDestinationStep
<1>5. CASE Ended \/ UNCHANGED vars
  BY <1>5, UnchangedStep DEF Ended
<1> QED
  BY <1>1, <1>2, <1>3, <1>4, <1>5 DEF Next

LEMMA Invariance == Spec => []IInv
  BY InitIInv, NextIInv, PTL DEF Spec

\* The fields of the buffer stay within the array and within the stream.
THEOREM RelayTypes == Spec => []TypeOK
<1>1. IInv => TypeOK
  BY DEF IInv, Fields, Sent, TypeOK
<1> QED
  BY <1>1, Invariance, PTL

\* For every stream and every initial size of at least five bytes, whatever
\* lengths are read, negative ones and VarInts too big included, and whatever
\* the 16-bit cut leaves of them, no connection is given up early by a build
\* that does not catch the exception, and only where no packet starts by one
\* that does.
THEOREM RelayEndsWithStream == Spec => []ClosedAtEnd
<1>1. IInv => ClosedAtEnd
  BY DEF IInv
<1> QED
  BY <1>1, Invariance, PTL

-----------------------------------------------------------------------------
(* Blocking sockets: the division into packets, and the refinement          *)

ToPassOn == {Piece(s) : s \in Starts \ Own}

\* Exactly the packets before the current position have been passed on.
Delivered ==
    Blocking /\ destination = "up" =>
        /\ \A i \in DOMAIN out : \E s \in Starts : out[i] = Piece(s) /\ s < Position
        /\ \A s \in Starts \ Own :
               s < Position => \E i \in DOMAIN out : out[i] = Piece(s)

\* The second half of NothingTwice.
NoRewind == Blocking /\ destination = "up" => rewinds = 0

Split == Aligned /\ WedgedInHeader /\ NoRewind /\ Delivered

PInv == IInv /\ Split

LEMMA InitSplit == Init => Split
<1> SUFFICES ASSUME Init PROVE Split
  OBVIOUS
<1>1. Position = 0 /\ at = "scan" /\ out = << >>
  BY DEF Init
<1>2. 0 \in Starts \cup {Total}
  BY RelayAssumption
<1>3. \A s \in Starts : ~(s < 0)
  BY RelayAssumption
<1> QED
  BY <1>1, <1>2, <1>3 DEF Init, Split, Aligned, WedgedInHeader, NoRewind, Delivered

\* Where there is something to handle, a packet starts.
LEMMA AtStart ==
    ASSUME PInv, Handling, Blocking, destination = "up"
    PROVE  Position \in Starts
<1>1. Position \in Starts \cup {Total}
  BY DEF PInv, Split, Aligned
<1>2. Position < Total
  BY RelayAssumption DEF PInv, IInv, Fields, Handling
<1>3. Total \in Nat
  BY RelayAssumption
<1> QED
  BY <1>1, <1>2, <1>3

\* Steps that send nothing and keep the position keep the division.
LEMMA StandStill ==
    ASSUME Split, Position' = Position, out' = out, rewinds' = rewinds,
           destination' = "up" => destination = "up"
    PROVE  Aligned' /\ NoRewind' /\ Delivered'
  BY DEF Split, Aligned, NoRewind, Delivered

\* Handling a whole packet leads from its start to the next one.
LEMMA PassStart ==
    ASSUME PInv, Blocking, destination = "up",
           NEW h \in Header, Complete(h), Pass(h)
    PROVE  /\ Position \in Starts /\ Position' = NextStart(Position)
           /\ Position + PacketSize(h) = NextStart(Position)
           /\ Aligned' /\ WedgedInHeader' /\ NoRewind'
           /\ \A s \in Starts : s < Position' <=> s < Position \/ s = Position
<1>1. Position \in Starts /\ Handling
  BY AtStart DEF Complete
<1>2. Position + PacketSize(h) = NextStart(Position)
  BY <1>1, HeaderAtStart
<1>3. base \in Nat /\ offset \in Nat /\ PacketSize(h) \in Nat /\ PacketSize(h) > 0
  BY <1>1, HeaderAtStart DEF PInv, IInv, Fields
<1>4. Position' = NextStart(Position) /\ rewinds' = rewinds
  BY <1>2, <1>3, PassMoves DEF PInv
<1>5. NextStart(Position) \in Starts \cup {Total}
      /\ \A t \in Starts : t <= Position \/ NextStart(Position) <= t
  BY <1>1, RelayAssumption
<1>6. Position \in Nat /\ NextStart(Position) \in Nat /\ Position < NextStart(Position)
  BY <1>2, <1>3
<1>7. \A s \in Starts : s \in Nat
  BY RelayAssumption
<1>8. \A s \in Starts : s < NextStart(Position) <=> s < Position \/ s = Position
  <2> DEFINE here == Position
             there == NextStart(Position)
  <2>1. here \in Nat /\ there \in Nat /\ here < there
        /\ \A t \in Starts : t <= here \/ there <= t
    BY <1>5, <1>6
  <2> HIDE DEF here, there
  <2>2. \A s \in Starts : s < there <=> s < here \/ s = here
    BY <2>1, <1>7
  <2> QED
    BY <2>2 DEF here, there
<1>9. Aligned'
  BY <1>4, <1>5 DEF Aligned
<1>10. WedgedInHeader'
  BY <1>1 DEF WedgedInHeader, Pass, Handling
<1>11. NoRewind'
  BY <1>4 DEF NoRewind, PInv, Split
<1> QED
  BY <1>1, <1>2, <1>4, <1>8, <1>9, <1>10, <1>11

LEMMA ConsumeSplit == ASSUME PInv, Consume PROVE Split'
<1>1. PICK h \in Header : Complete(h) /\ Pass(h)
  BY DEF Consume
<1>2. out' = out /\ destination' = destination
  BY <1>1 DEF Consume, Pass
<1>3. CASE Blocking /\ destination = "up"
  <2>1. /\ Position \in Starts /\ Aligned' /\ WedgedInHeader' /\ NoRewind'
        /\ \A s \in Starts : s < Position' <=> s < Position \/ s = Position
    BY <1>1, <1>3, PassStart
  <2>2. Position \in Own
    BY <2>1 DEF Consume
  <2>3. /\ \A i \in DOMAIN out : \E s \in Starts : out[i] = Piece(s) /\ s < Position
        /\ \A s \in Starts \ Own :
               s < Position => \E i \in DOMAIN out : out[i] = Piece(s)
    BY <1>3 DEF PInv, Split, Delivered
  <2>4. /\ \A i \in DOMAIN out : \E s \in Starts : out[i] = Piece(s) /\ s < Position'
        /\ \A s \in Starts \ Own :
               s < Position' => \E i \in DOMAIN out : out[i] = Piece(s)
    BY <2>1, <2>2, <2>3, Zenon
  <2> QED
    BY <1>2, <2>1, <2>4, Zenon DEF Split, Delivered
<1>4. CASE ~(Blocking /\ destination = "up")
  BY <1>2, <1>4 DEF Split, Aligned, WedgedInHeader, NoRewind, Delivered
<1> QED
  BY <1>3, <1>4

LEMMA ForwardSplit ==
    ASSUME PInv, Forward
    PROVE  /\ Split'
           /\ Blocking => /\ Position \in Starts \ Own
                          /\ out' = Append(out, Piece(Position))
<1>1. PICK h \in Header :
          /\ Complete(h) /\ Pass(h)
          /\ out' = Append(out, <<Position, Position + PacketSize(h)>>)
  BY DEF Forward
<1>2. destination = "up" /\ destination' = "up" /\ Position \notin Own
  BY <1>1 DEF Forward, Pass
<1>3. CASE Blocking
  <2>1. /\ Position \in Starts /\ Aligned' /\ WedgedInHeader' /\ NoRewind'
        /\ Position + PacketSize(h) = NextStart(Position)
        /\ \A s \in Starts : s < Position' <=> s < Position \/ s = Position
    BY <1>1, <1>2, <1>3, PassStart
  <2>2. out' = Append(out, Piece(Position))
    BY <1>1, <2>1 DEF Piece
  <2>3. out \in Seq(Nat \X Nat)
    BY DEF PInv, IInv, Sent
  <2>4. /\ DOMAIN out = 1 .. Len(out) /\ DOMAIN out' = 1 .. Len(out) + 1
        /\ Len(out) \in Nat
        /\ \A i \in 1 .. Len(out) : out'[i] = out[i]
        /\ out'[Len(out) + 1] = Piece(Position)
    <3> HIDE DEF Position
    <3> QED
      BY <2>2, <2>3
  <2>5. /\ \A i \in DOMAIN out : i \in DOMAIN out' /\ out'[i] = out[i]
        /\ \A i \in DOMAIN out' : i \in DOMAIN out \/ i = Len(out) + 1
        /\ Len(out) + 1 \in DOMAIN out'
    BY <2>4
  <2>6. /\ \A i \in DOMAIN out : \E s \in Starts : out[i] = Piece(s) /\ s < Position
        /\ \A s \in Starts \ Own :
               s < Position => \E i \in DOMAIN out : out[i] = Piece(s)
    BY <1>2, <1>3 DEF PInv, Split, Delivered
  <2>7. \A i \in DOMAIN out' : \E s \in Starts : out'[i] = Piece(s) /\ s < Position'
    <3> SUFFICES ASSUME NEW i \in DOMAIN out'
                 PROVE  \E s \in Starts : out'[i] = Piece(s) /\ s < Position'
      OBVIOUS
    <3>1. CASE i \in DOMAIN out
      BY <3>1, <2>1, <2>5, <2>6, Zenon
    <3>2. CASE i = Len(out) + 1
      BY <3>2, <2>1, <2>4, Zenon
    <3> QED
      BY <3>1, <3>2, <2>5
  <2>8. \A s \in Starts \ Own :
            s < Position' => \E i \in DOMAIN out' : out'[i] = Piece(s)
    <3> SUFFICES ASSUME NEW s \in Starts \ Own, s < Position'
                 PROVE  \E i \in DOMAIN out' : out'[i] = Piece(s)
      OBVIOUS
    <3>1. CASE s < Position
      <4>1. PICK i \in DOMAIN out : out[i] = Piece(s)
        BY <3>1, <2>6, Zenon
      <4> QED
        BY <4>1, <2>5, Zenon
    <3>2. CASE s = Position
      BY <3>2, <2>4, <2>5, Zenon
    <3> QED
      BY <3>1, <3>2, <2>1
  <2> QED
    BY <1>2, <2>1, <2>2, <2>7, <2>8, Zenon DEF Split, Delivered
<1>4. CASE ~Blocking
  BY <1>4 DEF Split, Aligned, WedgedInHeader, NoRewind, Delivered
<1> QED
  BY <1>3, <1>4

\* Steps that do not wedge the connection, keep the position and send nothing.
LEMMA StandStillSplit ==
    ASSUME Split, Position' = Position, out' = out, rewinds' = rewinds,
           destination' = "up" => destination = "up",
           at' # "wedged"
    PROVE  Split'
  BY StandStill DEF Split, WedgedInHeader

LEMMA HandleSplit == ASSUME PInv, Handle PROVE Split'
<1> USE DEF PInv
<1>1. base \in Nat /\ offset \in Nat /\ size \in Nat /\ offset <= size
  BY DEF IInv, Fields
<1>2. CASE Finish
  <2>1. offset = size
    BY <1>1, <1>2 DEF Finish
  <2>2. Position' = Position /\ at' = "scan"
    BY <1>1, <1>2, <2>1 DEF Finish, Forget
  <2> QED
    BY <1>2, <2>2, StandStillSplit DEF Finish
<1>3. CASE HeaderThrows
  <2>1. Handling /\ UNCHANGED <<destination, out, rewinds>>
    BY <1>3 DEF HeaderThrows
  <2>2. CASE Catches
    <3>1. Compact /\ at' = "scan"
      BY <1>3, <2>2 DEF HeaderThrows
    <3>2. Position' = Position
      BY <1>1, <3>1 DEF Compact
    <3> QED
      BY <2>1, <3>1, <3>2, StandStillSplit
  <2>3. CASE ~Catches
    <3>1. UNCHANGED <<base, size, offset>>
      BY <1>3, <2>3 DEF HeaderThrows
    <3>2. Aligned' /\ NoRewind' /\ Delivered'
      BY <2>1, <3>1, StandStill
    <3>3. Blocking /\ destination = "up" =>
              Position \in Starts /\ size - offset < Frames[Position].header
      BY <1>3, <2>1, AtStart, HeaderAtStart DEF HeaderThrows
    <3>4. WedgedInHeader'
      BY <2>1, <2>3, <3>1, <3>3 DEF WedgedInHeader
    <3> QED
      BY <3>2, <3>4 DEF Split
  <2> QED
    BY <2>2, <2>3
<1>4. CASE PacketThrows
  <2>1. Handling /\ UNCHANGED <<base, size, offset, destination, out, rewinds>>
    BY <1>4 DEF PacketThrows
  <2>2. Aligned' /\ NoRewind' /\ Delivered'
    BY <2>1, StandStill
  <2>3. ~(Blocking /\ destination = "up")
    <3> SUFFICES ASSUME Blocking, destination = "up" PROVE FALSE
      OBVIOUS
    <3>1. Position \in Starts
      BY <2>1, AtStart
    <3>2. PICK h \in Header : PacketSize(h) <= size - offset /\ size - offset = h.header
      BY <1>4, <3>1 DEF PacketThrows
    <3>3. h.length \in Nat \ {0} /\ h.header \in 1 .. 5
      BY <3>1, HeaderAtStart, HeaderTypes
    <3> QED
      BY <3>2, <3>3 DEF PacketSize
  <2> QED
    BY <2>1, <2>2, <2>3 DEF Split, WedgedInHeader
<1>5. CASE Incomplete
  <2>1. Position' = Position /\ at' = "scan" /\ UNCHANGED <<destination, out, rewinds>>
    BY <1>1, <1>5 DEF Incomplete, Compact
  <2> QED
    BY <2>1, StandStillSplit
<1>6. CASE Consume
  BY <1>6, ConsumeSplit
<1>7. CASE Forward
  BY <1>7, ForwardSplit
<1>8. CASE \E n \in 1 .. Total : ForwardPart(n)
  BY <1>8 DEF ForwardPart, Split, Aligned, WedgedInHeader, NoRewind, Delivered
<1>9. CASE ForwardFails
  <2>1. PICK h \in Header :
            Complete(h) /\ (destination = "lost" \/ ~Blocking \/ PacketSize(h) < 0)
    BY <1>9 DEF ForwardFails
  <2>2. ASSUME Blocking, destination = "up" PROVE FALSE
    <3>1. Position \in Starts
      BY <2>1, <2>2, AtStart DEF Complete
    <3>2. PacketSize(h) \in Nat
      BY <3>1, HeaderAtStart
    <3> QED
      BY <2>1, <2>2, <3>2
  <2>3. destination' = destination
    BY <1>9 DEF ForwardFails
  <2> QED
    BY <2>2, <2>3 DEF Split, Aligned, WedgedInHeader, NoRewind, Delivered
<1>10. CASE Spin
  BY <1>10, StandStillSplit DEF Spin
<1> QED
  BY <1>2, <1>3, <1>4, <1>5, <1>6, <1>7, <1>8, <1>9, <1>10 DEF Handle

LEMMA NextPInv == PInv /\ [Next]_vars => PInv'
<1> SUFFICES ASSUME PInv, [Next]_vars PROVE Split'
  BY NextIInv DEF PInv
<1> USE DEF PInv
<1>1. CASE \E n \in 1 .. Total : Receive(n)
  BY <1>1, StandStillSplit DEF Receive
<1>2. CASE ReceiveZero
  BY <1>2, StandStillSplit DEF ReceiveZero
<1>3. CASE Handle
  BY <1>3, HandleSplit
<1>4. CASE LoseDestination
  BY <1>4 DEF LoseDestination, Split, Aligned, WedgedInHeader, NoRewind, Delivered
<1>5. CASE Ended \/ UNCHANGED vars
  BY <1>5 DEF Ended, vars, Split, Aligned, WedgedInHeader, NoRewind, Delivered
<1> QED
  BY <1>1, <1>2, <1>3, <1>4, <1>5 DEF Next

LEMMA SplitInvariance == Spec => []PInv
<1>1. Init => PInv
  BY InitIInv, InitSplit DEF PInv
<1> QED
  BY <1>1, NextPInv, PTL DEF Spec

\* As long as a server takes what it is sent, handle stands at the start of a
\* packet, for every division of the stream and of its arrival.
THEOREM RelayAligned == Spec => []Aligned
<1>1. PInv => Aligned
  BY DEF PInv, Split
<1> QED
  BY <1>1, SplitInvariance, PTL

\* The one way for such a connection to get stuck is a header that arrives in
\* two parts in a build that does not catch the exception.
THEOREM RelayWedgesInHeader == Spec => []WedgedInHeader
<1>1. PInv => WedgedInHeader
  BY DEF PInv, Split
<1> QED
  BY <1>1, SplitInvariance, PTL

\* For every stream, with partial and failed sends and a lost division into
\* packets, only a length below 0 can make the destination get bytes twice or
\* in another order, and none does to a server that takes all it is sent.
THEOREM RelayKeepsOrder == Spec => []NothingTwice
<1>1. PInv => NothingTwice
  BY Zenon DEF PInv, IInv, InOrder, Split, NoRewind, NothingTwice
<1> QED
  BY <1>1, SplitInvariance, PTL

-----------------------------------------------------------------------------
(* Refinement                                                               *)

Alive == destination = "up" /\ at # "wedged"

\* Every step of a relay to a blocking socket delivers the next packet, cuts
\* the pipe, or is no step of the pipe.
LEMMA PipeStep ==
    ASSUME Blocking, PInv, [Next]_vars
    PROVE  Pipe!Next \/ (out' = out /\ Alive' = Alive)
<1>1. CASE out' = out
  <2>1. Alive' => Alive
    BY <1>1 DEF Alive, Next, vars, Receive, ReceiveZero, Handle, LoseDestination,
       Ended, Finish, Forget, HeaderThrows, PacketThrows, Incomplete, Consume, Spin, Forward,
       ForwardPart, ForwardFails, Pass, Complete, Handling
  <2>2. CASE Alive /\ ~Alive'
    BY <1>1, <2>2 DEF Alive, Pipe!Next, Pipe!Cut
  <2> QED
    BY <1>1, <2>1, <2>2 DEF Alive
<1>2. CASE out' # out
  <2>1. Forward
    BY <1>2 DEF Next, vars, Receive, ReceiveZero, Handle, LoseDestination,
       Ended, Finish, HeaderThrows, PacketThrows, Incomplete, Consume, Spin, ForwardPart,
       ForwardFails
  <2>2. Position \in Starts \ Own /\ out' = Append(out, Piece(Position))
    BY <2>1, ForwardSplit
  <2>3. Alive /\ Alive' /\ destination = "up"
    BY <2>1 DEF Alive, Forward, Pass, Complete, Handling
  <2>4. /\ \A i \in DOMAIN out : \E s \in Starts : out[i] = Piece(s) /\ s < Position
        /\ \A s \in Starts \ Own :
               s < Position => \E i \in DOMAIN out : out[i] = Piece(s)
    BY <2>3 DEF PInv, Split, Delivered
  <2>5. \A s \in Starts : s \in Nat /\ Piece(s)[1] = s
    BY RelayAssumption DEF Piece
  <2>6. \A i \in DOMAIN out : out[i] # Piece(Position)
    <3> SUFFICES ASSUME NEW i \in DOMAIN out, out[i] = Piece(Position) PROVE FALSE
      OBVIOUS
    <3>1. PICK s \in Starts : out[i] = Piece(s) /\ s < Position
      BY <2>4
    <3>2. s = Position /\ Position \in Nat
      BY <2>2, <2>5, <3>1
    <3> QED
      BY <3>1, <3>2
  <2>7. ASSUME NEW g \in Pipe!Pending PROVE Piece(Position)[1] <= g[1]
    <3>1. PICK s \in Starts \ Own : g = Piece(s)
      BY DEF Pipe!Pending
    <3>2. ~(s < Position)
      BY <2>4, <3>1 DEF Pipe!Pending
    <3> QED
      BY <2>2, <2>5, <3>1, <3>2
  <2>8. Piece(Position) \in Pipe!Pending
    BY <2>2, <2>6 DEF Pipe!Pending
  <2>9. Pipe!Deliver
    BY <2>2, <2>3, <2>7, <2>8 DEF Pipe!Deliver, Alive
  <2> QED
    BY <2>9 DEF Pipe!Next
<1> QED
  BY <1>1, <1>2

\* For every stream, the relay to a blocking socket implements the safety part
\* of the pipe: whole packets, once each, in order, until it is cut.
THEOREM RelayIsPipe == ASSUME Blocking PROVE Spec => Pipe!Safety
<1>1. Init => Pipe!Init
  BY DEF Init, Pipe!Init
<1>2. PInv /\ [Next]_vars => [Pipe!Next]_<<out, destination = "up" /\ at # "wedged">>
  BY PipeStep DEF Alive
<1> QED
  BY <1>1, <1>2, SplitInvariance, PTL DEF Spec, Pipe!Safety
=============================================================================
