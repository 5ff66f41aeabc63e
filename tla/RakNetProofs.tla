---------------------------- MODULE RakNetProofs -----------------------------
(***************************************************************************)
(* Proofs about RakNetFragments for any peers, packets and range of packet  *)
(* numbers: the arrays hold what belongs there and parts are used once      *)
(* whatever the network does, and a gentle network loses no packet and no   *)
(* buffer of a part: reassembly is then a channel of whole packets.         *)
(*                                                                          *)
(* Then about FrameSets, for any datagrams: the loop reads the frames where *)
(* the client put them.  Where that is, is a sum over the frames before;    *)
(* what it gives is proved by induction, see DataInduction.                 *)
(***************************************************************************)
EXTENDS RakNetFragments, FrameSets, DataInduction, FiniteSetTheorems

\* Part i of p has arrived.
Has(p, i) == delivered[Part(p, i)] > 0

UnderWay(p) == Begun(p) /\ ~Ended(p)

\* The array of a packet with the parts that have arrived.
Entry(p) == [i \in 0 .. Size(p) - 1 |-> IF Has(p, i) THEN Part(p, i) ELSE Junk]

-----------------------------------------------------------------------------
(* The inductive invariants                                                 *)

Functions == DOMAIN FRAGMENTS = Ids /\ DOMAIN sent = Peers /\ IsABag(completed)

\* Packets under way that share a number: there is at most one, and the entry
\* of the number is its array.
OneEach ==
    \A p, q \in Packets :
        p # q /\ IdOf(p) = IdOf(q) /\ UnderWay(p) => ~UnderWay(q)

Entries == \A p \in Packets : UnderWay(p) => FRAGMENTS[IdOf(p)] = Entry(p)

NoEntries ==
    \A id \in Ids :
        (\A p \in Packets : IdOf(p) = id => ~UnderWay(p)) => FRAGMENTS[id] = Null

\* A packet whose last part has arrived has arrived.
Full == \A p \in Packets : Ended(p) => \A i \in 0 .. Size(p) - 1 : Has(p, i)

\* The buffers that are not released.
Waiting == {part \in Parts : delivered[part] > 0 /\ ~Ended(part.packet)}

Counted == IsFiniteSet(Waiting) /\ unreleased = Cardinality(Waiting)

\* The packets whose buffers stay taken.
Lost == {p \in Packets \ Games : Ended(p)}

LostCounted == IsFiniteSet(Lost) /\ kept = Cardinality(Lost)

Gently ==
    /\ OneEach /\ Entries /\ NoEntries /\ Full /\ Counted /\ LostCounted
    /\ fault = "none"
    /\ completed = SetToBag({Whole(p) : p \in {q \in Packets : Ended(q)}})

FInv == TypeOK /\ Functions /\ (calm => Gently)

-----------------------------------------------------------------------------
(* Packets and parts                                                        *)

LEMMA PacketFacts ==
    ASSUME NEW p \in Packets
    PROVE  /\ p.peer \in Peers /\ p.number \in 1 .. Len(PartsOf[p.peer])
           /\ Size(p) \in Nat /\ Size(p) > 0 /\ IdOf(p) \in Ids
<1>1. PICK peer \in Peers : p \in [peer : {peer}, number : DOMAIN PartsOf[peer]]
  BY DEF Packets
<1>2. PartsOf[peer] \in Seq(Nat \ {0})
  BY FragmentsAssumption
<1>3. /\ p.peer = peer /\ p.number \in 1 .. Len(PartsOf[peer])
      /\ Len(PartsOf[peer]) \in Nat
  BY <1>1, <1>2
<1>4. Size(p) \in Nat \ {0}
  BY <1>2, <1>3 DEF Size
<1>5. IdOf(p) \in Ids
  <2>1. p.number - 1 \in Nat /\ IdMod \in Nat /\ IdMod > 0
    BY <1>3, FragmentsAssumption
  <2> QED BY <2>1 DEF IdOf, Ids
<1> QED BY <1>3, <1>4, <1>5

LEMMA PartFacts ==
    /\ \A p, q, i, j : Part(p, i) = Part(q, j) <=> p = q /\ i = j
    /\ \A p, i : Part(p, i).packet = p /\ Part(p, i).index = i
    /\ \A p \in Packets : \A i \in 0 .. Size(p) - 1 : Part(p, i) \in Parts
    /\ \A part \in Parts : \E p \in Packets : \E i \in 0 .. Size(p) - 1 : part = Part(p, i)
<1>1. \A p, q, i, j : Part(p, i) = Part(q, j) <=> p = q /\ i = j
  BY DEF Part
<1>2. \A p, i : Part(p, i).packet = p /\ Part(p, i).index = i
  BY DEF Part
<1>3. \A p \in Packets : \A i \in 0 .. Size(p) - 1 : Part(p, i) \in Parts
  BY DEF Parts
<1>4. \A part \in Parts : \E p \in Packets : \E i \in 0 .. Size(p) - 1 : part = Part(p, i)
  BY DEF Parts
<1> QED BY <1>1, <1>2, <1>3, <1>4

LEMMA NoPart == \A p \in Packets : \A i \in 0 .. Size(p) - 1 : Part(p, i) # Junk
  BY PartFacts, PointersAssumption

\* One more part has arrived, and nothing else.
LEMMA Arrival ==
    ASSUME delivered \in [Parts -> Nat],
           NEW p \in Packets, NEW i \in 0 .. Size(p) - 1, Arrive(Part(p, i))
    PROVE  /\ delivered' \in [Parts -> Nat]
           /\ \A q \in Packets : \A j \in 0 .. Size(q) - 1 :
                  Has(q, j)' <=> Has(q, j) \/ (q = p /\ j = i)
           /\ fault = "none" /\ sent' = sent
           /\ calm' => /\ calm /\ ~Has(p, i)
                       /\ i + 1 = Size(p) => \A j \in 0 .. i - 1 : Has(p, j)
                       /\ \A q \in Packets \ {p} :
                              IdOf(q) = IdOf(p) /\ Begun(q) => Ended(q)
<1>1. Part(p, i) \in Parts
  BY PartFacts
<1>2. /\ delivered' = [delivered EXCEPT ![Part(p, i)] = @ + 1]
      /\ fault = "none" /\ sent' = sent /\ calm' = (calm /\ Gentle(Part(p, i)))
  BY DEF Arrive
<1>3. \A part \in Parts :
          delivered'[part] = IF part = Part(p, i) THEN delivered[part] + 1
                                                  ELSE delivered[part]
  BY <1>1, <1>2
<1>4. \A q \in Packets : \A j \in 0 .. Size(q) - 1 :
          Has(q, j)' <=> Has(q, j) \/ (q = p /\ j = i)
  <2> SUFFICES ASSUME NEW q \in Packets, NEW j \in 0 .. Size(q) - 1
               PROVE  Has(q, j)' <=> Has(q, j) \/ (q = p /\ j = i)
    OBVIOUS
  <2>1. Part(q, j) \in Parts /\ (Part(q, j) = Part(p, i) <=> q = p /\ j = i)
    BY PartFacts
  <2>2. delivered[Part(q, j)] \in Nat
    BY <2>1
  <2>3. delivered'[Part(q, j)] = IF q = p /\ j = i THEN delivered[Part(q, j)] + 1
                                                   ELSE delivered[Part(q, j)]
    BY <1>3, <2>1
  <2> QED BY <2>2, <2>3 DEF Has
<1>5. Gentle(Part(p, i)) =>
          /\ ~Has(p, i)
          /\ i + 1 = Size(p) => \A j \in 0 .. i - 1 : Has(p, j)
          /\ \A q \in Packets \ {p} : IdOf(q) = IdOf(p) /\ Begun(q) => Ended(q)
  <2>1. Part(p, i).packet = p /\ Part(p, i).index = i
    BY PartFacts
  <2> QED BY <2>1 DEF Gentle, IsLast, Has
<1>6. delivered' \in [Parts -> Nat]
  BY <1>1, <1>2
<1> QED BY <1>2, <1>4, <1>5, <1>6

\* Begun and Ended, in terms of Has.
LEMMA Stages ==
    \A p \in Packets : /\ Begun(p) <=> \E i \in 0 .. Size(p) - 1 : Has(p, i)
                       /\ Ended(p) <=> Has(p, Size(p) - 1)
  BY DEF Begun, Ended, Has

LEMMA StagesNext ==
    \A p \in Packets : /\ Begun(p)' <=> \E i \in 0 .. Size(p) - 1 : Has(p, i)'
                       /\ Ended(p)' <=> Has(p, Size(p) - 1)'
  BY DEF Begun, Ended, Has

-----------------------------------------------------------------------------
(* Types                                                                    *)

\* The parts that may be in an entry.
Of(id) == {part \in Parts : IdOf(part.packet) = id}

\* An entry is as long as some packet; a new one as long as that of the part.
LEMMA ArrayType ==
    ASSUME TypeOK, NEW p \in Packets, NEW i \in 0 .. Size(p) - 1
    PROVE  IsArray(Array(Part(p, i)), Of(IdOf(p)))
<1>1. Part(p, i).packet = p /\ IdOf(p) \in Ids
  BY PartFacts, PacketFacts
<1>2. CASE FRAGMENTS[IdOf(p)] = Null
  <2>1. Array(Part(p, i)) = [k \in 0 .. Size(p) - 1 |-> Junk]
    BY <1>1, <1>2 DEF Array
  <2> QED BY <2>1 DEF IsArray
<1>3. CASE FRAGMENTS[IdOf(p)] # Null
  <2>1. Array(Part(p, i)) = FRAGMENTS[IdOf(p)]
    BY <1>1, <1>3 DEF Array
  <2>2. IsArray(FRAGMENTS[IdOf(p)], {part \in Parts : IdOf(part.packet) = IdOf(p)})
    BY <1>1, <1>3 DEF TypeOK
  <2> QED BY <2>1, <2>2 DEF Of
<1> QED BY <1>2, <1>3

LEMMA StoredType ==
    ASSUME TypeOK, NEW p \in Packets, NEW i \in 0 .. Size(p) - 1,
           i \in DOMAIN Array(Part(p, i))
    PROVE  IsArray(Stored(Part(p, i)), Of(IdOf(p)))
<1> DEFINE a == Array(Part(p, i))
           b == Stored(Part(p, i))
<1>1. PICK q \in Packets : /\ a \in [0 .. Size(q) - 1 -> Of(IdOf(p)) \cup {Junk}]
                           /\ \A k \in DOMAIN a : a[k] # Junk => a[k].index = k
  BY ArrayType DEF IsArray
<1>2. b = [a EXCEPT ![i] = Part(p, i)]
  BY PartFacts DEF Stored
<1>3. Part(p, i) \in Of(IdOf(p)) /\ Part(p, i).index = i
  BY PartFacts DEF Of
<1>4. i \in DOMAIN a
  OBVIOUS
<1> HIDE DEF a, b
<1>5. b \in [0 .. Size(q) - 1 -> Of(IdOf(p)) \cup {Junk}]
  BY <1>1, <1>2, <1>3, <1>4
<1>6. \A k \in DOMAIN b : b[k] # Junk => b[k].index = k
  BY <1>1, <1>2, <1>3, <1>4
<1>7. IsArray(b, Of(IdOf(p)))
  BY <1>5, <1>6 DEF IsArray
<1> QED BY <1>7 DEF b

\* What is completed is as long as its packet.
LEMMA AssembledType ==
    ASSUME TypeOK, NEW p \in Packets, NEW i \in 0 .. Size(p) - 1,
           i \in DOMAIN Array(Part(p, i)), IsLast(Part(p, i))
    PROVE  IsArray(Assembled(Part(p, i)), Parts)
<1> DEFINE b == Stored(Part(p, i))
           c == Assembled(Part(p, i))
<1>1. PICK q \in Packets : /\ b \in [0 .. Size(q) - 1 -> Of(IdOf(p)) \cup {Junk}]
                           /\ \A k \in DOMAIN b : b[k] # Junk => b[k].index = k
  BY StoredType DEF IsArray
<1>2. /\ c = [k \in 0 .. i |-> b[k]] /\ i + 1 = Size(p)
      /\ DOMAIN b = DOMAIN Array(Part(p, i))
  BY PartFacts DEF Assembled, IsLast, Stored
<1>3. /\ Size(p) \in Nat /\ Size(q) \in Nat /\ i \in Nat
      /\ i \in 0 .. Size(q) - 1 /\ 0 .. i = 0 .. Size(p) - 1
  <2>1. Size(p) \in Nat /\ Size(q) \in Nat
    BY PacketFacts
  <2> QED BY <1>1, <1>2, <2>1
<1>4. Of(IdOf(p)) \subseteq Parts
  BY DEF Of
<1> HIDE DEF b, c
<1>5. 0 .. i \subseteq 0 .. Size(q) - 1
  BY <1>3
<1>6. \A k \in 0 .. i : b[k] \in Parts \cup {Junk} /\ (b[k] # Junk => b[k].index = k)
  BY <1>1, <1>4, <1>5
<1>7. /\ c \in [0 .. Size(p) - 1 -> Parts \cup {Junk}]
      /\ \A k \in DOMAIN c : c[k] # Junk => c[k].index = k
  BY <1>2, <1>3, <1>6
<1>8. IsArray(c, Parts)
  BY <1>7 DEF IsArray
<1> QED BY <1>8 DEF c

LEMMA PresentType ==
    ASSUME NEW p \in Packets, NEW i \in 0 .. Size(p) - 1
    PROVE  /\ Present(Part(p, i)) \subseteq 0 .. i
           /\ Cardinality(Present(Part(p, i))) \in Nat
<1>1. Present(Part(p, i)) \subseteq 0 .. i
  BY PartFacts DEF Present
<1>2. i \in Int /\ IsFiniteSet(0 .. i)
  BY FS_Interval, PacketFacts
<1> QED BY <1>1, <1>2, FS_Subset, FS_CardinalityType

\* One packet more in the bag.
LEMMA BagGrows ==
    ASSUME IsABag(completed), NEW x, completed' = completed (+) SetToBag({x})
    PROVE  /\ IsABag(completed') /\ DOMAIN completed' = (DOMAIN completed) \cup {x}
           /\ x \notin DOMAIN completed =>
                  \A y \in DOMAIN completed' :
                      completed'[y] = IF y = x THEN 1 ELSE completed[y]
           /\ \A y \in DOMAIN completed' :
                  completed'[y] = (IF y \in DOMAIN completed THEN completed[y] ELSE 0)
                                  + (IF y = x THEN 1 ELSE 0)
<1>1. SetToBag({x}) = [e \in {x} |-> 1]
  BY DEF SetToBag
<1>2. completed' = [e \in (DOMAIN completed) \cup (DOMAIN SetToBag({x})) |->
          (IF e \in DOMAIN completed THEN completed[e] ELSE 0)
          + (IF e \in DOMAIN SetToBag({x}) THEN SetToBag({x})[e] ELSE 0)]
  BY DEF (+)
<1>3. completed' = [e \in (DOMAIN completed) \cup {x} |->
          (IF e \in DOMAIN completed THEN completed[e] ELSE 0)
          + (IF e = x THEN 1 ELSE 0)]
  BY <1>1, <1>2
<1>4. \A e \in DOMAIN completed : completed[e] \in Nat /\ completed[e] > 0
  BY DEF IsABag
<1>5. DOMAIN completed' = (DOMAIN completed) \cup {x}
  BY <1>3
<1>6. ASSUME NEW e \in DOMAIN completed'
      PROVE  completed'[e] \in {n \in Nat : n > 0}
  BY <1>3, <1>4, <1>5
<1>7. IsABag(completed')
  BY <1>3, <1>6 DEF IsABag
<1>8. x \notin DOMAIN completed =>
          \A y \in DOMAIN completed' :
              completed'[y] = IF y = x THEN 1 ELSE completed[y]
  <2> SUFFICES ASSUME x \notin DOMAIN completed, NEW y \in DOMAIN completed'
               PROVE  completed'[y] = IF y = x THEN 1 ELSE completed[y]
    OBVIOUS
  <2>1. completed'[y] = (IF y \in DOMAIN completed THEN completed[y] ELSE 0)
                        + (IF y = x THEN 1 ELSE 0)
    BY <1>3, <1>5
  <2>2. CASE y = x
    BY <2>1, <2>2
  <2>3. CASE y # x
    <3>1. y \in DOMAIN completed
      BY <1>5, <2>3
    <3>2. completed'[y] = completed[y] + 0 /\ completed[y] \in Nat
      BY <1>4, <2>1, <2>3, <3>1
    <3> QED BY <2>3, <3>2
  <2> QED BY <2>2, <2>3
<1>9. \A y \in DOMAIN completed' :
          completed'[y] = (IF y \in DOMAIN completed THEN completed[y] ELSE 0)
                          + (IF y = x THEN 1 ELSE 0)
  BY <1>3, <1>5
<1> QED BY <1>5, <1>7, <1>8, <1>9

LEMMA TypeStep == TypeOK /\ Functions /\ [Next]_vars => (TypeOK /\ Functions)'
<1> SUFFICES ASSUME TypeOK, Functions, [Next]_vars PROVE (TypeOK /\ Functions)'
  OBVIOUS
<1>1. delivered \in [Parts -> Nat] /\ calm \in BOOLEAN /\ unreleased \in Int /\ kept \in Nat
  BY DEF TypeOK
<1>2. CASE UNCHANGED vars
  BY <1>2 DEF TypeOK, Functions, vars
<1>3. ASSUME NEW peer \in Peers, SendPacket(peer) PROVE (TypeOK /\ Functions)'
  <2>1. /\ sent' = [sent EXCEPT ![peer] = @ + 1] /\ sent[peer] < Len(PartsOf[peer])
        /\ UNCHANGED <<FRAGMENTS, completed, unreleased, kept, fault, delivered, calm>>
    BY <1>3 DEF SendPacket
  <2>2. ASSUME NEW q \in Peers PROVE sent'[q] \in 0 .. Len(PartsOf[q])
    <3>1. /\ sent[q] \in 0 .. Len(PartsOf[q])
          /\ sent'[q] = IF q = peer THEN sent[q] + 1 ELSE sent[q]
      BY <2>1 DEF TypeOK, Functions
    <3>2. PartsOf[q] \in Seq(Nat \ {0})
      BY FragmentsAssumption
    <3>3. Len(PartsOf[q]) \in Nat
      BY <3>2
    <3> QED BY <2>1, <3>1, <3>3
  <2>3. DOMAIN sent' = Peers
    BY <2>1 DEF Functions
  <2> QED BY <2>1, <2>2, <2>3 DEF TypeOK, Functions
<1>4. ASSUME NEW part \in Parts, Store(part) \/ StoreBehind(part)
                                  \/ Complete(part) \/ CompleteMissing(part)
      PROVE  (TypeOK /\ Functions)'
  <2>1. PICK p \in Packets : \E i \in 0 .. Size(p) - 1 : part = Part(p, i)
    BY PartFacts
  <2>2. PICK i \in 0 .. Size(p) - 1 : part = Part(p, i)
    BY <2>1
  <2>3. Arrive(part) /\ part.packet = p /\ part.index = i /\ IdOf(p) \in Ids
    BY <1>4, <2>2, PartFacts, PacketFacts DEF Store, StoreBehind, Complete, CompleteMissing
  <2>4. /\ delivered' \in [Parts -> Nat] /\ sent' = sent /\ calm' \in BOOLEAN
    BY <1>1, <2>2, <2>3, Arrival DEF Arrive
  <2>5. CASE StoreBehind(part) \/ CompleteMissing(part)
    <3>1. UNCHANGED <<FRAGMENTS, completed, unreleased, kept>> /\ fault' = "crash"
      BY <2>5 DEF StoreBehind, CompleteMissing
    <3> QED BY <2>4, <3>1 DEF TypeOK, Functions
  <2>6. CASE Store(part)
    <3>1. /\ FRAGMENTS' = [FRAGMENTS EXCEPT ![IdOf(p)] = Stored(part)]
          /\ unreleased' = unreleased + 1 /\ UNCHANGED <<completed, kept, fault>>
          /\ IsArray(Stored(part), Of(IdOf(p)))
      BY <2>2, <2>3, <2>6, StoredType DEF Store
    <3>2. \A id \in Ids : FRAGMENTS'[id] # Null => IsArray(FRAGMENTS'[id], Of(id))
      BY <2>3, <3>1 DEF TypeOK, Functions, Of
    <3>3. DOMAIN FRAGMENTS' = Ids
      BY <3>1 DEF Functions
    <3>4. unreleased' \in Int
      BY <1>1, <3>1
    <3> QED BY <2>4, <3>1, <3>2, <3>3, <3>4 DEF TypeOK, Functions, Of
  <2>7. CASE Complete(part)
    <3>1. /\ FRAGMENTS' = [FRAGMENTS EXCEPT ![IdOf(p)] = Null]
          /\ \E strays \in Strays(part) : unreleased' = UnreleasedAfter(part) - strays
          /\ completed' = completed (+) SetToBag({Assembled(part)})
          /\ kept' \in {kept, kept + 1}
          /\ fault' = fault
      <4>1. kept' \in {kept, kept + 1}
        BY <2>7 DEF Complete, KeptAfter
      <4>2. \E strays \in Strays(part) : unreleased' = UnreleasedAfter(part) - strays
        BY <2>7 DEF Complete
      <4>3. /\ FRAGMENTS' = [FRAGMENTS EXCEPT ![IdOf(p)] = Null] /\ fault' = fault
            /\ completed' = completed (+) SetToBag({Assembled(part)})
        BY <2>3, <2>7 DEF Complete, EraseEntry
      <4> QED BY <4>1, <4>2, <4>3
    <3>2. IsArray(Assembled(part), Parts)
      BY <2>2, <2>3, <2>7, AssembledType DEF Complete
    <3>3. /\ IsABag(completed')
          /\ DOMAIN completed' = (DOMAIN completed) \cup {Assembled(part)}
      BY <3>1, BagGrows DEF Functions
    <3>4. \A id \in Ids : FRAGMENTS'[id] # Null => IsArray(FRAGMENTS'[id], Of(id))
      BY <2>3, <3>1 DEF TypeOK, Functions, Of
    <3>5. unreleased' \in Int /\ kept' \in Nat
      <4>1. Cardinality(Present(part)) \in Nat /\ i \in Int
        BY <2>2, PresentType, PacketFacts
      <4>2. \A strays \in Strays(part) : strays \in Int
        BY <2>3, <4>1 DEF Strays
      <4>3. UnreleasedAfter(part) \in Int
        BY <1>1, <4>1 DEF UnreleasedAfter
      <4> QED BY <1>1, <3>1, <4>2, <4>3
    <3>6. DOMAIN FRAGMENTS' = Ids
      BY <3>1 DEF Functions
    <3> QED BY <2>4, <3>1, <3>2, <3>3, <3>4, <3>5, <3>6 DEF TypeOK, Functions, Of
  <2> QED BY <1>4, <2>5, <2>6, <2>7
<1> QED BY <1>2, <1>3, <1>4 DEF Next

-----------------------------------------------------------------------------
(* A gentle network                                                         *)

\* The array of a packet that has begun is there, as long as the packet.
LEMMA Room ==
    ASSUME TypeOK, Gently, NEW p \in Packets, NEW i \in 0 .. Size(p) - 1,
           Arrive(Part(p, i)), calm'
    PROVE  /\ ~Has(p, i) /\ ~Ended(p)
           /\ \A q \in Packets \ {p} : IdOf(q) = IdOf(p) => ~UnderWay(q)
           /\ Array(Part(p, i)) = Entry(p)
<1>1. /\ ~Has(p, i)
      /\ \A q \in Packets \ {p} : IdOf(q) = IdOf(p) /\ Begun(q) => Ended(q)
  BY Arrival DEF TypeOK
<1>2. ~Ended(p)
  BY <1>1 DEF Gently, Full
<1>3. \A q \in Packets \ {p} : IdOf(q) = IdOf(p) => ~UnderWay(q)
  BY <1>1 DEF UnderWay
<1>4. Part(p, i).packet = p
  BY PartFacts
<1>5. CASE UnderWay(p)
  <2>1. FRAGMENTS[IdOf(p)] = Entry(p)
    BY <1>5 DEF Gently, Entries
  <2>2. Entry(p) \in [0 .. Size(p) - 1 -> Parts \cup {Junk}]
    BY PartFacts DEF Entry
  <2>3. Entry(p) # Null
    BY <2>2, PointersAssumption
  <2> QED BY <1>1, <1>2, <1>3, <1>4, <2>1, <2>3 DEF Array
<1>6. CASE ~UnderWay(p)
  <2>1. FRAGMENTS[IdOf(p)] = Null
    BY <1>3, <1>6, PacketFacts DEF Gently, NoEntries
  <2>2. Array(Part(p, i)) = [k \in 0 .. Size(p) - 1 |-> Junk]
    BY <1>4, <2>1 DEF Array
  <2>3. \A k \in 0 .. Size(p) - 1 : ~Has(p, k)
    BY <1>2, <1>6, Stages DEF UnderWay
  <2>4. Entry(p) = [k \in 0 .. Size(p) - 1 |-> Junk]
    BY <2>3 DEF Entry
  <2> QED BY <1>1, <1>2, <1>3, <2>2, <2>4
<1> QED BY <1>5, <1>6

\* The part is written where it belongs, and the array is again that of the
\* packet.
LEMMA Progress ==
    ASSUME TypeOK, Gently, NEW p \in Packets, NEW i \in 0 .. Size(p) - 1,
           Arrive(Part(p, i)), calm'
    PROVE  /\ i \in DOMAIN Array(Part(p, i))
           /\ Stored(Part(p, i)) = Entry(p)'
           /\ Begun(p)' /\ (Ended(p)' <=> i + 1 = Size(p))
           /\ i + 1 = Size(p) => \A j \in 0 .. Size(p) - 1 : Has(p, j)'
<1>1. /\ \A j \in 0 .. Size(p) - 1 : Has(p, j)' <=> Has(p, j) \/ j = i
      /\ i + 1 = Size(p) => \A j \in 0 .. i - 1 : Has(p, j)
  BY Arrival DEF TypeOK
<1>2. Size(p) \in Nat /\ Size(p) > 0 /\ Size(p) - 1 \in 0 .. Size(p) - 1
  BY PacketFacts
<1>3. ~Ended(p) /\ Array(Part(p, i)) = Entry(p)
  BY Room
<1>4. Part(p, i).packet = p /\ Part(p, i).index = i
  BY PartFacts
<1>5. DOMAIN Entry(p) = 0 .. Size(p) - 1
  BY DEF Entry
<1>6. Stored(Part(p, i)) = [Entry(p) EXCEPT ![i] = Part(p, i)]
  BY <1>3, <1>4 DEF Stored
<1>7. Stored(Part(p, i)) = [k \in 0 .. Size(p) - 1 |->
                              IF Has(p, k) \/ k = i THEN Part(p, k) ELSE Junk]
  BY <1>6 DEF Entry
<1>8. Entry(p)' = [k \in 0 .. Size(p) - 1 |-> IF Has(p, k)' THEN Part(p, k) ELSE Junk]
  BY DEF Entry
<1>9. Stored(Part(p, i)) = Entry(p)'
  BY <1>1, <1>7, <1>8
<1>10. Begun(p)' /\ (Ended(p)' <=> Size(p) - 1 = i)
  BY <1>1, <1>2, <1>3, Stages, StagesNext
<1>11. i + 1 = Size(p) => \A j \in 0 .. Size(p) - 1 : Has(p, j)'
  <2> SUFFICES ASSUME i + 1 = Size(p), NEW j \in 0 .. Size(p) - 1 PROVE Has(p, j)'
    OBVIOUS
  <2>1. j = i \/ j \in 0 .. i - 1
    BY <1>2
  <2> QED BY <1>1, <2>1
<1>12. Size(p) - 1 = i <=> i + 1 = Size(p)
  BY <1>2
<1> QED BY <1>3, <1>5, <1>9, <1>10, <1>11, <1>12

\* Every other packet stays as it is.
LEMMA Others ==
    ASSUME TypeOK, NEW p \in Packets, NEW i \in 0 .. Size(p) - 1,
           Arrive(Part(p, i)), NEW q \in Packets \ {p}
    PROVE  /\ \A j \in 0 .. Size(q) - 1 : Has(q, j)' <=> Has(q, j)
           /\ Begun(q)' <=> Begun(q)
           /\ Ended(q)' <=> Ended(q)
           /\ UnderWay(q)' <=> UnderWay(q)
           /\ Entry(q)' = Entry(q)
<1>1. \A j \in 0 .. Size(q) - 1 : Has(q, j)' <=> Has(q, j)
  BY Arrival DEF TypeOK
<1>2. Size(q) - 1 \in 0 .. Size(q) - 1
  BY PacketFacts
<1>3. (Begun(q)' <=> Begun(q)) /\ (Ended(q)' <=> Ended(q))
  BY <1>1, <1>2, Stages, StagesNext
<1>4. Entry(q)' = Entry(q)
  BY <1>1 DEF Entry
<1> QED BY <1>1, <1>3, <1>4 DEF UnderWay

\* The last part finds the others.
LEMMA NothingMissing ==
    ASSUME TypeOK, Gently, NEW p \in Packets, NEW i \in 0 .. Size(p) - 1,
           Arrive(Part(p, i)), calm', i + 1 = Size(p)
    PROVE  Assembled(Part(p, i)) = Whole(p) /\ Present(Part(p, i)) = 0 .. i
<1>1. /\ Stored(Part(p, i)) = Entry(p)'
      /\ \A j \in 0 .. Size(p) - 1 : Has(p, j)'
  BY Progress
<1>2. 0 .. i = 0 .. Size(p) - 1 /\ Part(p, i).index = i
  BY PacketFacts, PartFacts
<1>3. Entry(p)' = Whole(p)
  BY <1>1 DEF Entry, Whole
<1>4. \A j \in 0 .. i : Stored(Part(p, i))[j] = Part(p, j) /\ Part(p, j) # Junk
  BY <1>1, <1>2, <1>3, NoPart DEF Whole
<1>5. Assembled(Part(p, i)) = Whole(p)
  BY <1>2, <1>4 DEF Assembled, Whole
<1>6. Present(Part(p, i)) = 0 .. i
  BY <1>2, <1>4 DEF Present
<1> QED BY <1>5, <1>6

\* Packets are told apart by any of their parts.
LEMMA WholeIsOnce == \A p, q \in Packets : Whole(p) = Whole(q) => p = q
<1> SUFFICES ASSUME NEW p \in Packets, NEW q \in Packets, Whole(p) = Whole(q)
             PROVE  p = q
  OBVIOUS
<1>1. 0 \in 0 .. Size(p) - 1 /\ 0 \in 0 .. Size(q) - 1
  BY PacketFacts
<1>2. Whole(p)[0] = Part(p, 0) /\ Whole(q)[0] = Part(q, 0)
  BY <1>1 DEF Whole
<1> QED BY <1>2, PartFacts

\* The first i parts of a packet are i parts.
LEMMA Count ==
    ASSUME NEW p \in Packets, NEW i \in Nat
    PROVE  LET first == {Part(p, j) : j \in 0 .. i - 1}
           IN  IsFiniteSet(first) /\ Cardinality(first) = i
<1> DEFINE first == {Part(p, j) : j \in 0 .. i - 1}
           f == [j \in 0 .. i - 1 |-> Part(p, j)]
<1>1. IsFiniteSet(0 .. i - 1) /\ Cardinality(0 .. i - 1) = i
  <2>1. 0 \in Int /\ i - 1 \in Int
    OBVIOUS
  <2>2. /\ IsFiniteSet(0 .. i - 1)
        /\ Cardinality(0 .. i - 1) = IF 0 > i - 1 THEN 0 ELSE (i - 1) - 0 + 1
    BY <2>1, FS_Interval
  <2> QED BY <2>2
<1>2. f \in Injection(0 .. i - 1, first)
  <2>1. f \in [0 .. i - 1 -> first]
    OBVIOUS
  <2>2. \A a, b \in DOMAIN f : f[a] = f[b] => a = b
    BY PartFacts
  <2> QED BY <2>1, <2>2 DEF Injection, IsInjective
<1>3. f \in Surjection(0 .. i - 1, first)
  BY DEF Surjection
<1>4. ExistsBijection(0 .. i - 1, first)
  BY <1>2, <1>3 DEF ExistsBijection, Bijection
<1> HIDE DEF first
<1>5. IsFiniteSet(first) /\ Cardinality(first) = Cardinality(0 .. i - 1)
  BY <1>1, <1>4, FS_Bijection
<1> QED BY <1>1, <1>5 DEF first

-----------------------------------------------------------------------------
(* Each step of a gentle network                                            *)

LEMMA StoreGently ==
    ASSUME TypeOK, Functions, Gently, NEW p \in Packets, NEW i \in 0 .. Size(p) - 1,
           Store(Part(p, i)), calm'
    PROVE  Gently'
<1> DEFINE part == Part(p, i)
<1>1. /\ part.packet = p /\ part.index = i /\ part \in Parts
      /\ IdOf(p) \in Ids /\ Size(p) \in Nat /\ Size(p) - 1 \in 0 .. Size(p) - 1
  BY PartFacts, PacketFacts
<1>2. /\ Arrive(part) /\ i + 1 # Size(p)
      /\ FRAGMENTS' = [FRAGMENTS EXCEPT ![IdOf(p)] = Stored(part)]
      /\ unreleased' = unreleased + 1 /\ UNCHANGED <<completed, kept, fault>>
  BY <1>1 DEF Store, IsLast
<1>3. /\ ~Has(p, i) /\ ~Ended(p)
      /\ \A q \in Packets \ {p} : IdOf(q) = IdOf(p) => ~UnderWay(q)
  BY <1>2, Room
<1>4. Stored(part) = Entry(p)' /\ Begun(p)' /\ ~Ended(p)'
  BY <1>2, Progress
<1>5. \A q \in Packets \ {p} :
          /\ \A j \in 0 .. Size(q) - 1 : Has(q, j)' <=> Has(q, j)
          /\ Ended(q)' <=> Ended(q)
          /\ UnderWay(q)' <=> UnderWay(q)
          /\ Entry(q)' = Entry(q)
  BY <1>2, Others
<1>6. UnderWay(p)'
  BY <1>4 DEF UnderWay
<1>7. /\ FRAGMENTS'[IdOf(p)] = Entry(p)'
      /\ \A id \in Ids \ {IdOf(p)} : FRAGMENTS'[id] = FRAGMENTS[id]
  BY <1>1, <1>2, <1>4 DEF Functions
<1> HIDE DEF part
<1>8. OneEach'
  BY <1>3, <1>5, <1>6 DEF OneEach, Gently
<1>9. Entries'
  <2> SUFFICES ASSUME NEW q \in Packets, UnderWay(q)'
               PROVE  FRAGMENTS'[IdOf(q)] = Entry(q)'
    BY DEF Entries
  <2>1. CASE q = p
    BY <1>7, <2>1
  <2>2. CASE q # p
    BY <1>3, <1>5, <1>7, <2>2, PacketFacts DEF Entries, Gently
  <2> QED BY <2>1, <2>2
<1>10. NoEntries'
  <2> SUFFICES ASSUME NEW id \in Ids, \A q \in Packets : IdOf(q) = id => ~UnderWay(q)'
               PROVE  FRAGMENTS'[id] = Null
    BY DEF NoEntries
  <2>1. id # IdOf(p)
    BY <1>6
  <2>2. \A q \in Packets : IdOf(q) = id => ~UnderWay(q)
    BY <1>5, <2>1
  <2> QED BY <1>7, <2>1, <2>2 DEF NoEntries, Gently
<1>11. Full'
  BY <1>4, <1>5 DEF Full, Gently
<1>12. Counted'
  <2>1. IsFiniteSet(Waiting) /\ unreleased = Cardinality(Waiting)
    BY DEF Gently, Counted
  <2>2. \A q \in Packets : \A j \in 0 .. Size(q) - 1 :
            /\ Part(q, j) \in Waiting <=> Has(q, j) /\ ~Ended(q)
            /\ Part(q, j) \in Waiting' <=> Has(q, j)' /\ ~Ended(q)'
    BY PartFacts DEF Waiting, Has
  <2>3. \A j \in 0 .. Size(p) - 1 : Has(p, j)' <=> Has(p, j) \/ j = i
    BY <1>2, Arrival DEF TypeOK, part
  <2>4. \A other \in Parts : other \in Waiting' <=> other \in Waiting \/ other = part
    <3> SUFFICES ASSUME NEW q \in Packets, NEW j \in 0 .. Size(q) - 1
                 PROVE  Part(q, j) \in Waiting' <=> Part(q, j) \in Waiting \/ Part(q, j) = part
      BY PartFacts
    <3>1. Part(q, j) = part <=> q = p /\ j = i
      BY PartFacts DEF part
    <3> QED BY <1>3, <1>4, <1>5, <2>2, <2>3, <3>1
  <2>5. Waiting \subseteq Parts /\ Waiting' \subseteq Parts
    BY DEF Waiting
  <2>6. Waiting' = Waiting \cup {part}
    BY <1>1, <2>4, <2>5
  <2>7. part \notin Waiting
    BY <1>3, <2>2 DEF part
  <2>8. IsFiniteSet(Waiting') /\ Cardinality(Waiting') = Cardinality(Waiting) + 1
    BY <2>1, <2>6, <2>7, FS_AddElement
  <2> QED BY <1>2, <2>1, <2>8 DEF Counted
<1>13. \A r \in Packets : Ended(r)' <=> Ended(r)
  BY <1>3, <1>4, <1>5
<1>14. {Whole(q) : q \in {r \in Packets : Ended(r)'}} = {Whole(q) : q \in {r \in Packets : Ended(r)}}
  <2>1. {r \in Packets : Ended(r)'} = {r \in Packets : Ended(r)}
    BY <1>13
  <2> QED BY <2>1
<1>15. LostCounted'
  <2>1. Lost' = Lost
    BY <1>13 DEF Lost
  <2> QED BY <1>2, <2>1 DEF Gently, LostCounted
<1> QED BY <1>2, <1>8, <1>9, <1>10, <1>11, <1>12, <1>14, <1>15 DEF Gently

LEMMA CompleteGently ==
    ASSUME TypeOK, Functions, Gently, NEW p \in Packets, NEW i \in 0 .. Size(p) - 1,
           Complete(Part(p, i)), calm'
    PROVE  Gently'
<1> DEFINE part == Part(p, i)
<1>1. /\ part.packet = p /\ part.index = i /\ part \in Parts
      /\ IdOf(p) \in Ids /\ Size(p) \in Nat /\ Size(p) - 1 \in 0 .. Size(p) - 1
      /\ i \in Nat
  BY PartFacts, PacketFacts
<1>2. /\ Arrive(part) /\ i + 1 = Size(p)
      /\ completed' = completed (+) SetToBag({Assembled(part)})
      /\ FRAGMENTS' = [FRAGMENTS EXCEPT ![IdOf(p)] = Null]
      /\ \E strays \in Strays(part) : unreleased' = UnreleasedAfter(part) - strays
      /\ kept' \in KeptAfter(Assembled(part))
      /\ fault' = fault
  <2>1. kept' \in KeptAfter(Assembled(part))
    BY DEF Complete
  <2>2. \E strays \in Strays(part) : unreleased' = UnreleasedAfter(part) - strays
    BY DEF Complete
  <2> QED BY <1>1, <2>1, <2>2 DEF Complete, IsLast, EraseEntry
<1>3. /\ ~Has(p, i) /\ ~Ended(p)
      /\ \A q \in Packets \ {p} : IdOf(q) = IdOf(p) => ~UnderWay(q)
  BY <1>2, Room
<1>4. Ended(p)' /\ \A j \in 0 .. Size(p) - 1 : Has(p, j)'
  BY <1>2, Progress
<1>5. \A q \in Packets \ {p} :
          /\ \A j \in 0 .. Size(q) - 1 : Has(q, j)' <=> Has(q, j)
          /\ Ended(q)' <=> Ended(q)
          /\ UnderWay(q)' <=> UnderWay(q)
          /\ Entry(q)' = Entry(q)
  BY <1>2, Others
<1>6. ~UnderWay(p)'
  BY <1>4 DEF UnderWay
<1>7. /\ FRAGMENTS'[IdOf(p)] = Null
      /\ \A id \in Ids \ {IdOf(p)} : FRAGMENTS'[id] = FRAGMENTS[id]
  BY <1>1, <1>2 DEF Functions
<1>8. Assembled(part) = Whole(p) /\ Present(part) = 0 .. i
  BY <1>2, NothingMissing
<1> HIDE DEF part
<1>9. OneEach'
  BY <1>5, <1>6 DEF OneEach, Gently
<1>10. Entries'
  <2> SUFFICES ASSUME NEW q \in Packets, UnderWay(q)'
               PROVE  FRAGMENTS'[IdOf(q)] = Entry(q)'
    BY DEF Entries
  <2>1. q # p
    BY <1>6
  <2> QED BY <1>3, <1>5, <1>7, <2>1, PacketFacts DEF Entries, Gently
<1>11. NoEntries'
  <2> SUFFICES ASSUME NEW id \in Ids, \A q \in Packets : IdOf(q) = id => ~UnderWay(q)'
               PROVE  FRAGMENTS'[id] = Null
    BY DEF NoEntries
  <2>1. CASE id = IdOf(p)
    BY <1>7, <2>1
  <2>2. CASE id # IdOf(p)
    <3>1. \A q \in Packets : IdOf(q) = id => ~UnderWay(q)
      BY <1>5, <2>2
    <3> QED BY <1>7, <2>2, <3>1 DEF NoEntries, Gently
  <2> QED BY <2>1, <2>2
<1>12. Full'
  BY <1>4, <1>5 DEF Full, Gently
<1>13. Counted'
  <2> DEFINE first == {Part(p, j) : j \in 0 .. i - 1}
  <2>1. IsFiniteSet(Waiting) /\ unreleased = Cardinality(Waiting)
    BY DEF Gently, Counted
  <2>2. \A q \in Packets : \A j \in 0 .. Size(q) - 1 :
            /\ Part(q, j) \in Waiting <=> Has(q, j) /\ ~Ended(q)
            /\ Part(q, j) \in Waiting' <=> Has(q, j)' /\ ~Ended(q)'
    BY PartFacts DEF Waiting, Has
  <2>3. \A j \in 0 .. i - 1 : Has(p, j)
    BY <1>2, Arrival DEF TypeOK, part
  <2>4. \A j \in 0 .. Size(p) - 1 : j = i \/ j \in 0 .. i - 1
    BY <1>1, <1>2
  <2>5. 0 .. i - 1 \subseteq 0 .. Size(p) - 1
    BY <1>1, <1>2
  <2>6. first \subseteq Waiting
    BY <1>3, <2>2, <2>3, <2>5
  <2>7. \A other \in Parts : other \in Waiting' <=> other \in Waiting \ first
    <3> SUFFICES ASSUME NEW q \in Packets, NEW j \in 0 .. Size(q) - 1
                 PROVE  Part(q, j) \in Waiting' <=> Part(q, j) \in Waiting \ first
      BY PartFacts
    <3>1. CASE q = p
      <4>1. Part(q, j) \notin Waiting'
        BY <1>4, <2>2, <3>1
      <4>2. CASE j = i
        BY <1>3, <2>2, <3>1, <4>1, <4>2
      <4>3. CASE j \in 0 .. i - 1
        BY <3>1, <4>1, <4>3
      <4> QED BY <2>4, <3>1, <4>2, <4>3
    <3>2. CASE q # p
      <4>1. Part(q, j) \notin first
        BY <3>2, PartFacts
      <4> QED BY <1>5, <2>2, <3>2, <4>1
    <3> QED BY <3>1, <3>2
  <2>8. Waiting \subseteq Parts /\ Waiting' \subseteq Parts
    BY DEF Waiting
  <2>9. IsFiniteSet(first) /\ Cardinality(first) = i
    BY <1>1, Count
  <2> HIDE DEF first
  <2>10. Waiting' = Waiting \ first /\ Waiting \cap first = first
    BY <2>6, <2>7, <2>8
  <2>11. IsFiniteSet(Waiting') /\ Cardinality(Waiting') = Cardinality(Waiting) - i
    BY <2>1, <2>9, <2>10, FS_Difference
  <2>12. Cardinality(0 .. i) = i + 1
    <3>1. Cardinality(0 .. i) = IF 0 > i THEN 0 ELSE i - 0 + 1
      BY <1>1, FS_Interval
    <3> QED BY <1>1, <3>1
  <2>13. Cardinality(Waiting) \in Nat
    BY <2>1, FS_CardinalityType
  <2>14. Strays(part) = {0}
    BY <1>1, <1>8, <2>12 DEF Strays
  <2>15. unreleased' = unreleased + 1 - (i + 1)
    <3>1. unreleased' = UnreleasedAfter(part) - 0
      BY <1>2, <2>14
    <3>2. UnreleasedAfter(part) = unreleased + 1 - (i + 1)
      BY <1>8, <2>12 DEF UnreleasedAfter
    <3>3. UnreleasedAfter(part) \in Int
      BY <1>1, <3>2 DEF TypeOK
    <3> QED BY <3>1, <3>2, <3>3
  <2> QED BY <1>1, <2>1, <2>11, <2>13, <2>15 DEF Counted
<1>14. completed' = SetToBag({Whole(q) : q \in {r \in Packets : Ended(r)'}})
  <2> DEFINE old == {Whole(q) : q \in {r \in Packets : Ended(r)}}
             new == {Whole(q) : q \in {r \in Packets : Ended(r)'}}
  <2>1. completed = [y \in old |-> 1]
    BY DEF Gently, SetToBag
  <2>2. Whole(p) \notin old
    BY <1>3, WholeIsOnce
  <2>3. new = old \cup {Whole(p)}
    <3>1. {r \in Packets : Ended(r)'} = {r \in Packets : Ended(r)} \cup {p}
      BY <1>4, <1>5
    <3> QED BY <3>1
  <2> HIDE DEF old, new
  <2>4. DOMAIN completed = old
    BY <2>1
  <2>5. /\ DOMAIN completed' = old \cup {Whole(p)} /\ IsABag(completed')
        /\ \A y \in DOMAIN completed' :
               completed'[y] = IF y = Whole(p) THEN 1 ELSE completed[y]
    <3>1. completed' = completed (+) SetToBag({Whole(p)})
      BY <1>2, <1>8
    <3> QED BY <2>2, <2>4, <3>1, BagGrows DEF Functions
  <2>6. completed' = [y \in new |-> 1]
    BY <2>1, <2>3, <2>5 DEF IsABag
  <2> QED BY <2>6 DEF SetToBag, new
<1>15. LostCounted'
  <2>1. IsFiniteSet(Lost) /\ kept = Cardinality(Lost)
    BY DEF Gently, LostCounted
  <2>2. KeptAfter(Whole(p)) = IF p \in Games THEN {kept} ELSE {kept + 1}
    <3>1. 0 \in 0 .. Size(p) - 1
      BY <1>1, PacketFacts
    <3>2. Whole(p)[0] = Part(p, 0)
      BY <3>1 DEF Whole
    <3>3. Part(p, 0) # Junk /\ Part(p, 0).packet = p
      BY <3>1, PartFacts, PointersAssumption
    <3> QED BY <3>2, <3>3 DEF KeptAfter
  <2>3. kept' = IF p \in Games THEN kept ELSE kept + 1
    BY <1>2, <1>8, <2>2
  <2>4. \A q \in Packets : Ended(q)' <=> Ended(q) \/ q = p
    BY <1>4, <1>5
  <2>5. CASE p \in Games
    <3>1. Lost' = Lost
      BY <2>4, <2>5 DEF Lost
    <3> QED BY <2>1, <2>3, <2>5, <3>1 DEF LostCounted
  <2>6. CASE p \notin Games
    <3>1. Lost' = Lost \cup {p} /\ p \notin Lost
      BY <1>3, <2>4, <2>6 DEF Lost
    <3>2. IsFiniteSet(Lost') /\ Cardinality(Lost') = Cardinality(Lost) + 1
      BY <2>1, <3>1, FS_AddElement
    <3> QED BY <2>1, <2>3, <2>6, <3>2 DEF LostCounted
  <2> QED BY <2>5, <2>6
<1> QED BY <1>2, <1>9, <1>10, <1>11, <1>12, <1>13, <1>14, <1>15 DEF Gently

\* A gentle network meets no room that is too small and no part missing.
LEMMA NoFault ==
    ASSUME TypeOK, Gently, NEW p \in Packets, NEW i \in 0 .. Size(p) - 1, calm',
           StoreBehind(Part(p, i)) \/ CompleteMissing(Part(p, i))
    PROVE  FALSE
<1>1. Arrive(Part(p, i)) /\ Part(p, i).packet = p /\ Part(p, i).index = i
  BY PartFacts DEF StoreBehind, CompleteMissing
<1>2. CASE StoreBehind(Part(p, i))
  BY <1>1, <1>2, Progress DEF StoreBehind
<1>3. CASE CompleteMissing(Part(p, i))
  BY <1>1, <1>3, NothingMissing DEF CompleteMissing, IsLast
<1> QED BY <1>2, <1>3

-----------------------------------------------------------------------------
(* Parts on any network                                                     *)

\* A part that is stored waits to be used once more.
Held(part) ==
    LET entry == FRAGMENTS[IdOf(part.packet)]
    IN  entry # Null /\ Holds(entry, part)

UsedOrHeld ==
    \A part \in Parts :
        /\ IsFiniteSet(Uses(part))
        /\ Cardinality(Uses(part)) + (IF Held(part) THEN 1 ELSE 0) <= delivered[part]

LEMMA UsesAre ==
    ASSUME NEW part, NEW u
    PROVE  u \in Uses(part) <=>
               \E parts \in DOMAIN completed :
                   Holds(parts, part) /\ \E n \in 1 .. completed[parts] : u = <<parts, n>>
  BY DEF Uses

LEMMA UsesWillBe ==
    ASSUME NEW part, NEW u
    PROVE  u \in Uses(part)' <=>
               \E parts \in DOMAIN completed' :
                   Holds(parts, part) /\ \E n \in 1 .. completed'[parts] : u = <<parts, n>>
  BY DEF Uses

\* A packet that is handled is one more use of each part it holds.
LEMMA UsesGrow ==
    ASSUME IsABag(completed), NEW x, completed' = completed (+) SetToBag({x}), NEW part
    PROVE  /\ ~Holds(x, part) => Uses(part)' = Uses(part)
           /\ Holds(x, part) => \E u : u \notin Uses(part) /\ Uses(part)' = Uses(part) \cup {u}
<1> DEFINE old == IF x \in DOMAIN completed THEN completed[x] ELSE 0
<1>1. \A e \in DOMAIN completed : completed[e] \in Nat
  BY DEF IsABag
<1>2. old \in Nat
  BY <1>1
<1>3. /\ DOMAIN completed' = (DOMAIN completed) \cup {x}
      /\ completed'[x] = old + 1
      /\ \A y \in DOMAIN completed : y # x => completed'[y] = completed[y]
  <2>1. \A y \in DOMAIN completed' :
            completed'[y] = (IF y \in DOMAIN completed THEN completed[y] ELSE 0)
                            + (IF y = x THEN 1 ELSE 0)
    BY BagGrows
  <2>2. DOMAIN completed' = (DOMAIN completed) \cup {x}
    BY BagGrows
  <2>3. completed'[x] = old + 1
    BY <2>1, <2>2
  <2>4. ASSUME NEW y \in DOMAIN completed, y # x PROVE completed'[y] = completed[y]
    <3>1. completed'[y] = completed[y] + 0 /\ completed[y] \in Nat
      BY <1>1, <2>1, <2>2, <2>4
    <3> QED
      BY <3>1
  <2> QED
    BY <2>2, <2>3, <2>4
<1>4. x \in DOMAIN completed => completed[x] = old
  OBVIOUS
<1>5. x \notin DOMAIN completed => old = 0
  OBVIOUS
<1> HIDE DEF old
<1>6. 1 .. old + 1 = (1 .. old) \cup {old + 1} /\ old + 1 \notin 1 .. old
  BY <1>2
<1>7. \A y \in DOMAIN completed : \A u :
          y # x => ((\E n \in 1 .. completed[y] : u = <<y, n>>)
                        <=> (\E n \in 1 .. completed'[y] : u = <<y, n>>))
  BY <1>3
<1>8. \A u : (\E n \in 1 .. completed'[x] : u = <<x, n>>)
                 <=> (\E n \in 1 .. old : u = <<x, n>>) \/ u = <<x, old + 1>>
  BY <1>3, <1>6
<1>9. \A u : (\E n \in 1 .. old : u = <<x, n>>)
                 <=> x \in DOMAIN completed /\ \E n \in 1 .. completed[x] : u = <<x, n>>
  BY <1>4, <1>5
<1>10. ASSUME NEW u
       PROVE  u \in Uses(part)' <=> u \in Uses(part) \/ (Holds(x, part) /\ u = <<x, old + 1>>)
  <2>1. u \in Uses(part)' <=>
            \/ \E y \in DOMAIN completed :
                   y # x /\ Holds(y, part) /\ \E n \in 1 .. completed'[y] : u = <<y, n>>
            \/ Holds(x, part) /\ \E n \in 1 .. completed'[x] : u = <<x, n>>
    <3>1. u \in Uses(part)' <=>
              \E y \in DOMAIN completed' :
                  Holds(y, part) /\ \E n \in 1 .. completed'[y] : u = <<y, n>>
      BY UsesWillBe
    <3>2. \A y : y \in DOMAIN completed' <=> y = x \/ (y # x /\ y \in DOMAIN completed)
      BY <1>3, Zenon
    <3> QED
      BY <3>1, <3>2, Zenon
  <2>2. u \in Uses(part) <=>
            \/ \E y \in DOMAIN completed :
                   y # x /\ Holds(y, part) /\ \E n \in 1 .. completed[y] : u = <<y, n>>
            \/ x \in DOMAIN completed /\ Holds(x, part) /\ \E n \in 1 .. completed[x] : u = <<x, n>>
    BY UsesAre
  <2>3. (\E y \in DOMAIN completed :
             y # x /\ Holds(y, part) /\ \E n \in 1 .. completed'[y] : u = <<y, n>>)
        <=> (\E y \in DOMAIN completed :
                 y # x /\ Holds(y, part) /\ \E n \in 1 .. completed[y] : u = <<y, n>>)
    BY <1>7
  <2> QED
    BY <1>8, <1>9, <2>1, <2>2, <2>3, Zenon
<1>11. <<x, old + 1>> \notin Uses(part)
  <2> SUFFICES ASSUME <<x, old + 1>> \in Uses(part) PROVE FALSE
    OBVIOUS
  <2>1. PICK y \in DOMAIN completed : \E n \in 1 .. completed[y] : <<x, old + 1>> = <<y, n>>
    BY UsesAre
  <2>2. y = x /\ old + 1 \in 1 .. completed[y]
    BY <2>1
  <2> QED
    BY <1>2, <1>4, <2>1, <2>2
<1> QED
  BY <1>10, <1>11

\* What a step does to the uses of a part must be paid by its arrival or by
\* what was stored.
LEMMA Paid ==
    ASSUME UsedOrHeld, delivered \in [Parts -> Nat], delivered' \in [Parts -> Nat],
           NEW q \in Parts,
           delivered[q] <= delivered'[q],
           \/ Uses(q)' = Uses(q) /\ (Held(q)' => Held(q) \/ delivered'[q] = delivered[q] + 1)
           \/ /\ \E u : u \notin Uses(q) /\ Uses(q)' = Uses(q) \cup {u}
              /\ ~Held(q)'
              /\ Held(q) \/ delivered'[q] = delivered[q] + 1
    PROVE  /\ IsFiniteSet(Uses(q)')
           /\ Cardinality(Uses(q)') + (IF Held(q)' THEN 1 ELSE 0) <= delivered'[q]
<1>1. /\ IsFiniteSet(Uses(q)) /\ delivered[q] \in Nat /\ delivered'[q] \in Nat
      /\ Cardinality(Uses(q)) + (IF Held(q) THEN 1 ELSE 0) <= delivered[q]
  BY DEF UsedOrHeld
<1>2. Cardinality(Uses(q)) \in Nat
  BY <1>1, FS_CardinalityType
<1>3. CASE Uses(q)' = Uses(q) /\ (Held(q)' => Held(q) \/ delivered'[q] = delivered[q] + 1)
  BY <1>1, <1>2, <1>3
<1>4. CASE /\ \E u : u \notin Uses(q) /\ Uses(q)' = Uses(q) \cup {u}
           /\ ~Held(q)'
           /\ Held(q) \/ delivered'[q] = delivered[q] + 1
  <2>1. PICK u : u \notin Uses(q) /\ Uses(q)' = Uses(q) \cup {u}
    BY <1>4
  <2>2. IsFiniteSet(Uses(q)') /\ Cardinality(Uses(q)') = Cardinality(Uses(q)) + 1
    BY <1>1, <2>1, FS_AddElement
  <2> QED
    BY <1>1, <1>2, <1>4, <2>2
<1> QED
  BY <1>3, <1>4

\* What a part is stored over keeps the other parts that it held.
LEMMA StoredHolds ==
    ASSUME TypeOK, NEW p \in Packets, NEW i \in 0 .. Size(p) - 1, NEW q \in Parts,
           i \in DOMAIN Array(Part(p, i)), Holds(Stored(Part(p, i)), q)
    PROVE  /\ IdOf(q.packet) = IdOf(p)
           /\ q = Part(p, i) \/ Held(q)
<1> DEFINE part == Part(p, i)
<1>1. part.packet = p /\ part.index = i /\ part \in Parts /\ q # Junk
  BY PartFacts, PointersAssumption
<1>2. IsArray(Stored(part), Of(IdOf(p)))
  BY StoredType
<1>3. Stored(part) = [Array(part) EXCEPT ![i] = part]
  BY <1>1 DEF Stored
<1>4. q.index \in DOMAIN Stored(part) /\ Stored(part)[q.index] = q
  BY DEF Holds
<1>5. q \in Of(IdOf(p)) \cup {Junk}
  BY <1>2, <1>4 DEF IsArray
<1>6. IdOf(q.packet) = IdOf(p)
  BY <1>1, <1>5 DEF Of
<1>7. ASSUME q # part PROVE Held(q)
  <2>1. q.index \in DOMAIN Array(part) /\ Array(part)[q.index] = q
    BY <1>3, <1>4, <1>7
  <2>2. FRAGMENTS[IdOf(p)] # Null
    BY <1>1, <2>1 DEF Array
  <2>3. Array(part) = FRAGMENTS[IdOf(p)]
    BY <1>1, <2>2 DEF Array
  <2> QED
    BY <1>6, <2>1, <2>2, <2>3 DEF Held, Holds
<1> QED
  BY <1>6, <1>7

LEMMA UsedOrHeldStep ==
    ASSUME TypeOK, Functions, UsedOrHeld, [Next]_vars
    PROVE  UsedOrHeld'
<1>1. delivered \in [Parts -> Nat] /\ IsABag(completed)
  BY DEF TypeOK, Functions
<1>2. CASE UNCHANGED <<FRAGMENTS, completed, delivered>>
  BY <1>2 DEF UsedOrHeld, Uses, Held
<1>3. ASSUME NEW part \in Parts, Store(part) \/ StoreBehind(part)
                                  \/ Complete(part) \/ CompleteMissing(part)
      PROVE  UsedOrHeld'
  <2>1. PICK p \in Packets : \E i \in 0 .. Size(p) - 1 : part = Part(p, i)
    BY PartFacts
  <2>2. PICK i \in 0 .. Size(p) - 1 : part = Part(p, i)
    BY <2>1
  <2>3. Arrive(part) /\ part.packet = p /\ part.index = i /\ IdOf(p) \in Ids
    BY <1>3, <2>2, PartFacts, PacketFacts DEF Store, StoreBehind, Complete, CompleteMissing
  <2>4. delivered' = [delivered EXCEPT ![part] = @ + 1]
    BY <2>3 DEF Arrive
  <2>5. /\ delivered' \in [Parts -> Nat] /\ delivered'[part] = delivered[part] + 1
        /\ \A q \in Parts : delivered[q] <= delivered'[q]
    BY <1>1, <2>4
  <2>6. \A q \in Parts : IdOf(q.packet) \in Ids
    BY PartFacts, PacketFacts
  <2>7. ASSUME NEW q \in Parts
        PROVE  \/ Uses(q)' = Uses(q) /\ (Held(q)' => Held(q) \/ delivered'[q] = delivered[q] + 1)
               \/ /\ \E u : u \notin Uses(q) /\ Uses(q)' = Uses(q) \cup {u}
                  /\ ~Held(q)'
                  /\ Held(q) \/ delivered'[q] = delivered[q] + 1
    <3>1. CASE StoreBehind(part) \/ CompleteMissing(part)
      <4>1. UNCHANGED <<FRAGMENTS, completed>>
        BY <3>1 DEF StoreBehind, CompleteMissing
      <4> QED
        BY <4>1 DEF Uses, Held
    <3>2. CASE Store(part)
      <4>1. /\ FRAGMENTS' = [FRAGMENTS EXCEPT ![IdOf(p)] = Stored(part)]
            /\ completed' = completed /\ i \in DOMAIN Array(part)
        BY <2>3, <3>2 DEF Store
      <4>2. Uses(q)' = Uses(q)
        BY <4>1 DEF Uses
      <4>3. ASSUME Held(q)' PROVE Held(q) \/ q = part
        <5>1. Holds(FRAGMENTS'[IdOf(q.packet)], q) /\ FRAGMENTS'[IdOf(q.packet)] # Null
          BY <4>3 DEF Held
        <5>2. CASE IdOf(q.packet) = IdOf(p)
          <6>1. Holds(Stored(part), q)
            BY <2>3, <4>1, <5>1, <5>2 DEF Functions
          <6> QED
            BY <2>2, <4>1, <6>1, StoredHolds
        <5>3. CASE IdOf(q.packet) # IdOf(p)
          <6>1. FRAGMENTS'[IdOf(q.packet)] = FRAGMENTS[IdOf(q.packet)]
            BY <2>6, <4>1, <5>3 DEF Functions
          <6> QED
            BY <5>1, <6>1 DEF Held
        <5> QED
          BY <5>2, <5>3
      <4> QED
        BY <2>5, <4>2, <4>3
    <3>3. CASE Complete(part)
      <4> DEFINE a == Assembled(part)
      <4>1. /\ FRAGMENTS' = [FRAGMENTS EXCEPT ![IdOf(p)] = Null]
            /\ completed' = completed (+) SetToBag({a}) /\ i \in DOMAIN Array(part)
        BY <2>3, <3>3 DEF Complete, EraseEntry
      <4>2. Held(q)' => IdOf(q.packet) # IdOf(p) /\ Held(q)
        <5>1. IdOf(q.packet) = IdOf(p) => FRAGMENTS'[IdOf(q.packet)] = Null
          BY <2>3, <4>1 DEF Functions
        <5>2. IdOf(q.packet) # IdOf(p) => FRAGMENTS'[IdOf(q.packet)] = FRAGMENTS[IdOf(q.packet)]
          BY <2>6, <4>1 DEF Functions
        <5> QED
          BY <5>1, <5>2 DEF Held
      <4>3. /\ ~Holds(a, q) => Uses(q)' = Uses(q)
            /\ Holds(a, q) => \E u : u \notin Uses(q) /\ Uses(q)' = Uses(q) \cup {u}
        <5> HIDE DEF a
        <5> QED
          BY <1>1, <4>1, UsesGrow
      <4>4. ASSUME Holds(a, q) PROVE IdOf(q.packet) = IdOf(p) /\ (q = part \/ Held(q))
        <5>1. a = [k \in 0 .. i |-> Stored(part)[k]]
          BY <2>3 DEF Assembled
        <5>2. Stored(part) = [Array(part) EXCEPT ![i] = part]
          BY <2>3 DEF Stored
        <5>3. IsArray(Stored(part), Of(IdOf(p)))
          BY <2>2, <4>1, StoredType
        <5>4. q.index \in 0 .. i /\ Stored(part)[q.index] = q
          BY <4>4, <5>1 DEF Holds
        <5>5. 0 .. i \subseteq DOMAIN Stored(part)
          <6>1. PICK r \in Packets : DOMAIN Stored(part) = 0 .. Size(r) - 1
            BY <5>3 DEF IsArray
          <6>2. i \in 0 .. Size(r) - 1 /\ Size(r) \in Nat
            BY <4>1, <5>2, <6>1, PacketFacts
          <6> QED
            BY <6>1, <6>2
        <5>6. Holds(Stored(part), q)
          BY <5>4, <5>5 DEF Holds
        <5> QED
          BY <2>2, <4>1, <5>6, StoredHolds
      <4> QED
        BY <2>5, <4>2, <4>3, <4>4
    <3> QED
      BY <1>3, <3>1, <3>2, <3>3
  <2>8. ASSUME NEW q \in Parts
        PROVE  /\ IsFiniteSet(Uses(q)')
               /\ Cardinality(Uses(q)') + (IF Held(q)' THEN 1 ELSE 0) <= delivered'[q]
    BY <1>1, <2>5, <2>7, Paid
  <2> QED
    BY <2>8 DEF UsedOrHeld
<1> QED
  BY <1>2, <1>3 DEF Next, SendPacket, vars

LEMMA UsedOrHeldInit == Init => UsedOrHeld
<1> SUFFICES ASSUME Init, NEW part \in Parts
             PROVE  /\ IsFiniteSet(Uses(part))
                    /\ Cardinality(Uses(part)) + (IF Held(part) THEN 1 ELSE 0) <= delivered[part]
  BY DEF UsedOrHeld
<1>1. /\ FRAGMENTS = [id \in Ids |-> Null] /\ delivered[part] = 0
      /\ DOMAIN completed = {}
  BY DEF Init, EmptyBag, SetToBag
<1>2. Uses(part) = {}
  BY <1>1 DEF Uses
<1>3. IdOf(part.packet) \in Ids
  BY PartFacts, PacketFacts
<1>4. ~Held(part)
  BY <1>1, <1>3 DEF Held
<1> QED
  BY <1>1, <1>2, <1>4, FS_EmptySet

-----------------------------------------------------------------------------
(* The theorems                                                             *)

LEMMA FragmentsInit == Init => FInv
<1> SUFFICES ASSUME Init PROVE FInv
  OBVIOUS
<1>1. /\ sent = [peer \in Peers |-> 0] /\ FRAGMENTS = [id \in Ids |-> Null]
      /\ completed = EmptyBag /\ unreleased = 0 /\ kept = 0 /\ fault = "none"
      /\ delivered = [part \in Parts |-> 0] /\ calm = TRUE
  BY DEF Init
<1>2. completed = [e \in {} |-> 1]
  BY <1>1 DEF EmptyBag, SetToBag
<1>3. \A peer \in Peers : sent[peer] \in 0 .. Len(PartsOf[peer])
  <2> SUFFICES ASSUME NEW peer \in Peers PROVE 0 \in 0 .. Len(PartsOf[peer])
    BY <1>1
  <2>1. PartsOf[peer] \in Seq(Nat \ {0})
    BY FragmentsAssumption
  <2>2. Len(PartsOf[peer]) \in Nat
    BY <2>1
  <2> QED BY <2>2
<1>4. TypeOK
  BY <1>1, <1>2, <1>3 DEF TypeOK
<1>5. Functions
  BY <1>1, <1>2 DEF Functions, IsABag
<1>6. \A p \in Packets : \A i \in 0 .. Size(p) - 1 : ~Has(p, i)
  BY <1>1, PartFacts DEF Has
<1>7. \A p \in Packets : ~Begun(p) /\ ~Ended(p) /\ ~UnderWay(p)
  <2>1. \A p \in Packets : Size(p) - 1 \in 0 .. Size(p) - 1
    BY PacketFacts
  <2> QED BY <1>6, <2>1, Stages DEF UnderWay
<1>8. Waiting = {}
  BY <1>1 DEF Waiting
<1>9. Counted /\ LostCounted
  <2>1. Lost = {}
    BY <1>7 DEF Lost
  <2> QED BY <1>1, <1>8, <2>1, FS_EmptySet DEF Counted, LostCounted
<1>10. completed = SetToBag({Whole(p) : p \in {q \in Packets : Ended(q)}})
  <2>1. {Whole(p) : p \in {q \in Packets : Ended(q)}} = {}
    BY <1>7
  <2> QED BY <1>1, <2>1 DEF EmptyBag
<1>11. OneEach /\ Entries /\ NoEntries /\ Full
  BY <1>1, <1>7 DEF OneEach, Entries, NoEntries, Full
<1> QED BY <1>1, <1>4, <1>5, <1>9, <1>10, <1>11 DEF FInv, Gently

\* Nothing that a gentle network is about has changed.
LEMMA SameGently ==
    ASSUME Gently, UNCHANGED <<FRAGMENTS, completed, unreleased, kept, fault, delivered>>
    PROVE  Gently'
<1>1. \A p \in Packets : (Begun(p)' <=> Begun(p)) /\ (Ended(p)' <=> Ended(p))
                         /\ (UnderWay(p)' <=> UnderWay(p)) /\ Entry(p)' = Entry(p)
                         /\ \A i \in 0 .. Size(p) - 1 : Has(p, i)' <=> Has(p, i)
  BY DEF Begun, Ended, UnderWay, Entry, Has
<1>2. Waiting' = Waiting
  BY DEF Waiting, Ended
<1>3. {q \in Packets : Ended(q)'} = {q \in Packets : Ended(q)}
  BY <1>1
<1>4. {Whole(p) : p \in {q \in Packets : Ended(q)'}} = {Whole(p) : p \in {q \in Packets : Ended(q)}}
  BY <1>3
<1>5. OneEach' /\ Entries' /\ NoEntries' /\ Full'
  BY <1>1 DEF Gently, OneEach, Entries, NoEntries, Full
<1>6. Counted' /\ LostCounted'
  <2>1. Lost' = Lost
    BY <1>1 DEF Lost
  <2> QED BY <1>2, <2>1 DEF Gently, Counted, LostCounted
<1> QED BY <1>4, <1>5, <1>6 DEF Gently

LEMMA FragmentsStep == FInv /\ [Next]_vars => FInv'
<1> SUFFICES ASSUME FInv, [Next]_vars PROVE FInv'
  OBVIOUS
<1>1. TypeOK /\ Functions /\ (calm => Gently) /\ (TypeOK /\ Functions)'
  BY TypeStep DEF FInv
<1>2. CASE UNCHANGED vars
  BY <1>1, <1>2, SameGently DEF FInv, vars
<1>3. ASSUME NEW peer \in Peers, SendPacket(peer) PROVE FInv'
  BY <1>1, <1>3, SameGently DEF FInv, SendPacket
<1>4. ASSUME NEW part \in Parts, Store(part) \/ StoreBehind(part)
                                  \/ Complete(part) \/ CompleteMissing(part)
      PROVE  FInv'
  <2>1. PICK p \in Packets : \E i \in 0 .. Size(p) - 1 : part = Part(p, i)
    BY PartFacts
  <2>2. PICK i \in 0 .. Size(p) - 1 : part = Part(p, i)
    BY <2>1
  <2>3. calm' => calm
    BY <1>4 DEF Store, StoreBehind, Complete, CompleteMissing, Arrive
  <2>4. ASSUME calm' PROVE Gently'
    <3>1. Gently
      BY <1>1, <2>3, <2>4
    <3>2. CASE Store(part)
      BY <1>1, <2>2, <2>4, <3>1, <3>2, StoreGently
    <3>3. CASE Complete(part)
      BY <1>1, <2>2, <2>4, <3>1, <3>3, CompleteGently
    <3>4. CASE StoreBehind(part) \/ CompleteMissing(part)
      BY <1>1, <2>2, <2>4, <3>1, <3>4, NoFault
    <3> QED BY <1>4, <3>2, <3>3, <3>4
  <2> QED BY <1>1, <2>4 DEF FInv
<1> QED BY <1>2, <1>3, <1>4 DEF Next

LEMMA FragmentsInvariant == Spec => []FInv
  BY FragmentsInit, FragmentsStep, PTL DEF Spec

\* The arrays of FRAGMENTS hold parts of packets with the number of the entry,
\* each in its place, and so do those handed on, whatever the network does.
THEOREM FragmentsTypes == Spec => []TypeOK
<1>1. FInv => TypeOK
  BY DEF FInv
<1> QED BY <1>1, FragmentsInvariant, PTL

\* As long as parts arrive once, the last one last, and no two packets of one
\* number are under way at a time, handle is given exactly the packets whose
\* last part has arrived, each whole and once, and nothing is written behind
\* an array or read from a part that is not there.
THEOREM GentlePacketsAreWhole == Spec => []GentleIsWhole
<1>1. FInv => GentleIsWhole
  BY DEF FInv, Gently, GentleIsWhole
<1> QED BY <1>1, FragmentsInvariant, PTL

\* On such a network the buffers of parts go back when their packet is handled,
\* and handle leaves exactly one taken for each packet it was handed that is no
\* game packet.
THEOREM GentleBuffersReturn == Spec => []GentleLosesOtherPackets
<1>1. FInv => GentleLosesOtherPackets
  BY DEF FInv, Gently, GentleLosesOtherPackets, Counted, Waiting, LostCounted, Lost
<1> QED BY <1>1, FragmentsInvariant, PTL

\* Whatever the network loses, delays or delivers again, and also when packets
\* of one number overlap: handle is never given a part more often than it has
\* arrived, because an entry is erased when its packet is complete.
THEOREM PartsAreUsedOnce == Spec => []PartsUsedOnce
<1>1. Init => UsedOrHeld
  BY UsedOrHeldInit
<1>2. FInv /\ UsedOrHeld /\ [Next]_vars => UsedOrHeld'
  BY UsedOrHeldStep DEF FInv
<1>3. FInv /\ UsedOrHeld => PartsUsedOnce
  <2> SUFFICES ASSUME FInv, UsedOrHeld, NEW part \in Parts
               PROVE  Cardinality(Uses(part)) <= delivered[part]
    BY DEF PartsUsedOnce
  <2>1. /\ IsFiniteSet(Uses(part)) /\ delivered[part] \in Nat
        /\ Cardinality(Uses(part)) + (IF Held(part) THEN 1 ELSE 0) <= delivered[part]
    BY DEF UsedOrHeld, FInv, TypeOK
  <2>2. Cardinality(Uses(part)) \in Nat
    BY <2>1, FS_CardinalityType
  <2> QED
    BY <2>1, <2>2
<1> QED
  BY <1>1, <1>2, <1>3, FragmentsInvariant, PTL DEF Spec

-----------------------------------------------------------------------------
(* The channel of whole packets                                             *)

WholeSent == {Whole(p) : p \in {q \in Packets : q.number <= sent[q.peer]}}

LEMMA SentIs ==
    /\ \A w : w \in WholeSent <=>
           \E p \in Packets : p.number <= sent[p.peer] /\ w = Whole(p)
    /\ \A w : w \in WholeSent' <=>
           \E p \in Packets : p.number <= sent'[p.peer] /\ w = Whole(p)
  BY DEF WholeSent

\* A peer that sends puts one packet more into the channel.
LEMMA OneMoreSent ==
    ASSUME TypeOK, Functions, NEW peer \in Peers, SendPacket(peer)
    PROVE  \E w \in {Whole(p) : p \in Packets} \ WholeSent : WholeSent' = WholeSent \cup {w}
<1> DEFINE n == sent[peer] + 1
           p == [peer |-> peer, number |-> n]
<1>1. /\ PartsOf[peer] \in Seq(Nat \ {0}) /\ sent[peer] \in Nat
      /\ sent[peer] < Len(PartsOf[peer])
  BY FragmentsAssumption DEF TypeOK, SendPacket
<1>2. n \in DOMAIN PartsOf[peer]
  BY <1>1
<1>3. p \in Packets
  <2>1. p \in [peer : {peer}, number : DOMAIN PartsOf[peer]]
    BY <1>2
  <2> QED
    BY <2>1 DEF Packets
<1>4. \A q \in Packets :
          /\ q.peer \in Peers /\ q.number \in Int
          /\ q.peer = peer /\ q.number = n => q = p
  <2> SUFFICES ASSUME NEW q \in Packets
               PROVE  /\ q.peer \in Peers /\ q.number \in Int
                      /\ q.peer = peer /\ q.number = n => q = p
    OBVIOUS
  <2>1. PICK r \in Peers : q \in [peer : {r}, number : DOMAIN PartsOf[r]]
    BY DEF Packets
  <2>2. q = [peer |-> q.peer, number |-> q.number]
    BY <2>1
  <2>3. q.peer \in Peers /\ q.number \in Int
    BY PacketFacts
  <2> QED
    BY <2>2, <2>3
<1>5. p.peer = peer /\ p.number = n
  OBVIOUS
<1>6. sent' = [sent EXCEPT ![peer] = n]
  BY DEF SendPacket
<1>7. \A r \in Peers : sent'[r] = IF r = peer THEN n ELSE sent[r]
  BY <1>6 DEF Functions
<1> HIDE DEF p
<1>8. \A q \in Packets : q.number <= sent'[q.peer] <=> q.number <= sent[q.peer] \/ q = p
  BY SMTT(60), <1>1, <1>4, <1>5, <1>7
<1>9. ~(p.number <= sent[p.peer])
  BY <1>1, <1>5
<1> HIDE DEF n
<1>10. Whole(p) \notin WholeSent
  BY <1>3, <1>9, SentIs, WholeIsOnce
<1>11. WholeSent' = WholeSent \cup {Whole(p)}
  BY <1>3, <1>8, SentIs
<1> QED
  BY <1>3, <1>10, <1>11

\* What a step does to the bag of the packets handled.
LEMMA HandledGrows ==
    ASSUME TypeOK, Functions, NEW part \in Parts,
           Store(part) \/ StoreBehind(part) \/ Complete(part) \/ CompleteMissing(part)
    PROVE  /\ DOMAIN completed \subseteq DOMAIN completed'
           /\ \A w \in DOMAIN completed : completed[w] <= completed'[w]
           /\ WholeSent' = WholeSent
<1>1. \A w \in DOMAIN completed : completed[w] \in Nat
  BY DEF Functions, IsABag
<1>2. sent' = sent
  BY DEF Store, StoreBehind, Complete, CompleteMissing, Arrive
<1>3. WholeSent' = WholeSent
  BY <1>2 DEF WholeSent
<1>4. CASE completed' = completed
  BY <1>1, <1>3, <1>4
<1>5. CASE Complete(part)
  <2>1. completed' = completed (+) SetToBag({Assembled(part)})
    BY <1>5 DEF Complete
  <2>2. /\ DOMAIN completed' = (DOMAIN completed) \cup {Assembled(part)}
        /\ \A y \in DOMAIN completed' :
               completed'[y] = (IF y \in DOMAIN completed THEN completed[y] ELSE 0)
                               + (IF y = Assembled(part) THEN 1 ELSE 0)
    BY <2>1, BagGrows DEF Functions
  <2>3. ASSUME NEW w \in DOMAIN completed PROVE completed[w] <= completed'[w]
    <3>1. completed'[w] = completed[w] + (IF w = Assembled(part) THEN 1 ELSE 0)
      BY <2>2
    <3> QED
      BY <1>1, <3>1
  <2> QED
    BY <1>3, <2>2, <2>3
<1> QED
  BY <1>4, <1>5 DEF Store, StoreBehind, CompleteMissing

\* The last part of a packet on a gentle network: the packet is handled, which
\* it had not been.
LEMMA HandledOnce ==
    ASSUME TypeOK, Functions, Gently, NEW p \in Packets, NEW i \in 0 .. Size(p) - 1,
           Complete(Part(p, i)), calm'
    PROVE  /\ Whole(p) \in WholeSent \ DOMAIN completed
           /\ completed' = [w \in DOMAIN completed \cup {Whole(p)} |->
                                IF w = Whole(p) THEN 1 ELSE completed[w]]
<1>1. /\ Arrive(Part(p, i)) /\ i + 1 = Size(p)
      /\ completed' = completed (+) SetToBag({Assembled(Part(p, i))})
  BY PartFacts DEF Complete, IsLast
<1>2. Assembled(Part(p, i)) = Whole(p) /\ ~Ended(p)
  BY <1>1, NothingMissing, Room
<1>3. Whole(p) \in WholeSent
  <2>1. p.number <= sent[p.peer]
    BY <1>1, PartFacts DEF Arrive, InFlight
  <2> QED
    BY <2>1, SentIs
<1>4. Whole(p) \notin DOMAIN completed
  <2>1. DOMAIN completed = {Whole(q) : q \in {r \in Packets : Ended(r)}}
    BY DEF Gently, SetToBag
  <2> QED
    BY <1>2, <2>1, WholeIsOnce
<1>5. /\ IsABag(completed') /\ DOMAIN completed' = DOMAIN completed \cup {Whole(p)}
      /\ \A w \in DOMAIN completed' :
             completed'[w] = IF w = Whole(p) THEN 1 ELSE completed[w]
  <2>1. completed' = completed (+) SetToBag({Whole(p)})
    BY <1>1, <1>2
  <2> QED
    BY <1>4, <2>1, BagGrows DEF Functions
<1>6. completed' = [w \in DOMAIN completed \cup {Whole(p)} |->
                        IF w = Whole(p) THEN 1 ELSE completed[w]]
  BY <1>5 DEF IsABag
<1> QED
  BY <1>3, <1>4, <1>6

LEMMA ChannelStep ==
    FInv /\ [Next]_vars => [Channel!Next]_<<WholeSent, completed, calm>>
<1> SUFFICES ASSUME FInv, [Next]_vars
             PROVE  Channel!Next \/ UNCHANGED <<WholeSent, completed, calm>>
  OBVIOUS
<1>1. TypeOK /\ Functions /\ (calm => Gently) /\ calm \in BOOLEAN
  BY DEF FInv, TypeOK
<1>2. CASE UNCHANGED vars
  BY <1>2 DEF vars, WholeSent
<1>3. ASSUME NEW peer \in Peers, SendPacket(peer) PROVE Channel!Next
  <2>1. \E w \in {Whole(p) : p \in Packets} \ WholeSent : WholeSent' = WholeSent \cup {w}
    BY <1>1, <1>3, OneMoreSent
  <2>2. completed' = completed /\ calm' = calm
    BY <1>3 DEF SendPacket
  <2>3. Channel!Send
    BY <2>1, <2>2 DEF Channel!Send, WholeSent
  <2> QED
    BY <2>3 DEF Channel!Next
<1>4. ASSUME NEW part \in Parts, Store(part) \/ StoreBehind(part)
                                  \/ Complete(part) \/ CompleteMissing(part)
      PROVE  Channel!Next \/ UNCHANGED <<WholeSent, completed, calm>>
  <2>1. /\ DOMAIN completed \subseteq DOMAIN completed'
        /\ \A w \in DOMAIN completed : completed[w] <= completed'[w]
        /\ WholeSent' = WholeSent
    BY <1>1, <1>4, HandledGrows
  <2>2. calm' \in BOOLEAN /\ (calm' => calm)
    BY <1>1, <1>4, Zenon DEF Store, StoreBehind, Complete, CompleteMissing, Arrive
  <2>3. CASE ~calm'
    <3>1. calm' = FALSE
      BY <2>2, <2>3
    <3>2. Channel!Upset
      BY <2>1, <3>1 DEF Channel!Upset, WholeSent
    <3> QED
      BY <3>2 DEF Channel!Next
  <2>4. CASE calm' /\ Complete(part)
    <3>1. PICK p \in Packets : \E i \in 0 .. Size(p) - 1 : part = Part(p, i)
      BY PartFacts
    <3>2. PICK i \in 0 .. Size(p) - 1 : part = Part(p, i)
      BY <3>1
    <3>3. /\ Whole(p) \in WholeSent \ DOMAIN completed
          /\ completed' = [w \in DOMAIN completed \cup {Whole(p)} |->
                               IF w = Whole(p) THEN 1 ELSE completed[w]]
      BY <1>1, <2>2, <2>4, <3>2, HandledOnce
    <3>4. calm /\ calm' = calm
      BY <1>1, <2>2, <2>4
    <3>5. Channel!Handle
      BY <2>1, <3>3, <3>4 DEF Channel!Handle, WholeSent
    <3> QED
      BY <3>5 DEF Channel!Next
  <2>5. CASE calm' /\ (Store(part) \/ StoreBehind(part) \/ CompleteMissing(part))
    <3>1. calm' = calm
      BY <1>1, <2>2, <2>5
    <3>2. completed' = completed
      BY <2>5 DEF Store, StoreBehind, CompleteMissing
    <3> QED
      BY <2>1, <3>1, <3>2
  <2> QED
    BY <1>4, <2>3, <2>4, <2>5
<1> QED
  BY <1>2, <1>3, <1>4 DEF Next

\* Reassembly implements a channel of whole packets: as long as the network is
\* gentle, what is handled was sent, is one packet, and is handled once,
\* although the parts of all peers meet in one map of reused numbers.
THEOREM FragmentsAreChannel == Spec => ChannelSpec
<1>1. Init => Channel!Init
  <2> SUFFICES ASSUME Init PROVE Channel!Init
    OBVIOUS
  <2>1. \A p \in Packets : ~(p.number <= sent[p.peer])
    <3> SUFFICES ASSUME NEW p \in Packets PROVE ~(p.number <= sent[p.peer])
      OBVIOUS
    <3>1. p.peer \in Peers /\ p.number \in 1 .. Len(PartsOf[p.peer])
      BY PacketFacts
    <3>2. sent[p.peer] = 0
      BY <3>1 DEF Init
    <3> QED
      BY <3>1, <3>2
  <2>2. WholeSent = {}
    BY <2>1, SentIs
  <2>3. DOMAIN completed = {} /\ calm = TRUE
    BY DEF Init, EmptyBag, SetToBag
  <2> QED
    BY <2>2, <2>3 DEF Channel!Init, WholeSent
<1>2. FInv /\ [Next]_vars =>
          [Channel!Next]_<<{Whole(p) : p \in {q \in Packets : q.number <= sent[q.peer]}},
                           completed, calm>>
  BY SMTT(60), ChannelStep DEF WholeSent
<1> QED
  BY <1>1, <1>2, FragmentsInvariant, PTL DEF Spec, ChannelSpec, Channel!Spec

-----------------------------------------------------------------------------
(* FrameSets: where the frames of a datagram are                            *)

LEMMA BitsAreNumbers == \A n \in Bits : n \in Int /\ n >= 1
<1>1. MaxBits \in Int
  BY DEF MaxBits
<1> QED
  BY <1>1 DEF Bits

LEMMA FrameFacts ==
    ASSUME NEW f \in Frame
    PROVE  /\ HeaderSize(f) \in Nat /\ ContentSize(f) \in Nat
           /\ HeaderSize(f) > 0 /\ ContentSize(f) > 0
           /\ FrameSize(f) \in Nat /\ FrameSize(f) > 0
           /\ FrameSize(f) = HeaderSize(f) + IF f.holds = "set" THEN 4 ELSE ContentSize(f)
           /\ HeaderRead(f) = HeaderSize(f)
           /\ (f.bits + 7) \div 8 = ContentSize(f)
           /\ IsReliable(f) <=> f.reliability \in Reliable
<1>1. /\ f.reliability \in 0 .. 7 /\ f.bits \in Bits
      /\ f.holds \in {"part", "game", "set", "other"}
  BY DEF Frame
<1>2. HeaderSize(f) \in Nat /\ HeaderSize(f) > 0
  BY DEF HeaderSize
<1> DEFINE bits == f.bits
<1>3. bits \in Int /\ bits >= 1
  BY <1>1, BitsAreNumbers
<1>4. ContentSize(f) = IF bits % 8 = 0 THEN bits \div 8 ELSE bits \div 8 + 1
  BY DEF ContentSize
<1> HIDE DEF bits
<1>4a. ContentSize(f) \in Nat /\ ContentSize(f) > 0 /\ (bits + 7) \div 8 = ContentSize(f)
  BY <1>3, <1>4
<1>5. HeaderRead(f) = HeaderSize(f)
  BY DEF HeaderRead, HeaderSize, IsReliable, IsOrdered, IsSequenced, IsFragment,
         Reliable, Sequenced, Ordered
<1> QED
  BY <1>2, <1>4a, <1>5 DEF IsReliable, Reliable, bits, FrameSize

\* The positions of the first k frames, as Start defines them.
Positions(set, k) ==
    CHOOSE start : start =
        [i \in 1 .. k |->
            IF i = 1 THEN 4 ELSE start[i - 1] + FrameSize(set[i - 1])]

LEMMA StartIsPosition == \A set, k : Start(set, k) = Positions(set, k)[k]
  BY DEF Start, Positions

LEMMA PositionsExist ==
    ASSUME NEW set, NEW k \in Nat, k >= 1, \A i \in 2 .. k : set[i - 1] \in Frame
    PROVE  /\ Positions(set, k) \in [1 .. k -> Int]
           /\ Positions(set, k)[1] = 4
           /\ \A i \in 2 .. k : Positions(set, k)[i]
                  = Positions(set, k)[i - 1] + FrameSize(set[i - 1])
<1> DEFINE step == [pair \in (1 .. k) \X Int |->
                       pair[2] + (IF pair[1] = 1 THEN 0 ELSE FrameSize(set[pair[1] - 1]))]
<1>2. \A i \in 2 .. k : FrameSize(set[i - 1]) \in Int
  BY FrameFacts
<1>3. step \in [(1 .. k) \X Int -> Int]
  <2>1. ASSUME NEW pair \in (1 .. k) \X Int
        PROVE  pair[2] + (IF pair[1] = 1 THEN 0 ELSE FrameSize(set[pair[1] - 1])) \in Int
    <3>1. pair[1] \in 1 .. k /\ pair[2] \in Int
      OBVIOUS
    <3> QED
      BY <1>2, <3>1
  <2> QED
    BY <2>1
<1>4. \A i \in 2 .. k, n \in Int : step[<<i, n>>] = n + FrameSize(set[i - 1])
  OBVIOUS
<1> HIDE DEF step
<1>5. \E g : IsRecursive(g, 1, k, Int, 4, step)
  <2>1. IsStep(step, 1, k, Int)
    BY <1>3 DEF IsStep
  <2>2. 1 <= k /\ 4 \in Int /\ 1 \in Int /\ k \in Int
    OBVIOUS
  <2> QED
    BY <2>1, <2>2, Recursion
<1>1. PICK g \in [1 .. k -> Int] :
           g[1] = 4 /\ \A i \in 1 .. k : i # 1 => g[i] = step[<<i, g[i - 1]>>]
  BY <1>5 DEF IsRecursive
<1>6. ASSUME NEW i \in 2 .. k
      PROVE  g[i] = g[i - 1] + FrameSize(set[i - 1])
  <2>1. g[i - 1] \in Int
    OBVIOUS
  <2>2. g[i] = step[<<i, g[i - 1]>>]
    BY <1>1
  <2> QED
    BY <1>4, <2>1, <2>2
<1> DEFINE P == Positions(set, k)
<1>7. g = [i \in 1 .. k |->
              IF i = 1 THEN 4 ELSE g[i - 1] + FrameSize(set[i - 1])]
  BY <1>1, <1>6
<1>8. P = [i \in 1 .. k |->
              IF i = 1 THEN 4 ELSE P[i - 1] + FrameSize(set[i - 1])]
  BY <1>7 DEF Positions
<1> HIDE DEF P
<1>9. \A i \in 2 .. k : P[i] = P[i - 1] + FrameSize(set[i - 1])
  BY <1>8
<1>10. P[1] = 4
  BY <1>8
<1>11. \A i \in 1 .. k : P[i] = g[i]
  <2>1. \A i \in 1 .. k : i # 1 /\ P[i - 1] = g[i - 1] => P[i] = g[i]
    BY <1>6, <1>9
  <2>2. AgreeStepwise(P, g, 1, k)
    BY <1>1, <1>10, <2>1 DEF AgreeStepwise
  <2> QED
    BY <2>2, Agreement
<1>12. P \in [1 .. k -> Int]
  BY <1>8, <1>11
<1> QED
  BY <1>9, <1>10, <1>12 DEF P

\* The first frame is behind the id and number of the set, every other one
\* behind the one before.
LEMMA Starts ==
    ASSUME NEW set \in Seq(Frame)
    PROVE  /\ Start(set, 1) = 4
           /\ \A k \in 1 .. Len(set) + 1 : Start(set, k) \in Int
           /\ \A k \in 1 .. Len(set) : Start(set, k + 1) = Start(set, k) + FrameSize(set[k])
<1>1. \A k \in 1 .. Len(set) + 1 : k \in Nat /\ k >= 1 /\ \A i \in 2 .. k : set[i - 1] \in Frame
  <2> TAKE k \in 1 .. Len(set) + 1
  <2>1. \A i \in 2 .. k : i - 1 \in 1 .. Len(set)
    OBVIOUS
  <2> QED
    BY <2>1
<1>2. /\ \A k \in 1 .. Len(set) + 1 : Start(set, k) \in Int
      /\ Start(set, 1) = 4
  BY <1>1, PositionsExist, StartIsPosition
<1>3. ASSUME NEW k \in 1 .. Len(set)
      PROVE  Start(set, k + 1) = Start(set, k) + FrameSize(set[k])
  <2>0. PICK g, h : g = Positions(set, k) /\ h = Positions(set, k + 1)
    OBVIOUS
  <2> DEFINE Step(i, n) == n + FrameSize(set[i - 1])
  <2>1. g[1] = 4 /\ \A i \in 2 .. k : g[i] = Step(i, g[i - 1])
    BY <1>1, <2>0, PositionsExist
  <2>2. h[1] = 4 /\ \A i \in 2 .. k + 1 : h[i] = Step(i, h[i - 1])
    BY SMTT(60), <1>1, <2>0, PositionsExist
  <2>3. Start(set, k) = g[k] /\ Start(set, k + 1) = h[k + 1]
    BY <2>0, StartIsPosition
  <2> HIDE DEF Step
  <2>4. \A i \in 1 .. k : g[i] = h[i]
    <3>1. \A i \in 1 .. k : i # 1 /\ g[i - 1] = h[i - 1] => g[i] = h[i]
      BY <2>1, <2>2
    <3>2. AgreeStepwise(g, h, 1, k)
      BY <2>1, <2>2, <3>1 DEF AgreeStepwise
    <3>3. 1 \in Int /\ k \in Int
      OBVIOUS
    <3> QED
      BY <3>2, <3>3, Agreement
  <2>5. h[k + 1] = Step(k + 1, h[k])
    <3>1. k + 1 \in 2 .. k + 1 /\ (k + 1) - 1 = k
      OBVIOUS
    <3> QED
      BY <2>2, <3>1
  <2>6. h[k + 1] = Step(k + 1, g[k])
    BY <2>4, <2>5
  <2> QED
    BY <2>3, <2>6 DEF Step
<1> QED
  BY <1>2, <1>3

\* So the frames follow one another, behind the first four bytes.
LEMMA StartsGrow ==
    ASSUME NEW set \in Seq(Frame), NEW j \in 1 .. Len(set) + 1, NEW k \in 1 .. Len(set) + 1
    PROVE  /\ j < k => Start(set, j) < Start(set, k)
           /\ Start(set, k) >= 4
<1>1. \A i \in 1 .. Len(set) : set[i] \in Frame
  OBVIOUS
<1>2. \A i \in 1 .. Len(set) : Start(set, i) < Start(set, i + 1)
  <2> TAKE i \in 1 .. Len(set)
  <2>1. FrameSize(set[i]) \in Nat /\ FrameSize(set[i]) > 0
    BY SMTT(60), <1>1, FrameFacts
  <2>2. /\ Start(set, i) \in Int
        /\ Start(set, i + 1) = Start(set, i) + FrameSize(set[i])
    BY Starts
  <2> QED
    BY <2>1, <2>2
<1>3. ASSUME NEW i \in 1 .. Len(set) + 1
      PROVE  \A n \in i + 1 .. Len(set) + 1 : Start(set, i) < Start(set, n)
  <2> DEFINE S == {n \in i + 1 .. Len(set) + 1 : Start(set, i) < Start(set, n)}
  <2>1. i + 1 <= Len(set) + 1 => i + 1 \in S
    BY <1>2
  <2>2. ASSUME NEW n \in i + 1 .. (Len(set) + 1) - 1, n \in S PROVE n + 1 \in S
    <3>1. Start(set, i) < Start(set, n) /\ Start(set, n) < Start(set, n + 1)
      BY <1>2, <2>2
    <3>2. Start(set, i) \in Int /\ Start(set, n) \in Int /\ Start(set, n + 1) \in Int
      BY Starts
    <3>3. n + 1 \in i + 1 .. Len(set) + 1
      OBVIOUS
    <3> QED
      BY <3>1, <3>2, <3>3
  <2>3. i + 1 .. Len(set) + 1 \subseteq S
    <3>1. i + 1 \in Int /\ Len(set) + 1 \in Int
      OBVIOUS
    <3> HIDE DEF S
    <3> QED
      BY <2>1, <2>2, <3>1, InductionUpTo
  <2> QED
    BY <2>3
<1>4. j < k => Start(set, j) < Start(set, k)
  BY <1>3
<1>5. Start(set, k) >= 4
  <2>1. CASE k = 1
    BY <2>1, Starts
  <2>2. CASE k # 1
    <3>1. Start(set, 1) < Start(set, k) /\ Start(set, 1) = 4 /\ Start(set, k) \in Int
      BY <2>2, <1>3, Starts
    <3> QED
      BY <3>1
  <2> QED
    BY <2>1, <2>2
<1> QED
  BY <1>4, <1>5
-----------------------------------------------------------------------------
(* The loop                                                                 *)

\* How a client lays out a frame set: every frame ends where another starts.
LaidOut(set) ==
    /\ set \in Seq(Frame)
    /\ \A k \in 1 .. Len(set) : \E n \in k + 1 .. Len(set) + 1 : End(set, k) = Start(set, n)

NoGame(set, n) == \A i \in 1 .. n : set[i].holds # "game"

NoSet(set, n) == \A i \in 1 .. n : set[i].holds # "set"

\* Frame k is the first that holds a game packet or a frame set.
FirstTaker(set, k) ==
    set[k].holds \in {"game", "set"} /\ NoGame(set, k - 1) /\ NoSet(set, k - 1)

Acknowledged(set, seq, n) == {i \in 1 .. n : set[seq[i]].reliability \in Reliable}

HaveRead == {read[i] : i \in DOMAIN read}

LastRead == IF read = <<>> THEN 0 ELSE read[Len(read)]

Call == [offset : Int, bytes : Int]

FrameTypes ==
    /\ LaidOut(frames) /\ last \in Seq(Frame)
    /\ read \in Seq(Nat) /\ \A i \in 1 .. Len(read) : read[i] \in 1 .. Len(frames)
    /\ size \in Int /\ offset \in Int /\ saved \in Int /\ bytes \in Int /\ free \in Int
    /\ outer \in Seq(Call)
    /\ acks \in Int
    /\ released \in BOOLEAN
    /\ loop \in {"receive", "id", "frames", "content", "advance", "lost"}

ReadSoFar ==
    /\ \A i \in 1 .. Len(read) :
           \/ read[i] = IF i = 1 THEN 1 ELSE read[i - 1] + 1
           \/ Repeated(i)
    /\ acks = Cardinality(Acknowledged(frames, read, Len(read)))

\* A position behind a frame set that has been read within a frame.
BehindSet(at) == \E k \in HaveRead : frames[k].holds = "set" /\ at = End(frames, k)

\* The loops around the one that runs go on there.
Calls == \A c \in 1 .. Len(outer) : BehindSet(outer[c].offset + outer[c].bytes)

\* The outermost of them is at the first frame set of the first n frames.
Outermost(n) ==
    IF outer = <<>> THEN NoSet(frames, n)
    ELSE \E k \in 1 .. n :
             /\ frames[k].holds = "set" /\ NoSet(frames, k - 1)
             /\ outer[1].offset + outer[1].bytes = End(frames, k)

\* The frames have been read up to the last one that was, and the first n have
\* been handled and hold no game packet; or the end has been reached before.
Progressed(n) ==
    \/ HaveRead = 1 .. LastRead /\ NoGame(frames, n) /\ Outermost(n)
    \/ HaveRead = 1 .. Len(frames) /\ NoGame(frames, Len(frames))

\* A frame starts here, or the datagram ends: the next one, or any behind a
\* frame set once the last one has been read.
Placed(at) ==
    \E k \in 1 .. Len(frames) + 1 :
        /\ at = Start(frames, k)
        /\ k = LastRead + 1 \/ (LastRead = Len(frames) /\ BehindSet(at))

\* The last frame that was read held a game packet; the outermost loop goes on
\* behind the first frame that holds one or a frame set.
Gone(at) ==
    /\ size = 0 /\ at >= 4
    /\ HaveRead = 1 .. LastRead /\ LastRead \in 1 .. Len(frames)
    /\ NoGame(frames, LastRead - 1) /\ frames[LastRead].holds = "game"
    /\ \E k \in 1 .. LastRead :
           /\ FirstTaker(frames, k)
           /\ End(frames, k) =
                  IF outer = <<>> THEN at ELSE outer[1].offset + outer[1].bytes

Here(at) ==
    /\ ~released => size = SizeOf(frames) /\ Placed(at) /\ Progressed(LastRead)
    /\ released => Gone(at)

\* Where the buffer is at each place of the loop.
BetweenFrames == loop = "frames" => Here(offset)

BehindContent == loop = "advance" => Here(saved + bytes)

BehindHeader ==
    loop = "content" =>
        /\ read # <<>> /\ Progressed(LastRead - 1)
        /\ ~released /\ size = SizeOf(frames)
        /\ offset = Start(frames, LastRead) + HeaderSize(frames[LastRead])
        /\ bytes = ContentSize(frames[LastRead])

OutsideLoop ==
    /\ loop \in {"id", "lost"} => read = <<>>
    /\ loop \in {"id", "lost", "receive"} => outer = <<>>
    /\ loop = "id" => ~released /\ size = SizeOf(frames)
    /\ loop = "receive" => HaveRead = Reached(frames)

FrameInv ==
    /\ FrameTypes /\ ReadSoFar /\ Calls
    /\ BetweenFrames /\ BehindHeader /\ BehindContent /\ OutsideLoop
    /\ OnlyFramedGamesMoveReleased

LEMMA NothingAcknowledged == \A set, seq : Cardinality(Acknowledged(set, seq, 0)) = 0
<1> TAKE set, seq
<1>1. Acknowledged(set, seq, 0) = {}
  BY DEF Acknowledged
<1> QED
  BY <1>1, FS_EmptySet

LEMMA AcknowledgedGrows ==
    ASSUME NEW set, NEW seq, NEW n \in Nat
    PROVE  /\ Cardinality(Acknowledged(set, seq, n)) \in Nat
           /\ Cardinality(Acknowledged(set, seq, n + 1)) =
                  Cardinality(Acknowledged(set, seq, n))
                  + IF set[seq[n + 1]].reliability \in Reliable THEN 1 ELSE 0
<1> DEFINE A == Acknowledged(set, seq, n)
<1>1. IsFiniteSet(A)
  <2>1. IsFiniteSet(1 .. n)
    BY FS_Interval
  <2> QED
    BY <2>1, FS_Subset DEF Acknowledged
<1>2. Cardinality(A) \in Nat
  BY <1>1, FS_CardinalityType
<1>3. n + 1 \notin A
  BY DEF Acknowledged
<1>4. Acknowledged(set, seq, n + 1) =
          IF set[seq[n + 1]].reliability \in Reliable THEN A \cup {n + 1} ELSE A
  BY DEF Acknowledged
<1> HIDE DEF A
<1>5. Cardinality(A \cup {n + 1}) = Cardinality(A) + 1
  BY <1>1, <1>3, FS_AddElement
<1> QED
  BY <1>2, <1>4, <1>5 DEF A

LEMMA SameAcknowledged ==
    ASSUME NEW set, NEW seq, NEW other, NEW n, \A i \in 1 .. n : seq[i] = other[i]
    PROVE  Acknowledged(set, seq, n) = Acknowledged(set, other, n)
  BY DEF Acknowledged

\* The frames before the first game packet are reached, and that packet.
LEMMA ReachedAll ==
    ASSUME NEW set \in Seq(Frame), NoGame(set, Len(set))
    PROVE  Reached(set) = 1 .. Len(set)
  BY DEF Reached, NoGame

LEMMA ReachedUpToGame ==
    ASSUME NEW set \in Seq(Frame), NEW n \in 1 .. Len(set),
           NoGame(set, n - 1), set[n].holds = "game"
    PROVE  Reached(set) = 1 .. n
<1>1. ASSUME NEW k \in DOMAIN set, k > n PROVE k \notin Reached(set)
  <2>1. n \in 1 .. k - 1
    BY <1>1
  <2> QED
    BY <2>1 DEF Reached
<1>2. \A k \in 1 .. n : k \in Reached(set)
  BY DEF Reached, NoGame
<1>3. \A k \in Reached(set) : k \in 1 .. Len(set)
  BY DEF Reached
<1>4. ASSUME NEW k \in Reached(set) PROVE k \in 1 .. n
  <2>1. k \in 1 .. Len(set) /\ ~(k > n)
    BY <1>1, <1>3
  <2> QED
    BY <2>1
<1> QED
  BY <1>2, <1>4

LEMMA DatagramsAreFrames == LaidOut(<<>>) /\ \A set \in Datagrams : LaidOut(set)
  BY FramesAssumption DEF LaidOut

LEMMA SizesAreNumbers ==
    ASSUME NEW set \in Seq(Frame)
    PROVE  SizeOf(set) \in Int /\ SizeOf(set) >= 4
<1>1. Len(set) + 1 \in 1 .. Len(set) + 1
  OBVIOUS
<1> QED
  BY <1>1, Starts, StartsGrow DEF SizeOf

\* No two frames start in one place.
LEMMA StartsDiffer ==
    ASSUME NEW set \in Seq(Frame), NEW j \in 1 .. Len(set) + 1, NEW k \in 1 .. Len(set) + 1,
           Start(set, j) = Start(set, k)
    PROVE  j = k
<1>1. ~(j < k) /\ ~(k < j)
  BY Starts, StartsGrow
<1> QED
  BY <1>1

\* A frame that holds no frame set ends where the next one starts, one that
\* does where some later one does.
LEMMA Ends ==
    ASSUME NEW set, LaidOut(set), NEW k \in 1 .. Len(set)
    PROVE  /\ End(set, k) \in Int /\ End(set, k) >= 4
           /\ set[k].holds # "set" => End(set, k) = Start(set, k + 1)
           /\ \E n \in 1 .. Len(set) + 1 : End(set, k) = Start(set, n)
           /\ set[k].holds = "set" =>
                  Start(set, k + 1) = Start(set, k) + HeaderSize(set[k]) + 4
<1>1. set \in Seq(Frame) /\ set[k] \in Frame
  BY DEF LaidOut
<1>2. \E n \in k + 1 .. Len(set) + 1 : End(set, k) = Start(set, n)
  BY DEF LaidOut
<1>3. \A n \in 1 .. Len(set) + 1 : Start(set, n) \in Int /\ Start(set, n) >= 4
  BY <1>1, Starts, StartsGrow
<1>4. PICK n \in 1 .. Len(set) + 1 : End(set, k) = Start(set, n)
  BY <1>2
<1>5. Start(set, k + 1) = Start(set, k) + FrameSize(set[k])
  BY <1>1, Starts
<1>6. /\ FrameSize(set[k]) = HeaderSize(set[k])
                                 + IF set[k].holds = "set" THEN 4 ELSE ContentSize(set[k])
      /\ HeaderSize(set[k]) \in Nat /\ ContentSize(set[k]) \in Nat
  BY <1>1, FrameFacts
<1>7. Start(set, k) \in Int
  BY <1>3
<1>8. /\ set[k].holds # "set" => End(set, k) = Start(set, k + 1)
      /\ set[k].holds = "set" => Start(set, k + 1) = Start(set, k) + HeaderSize(set[k]) + 4
  BY <1>5, <1>6, <1>7 DEF End
<1> QED
  BY <1>3, <1>4, <1>8

LEMMA ReadFacts ==
    ASSUME FrameTypes
    PROVE  /\ HaveRead \subseteq 1 .. Len(frames)
           /\ Len(read) \in Nat /\ Len(frames) \in Nat
           /\ read # <<>> => LastRead \in HaveRead /\ LastRead \in 1 .. Len(frames)
           /\ LastRead \in 0 .. Len(frames)
<1>1. /\ read \in Seq(Nat) /\ frames \in Seq(Frame)
      /\ \A i \in 1 .. Len(read) : read[i] \in 1 .. Len(frames)
  BY DEF FrameTypes, LaidOut
<1>2. HaveRead \subseteq 1 .. Len(frames)
  BY <1>1 DEF HaveRead
<1>3. read # <<>> => Len(read) \in 1 .. Len(read)
  BY <1>1
<1>4. read # <<>> => LastRead \in HaveRead
  BY <1>1, <1>3 DEF LastRead, HaveRead
<1> QED
  BY <1>1, <1>2, <1>4 DEF LastRead

LEMMA BehindSets ==
    ASSUME FrameTypes, NEW at, BehindSet(at)
    PROVE  at \in Int /\ at >= 4 /\ \E n \in 1 .. Len(frames) + 1 : at = Start(frames, n)
<1>1. PICK k \in 1 .. Len(frames) : at = End(frames, k)
  BY ReadFacts DEF BehindSet
<1> QED
  BY <1>1, Ends DEF FrameTypes

\* What is told of the frames that were read stays when others change.
LEMMA SameRead ==
    ASSUME UNCHANGED <<frames, read>>
    PROVE  /\ HaveRead' = HaveRead /\ LastRead' = LastRead
           /\ \A at : BehindSet(at)' <=> BehindSet(at)
           /\ \A at : Placed(at)' <=> Placed(at)
           /\ \A i : Repeated(i)' <=> Repeated(i)
           /\ acks' = acks /\ ReadSoFar => ReadSoFar'
<1>1. HaveRead' = HaveRead /\ LastRead' = LastRead
  BY DEF HaveRead, LastRead
<1>2. \A at : BehindSet(at)' <=> BehindSet(at)
  BY <1>1 DEF BehindSet
<1>3. \A at : Placed(at)' <=> Placed(at)
  BY <1>1, <1>2 DEF Placed
<1>4. \A i : Repeated(i)' <=> Repeated(i)
  BY DEF Repeated
<1> QED
  BY <1>1, <1>2, <1>3, <1>4 DEF ReadSoFar

LEMMA SameHere ==
    ASSUME UNCHANGED <<frames, read, outer, size, released>>
    PROVE  /\ \A at : Here(at)' <=> Here(at)
           /\ Calls' <=> Calls
<1>1. HaveRead' = HaveRead /\ LastRead' = LastRead
  BY SameRead
<1>2. \A at : Gone(at)' <=> Gone(at)
  BY <1>1 DEF Gone
<1>3. \A n : Progressed(n)' <=> Progressed(n)
  BY <1>1 DEF Progressed, Outermost
<1>4. \A at : Here(at)' <=> Here(at)
  BY <1>1, <1>2, <1>3, SameRead DEF Here
<1> QED
  BY <1>4, SameRead DEF Calls

LEMMA FrameInitInv == FrameInit => FrameInv
<1> SUFFICES ASSUME FrameInit PROVE FrameInv
  OBVIOUS
<1> USE DEF FrameInit
<1>0. LaidOut(<<>>)
  BY DatagramsAreFrames
<1>1. FrameTypes
  <2>1. released \in BOOLEAN
    BY Zenon
  <2>2. <<>> \in Seq(Frame) /\ <<>> \in Seq(Nat) /\ <<>> \in Seq(Call)
    BY DEF Frame
  <2> QED
    BY <1>0, <2>1, <2>2 DEF FrameTypes, None
<1>2. ReadSoFar /\ Calls
  BY NothingAcknowledged DEF ReadSoFar, Calls
<1>3. BetweenFrames /\ BehindHeader /\ BehindContent
  BY DEF BetweenFrames, BehindHeader, BehindContent
<1>4. OutsideLoop
  BY DEF OutsideLoop, Reached, HaveRead
<1>5. OnlyFramedGamesMoveReleased
  BY DEF OnlyFramedGamesMoveReleased
<1> QED
  BY <1>1, <1>2, <1>3, <1>4, <1>5 DEF FrameInv

LEMMA ReceiveSetInv ==
    ASSUME FrameInv, NEW set \in Datagrams, ReceiveSet(set)
    PROVE  FrameInv'
<1> USE DEF ReceiveSet
<1>0. LaidOut(set) /\ SizeOf(set) \in Int
  BY DatagramsAreFrames, SizesAreNumbers DEF LaidOut
<1>1. FrameTypes'
  <2>1. <<>> \in Seq(Frame) /\ <<>> \in Seq(Nat)
    BY DEF Frame
  <2>2. LaidOut(frames') /\ last' \in Seq(Frame)
    BY <1>0, <2>1 DEF FrameInv, FrameTypes
  <2>3. /\ read' \in Seq(Nat) /\ (\A i \in 1 .. Len(read') : read'[i] \in 1 .. Len(frames'))
        /\ size' \in Int /\ offset' \in Int /\ free' \in Int /\ outer' \in Seq(Call)
    BY <1>0, <2>1 DEF FrameInv, FrameTypes, None
  <2>4. released' \in BOOLEAN
    BY Zenon
  <2> QED
    BY <2>2, <2>3, <2>4 DEF FrameTypes
<1>2. ReadSoFar' /\ Calls'
  <2>1. outer = <<>>
    BY DEF FrameInv, OutsideLoop
  <2> QED
    BY <2>1, NothingAcknowledged DEF ReadSoFar, Calls
<1>3. BetweenFrames' /\ BehindHeader' /\ BehindContent'
  BY DEF BetweenFrames, BehindHeader, BehindContent
<1>4. OutsideLoop'
  BY DEF OutsideLoop, FrameInv
<1>5. OnlyFramedGamesMoveReleased'
  BY DEF OnlyFramedGamesMoveReleased, FrameInv
<1> QED
  BY <1>1, <1>2, <1>3, <1>4, <1>5 DEF FrameInv

\* A buffer released outside the loop starts at 0.
LEMMA NoneMoved == \A set : set = <<>> => {k \in Reached(set) : set[k].holds = "game"} = {}
  BY DEF Reached

LEMMA OtherUserInv ==
    ASSUME FrameInv, OtherUser
    PROVE  FrameInv'
<1> USE DEF OtherUser, ReleasedOffset
<1>1. FrameTypes'
  BY DEF FrameInv, FrameTypes, None, Frame
<1>2. ReadSoFar' /\ Calls'
  BY SameRead, SameHere DEF FrameInv
<1>3. BetweenFrames' /\ BehindHeader' /\ BehindContent'
  BY DEF BetweenFrames, BehindHeader, BehindContent
<1>4. OutsideLoop'
  BY SameRead DEF OutsideLoop, FrameInv
<1>5. OnlyFramedGamesMoveReleased'
  BY NoneMoved DEF OnlyFramedGamesMoveReleased, None
<1> QED
  BY <1>1, <1>2, <1>3, <1>4, <1>5 DEF FrameInv

LEMMA HandleOtherInv ==
    ASSUME FrameInv, HandleOther
    PROVE  FrameInv'
<1> USE DEF HandleOther, ReleasedOffset
<1>1. FrameTypes'
  BY DEF FrameInv, FrameTypes, Frame
<1>2. ReadSoFar' /\ Calls'
  BY SameRead, SameHere DEF FrameInv
<1>3. BetweenFrames' /\ BehindHeader' /\ BehindContent'
  BY DEF BetweenFrames, BehindHeader, BehindContent
<1>4. OutsideLoop'
  <2>1. read = <<>> /\ frames = <<>> /\ outer = <<>>
    BY DEF FrameInv, OutsideLoop
  <2> QED
    BY <2>1 DEF OutsideLoop, Reached, HaveRead
<1>5. OnlyFramedGamesMoveReleased'
  BY NoneMoved DEF OnlyFramedGamesMoveReleased, FrameInv
<1> QED
  BY <1>1, <1>2, <1>3, <1>4, <1>5 DEF FrameInv

LEMMA ReadSequenceInv ==
    ASSUME FrameInv, ReadSequence
    PROVE  FrameInv'
<1> USE DEF ReadSequence
<1>1. FrameTypes'
  BY DEF FrameInv, FrameTypes
<1>2. ReadSoFar' /\ Calls'
  BY SameRead, SameHere DEF FrameInv
<1>3. BetweenFrames'
  <2>1. /\ frames \in Seq(Frame) /\ read = <<>> /\ outer = <<>>
        /\ ~released /\ size = SizeOf(frames)
    BY DEF FrameInv, FrameTypes, OutsideLoop, LaidOut
  <2>2. LastRead = 0 /\ HaveRead = {}
    BY <2>1 DEF LastRead, HaveRead
  <2>3. Placed(4)
    BY <2>1, <2>2, Starts DEF Placed
  <2>4. Progressed(LastRead)
    BY <2>1, <2>2 DEF Progressed, NoGame, NoSet, Outermost
  <2>5. Here(4)
    BY <2>1, <2>3, <2>4 DEF Here
  <2> QED
    BY <2>5, SameHere DEF BetweenFrames
<1>4. BehindHeader' /\ BehindContent' /\ OutsideLoop'
  BY DEF BehindHeader, BehindContent, OutsideLoop
<1>5. OnlyFramedGamesMoveReleased'
  BY DEF OnlyFramedGamesMoveReleased, FrameInv
<1> QED
  BY <1>1, <1>2, <1>3, <1>4, <1>5 DEF FrameInv

\* A frame is read where one starts: the next one, or one behind a frame set
\* when all have been read.
LEMMA NextFrame ==
    ASSUME FrameInv, loop = "frames", offset < size
    PROVE  /\ ~released /\ size = SizeOf(frames) /\ Progressed(LastRead)
           /\ \E k \in 1 .. Len(frames) : offset = Start(frames, k)
           /\ \A k \in 1 .. Len(frames) : offset = Start(frames, k) =>
                  k = LastRead + 1 \/ (LastRead = Len(frames) /\ BehindSet(offset))
<1>1. frames \in Seq(Frame) /\ released \in BOOLEAN /\ offset \in Int
  BY DEF FrameInv, FrameTypes, LaidOut
<1>2. Here(offset)
  BY DEF FrameInv, BetweenFrames
<1>3. ~released
  BY <1>1, <1>2 DEF Here, Gone
<1>4. size = SizeOf(frames) /\ Placed(offset) /\ Progressed(LastRead)
  BY <1>2, <1>3 DEF Here
<1>5. PICK n \in 1 .. Len(frames) + 1 :
          /\ offset = Start(frames, n)
          /\ n = LastRead + 1 \/ (LastRead = Len(frames) /\ BehindSet(offset))
  BY <1>4 DEF Placed
<1>6. n \in 1 .. Len(frames)
  <2>1. n # Len(frames) + 1
    BY <1>1, <1>4, <1>5 DEF SizeOf
  <2> QED
    BY <1>5, <2>1
<1>7. ASSUME NEW k \in 1 .. Len(frames), offset = Start(frames, k) PROVE k = n
  <2>1. k \in 1 .. Len(frames) + 1 /\ Start(frames, k) = Start(frames, n)
    BY <1>5, <1>7
  <2> QED
    BY <1>1, <2>1, StartsDiffer
<1> QED
  BY <1>3, <1>4, <1>5, <1>6, <1>7

LEMMA ReadHeaderInv ==
    ASSUME FrameInv, ReadHeader
    PROVE  FrameInv'
<1>0. PICK n \in Nat : n = Len(read)
  BY DEF FrameInv, FrameTypes
<1>1. PICK k \in DOMAIN frames :
           /\ offset = Start(frames, k)
           /\ read' = Append(read, k)
           /\ bytes' = (frames[k].bits + 7) \div 8
           /\ acks' = IF IsReliable(frames[k]) THEN acks + 1 ELSE acks
           /\ offset' = offset + HeaderRead(frames[k])
  BY DEF ReadHeader
<1>2. /\ loop = "frames" /\ offset < size /\ loop' = "content"
      /\ UNCHANGED <<frames, size, released, saved, outer, free, last>>
  BY DEF ReadHeader
<1>3. /\ frames \in Seq(Frame) /\ read \in Seq(Nat) /\ offset \in Int /\ acks \in Int
      /\ k \in 1 .. Len(frames) /\ Len(frames) \in Nat /\ k \in Nat
  BY <1>1 DEF FrameInv, FrameTypes, LaidOut
<1>4. /\ ~released /\ size = SizeOf(frames) /\ Progressed(LastRead)
      /\ k = LastRead + 1 \/ (LastRead = Len(frames) /\ BehindSet(offset))
  BY <1>1, <1>2, <1>3, NextFrame
<1>5. /\ Len(read') = n + 1 /\ read' \in Seq(Nat) /\ read' # <<>> /\ read'[n + 1] = k
      /\ \A i \in 1 .. n : read'[i] = read[i]
  <2>1. read' = Append(read, k) /\ read \in Seq(Nat) /\ k \in Nat /\ n = Len(read)
    BY <1>0, <1>1, <1>3
  <2>2. Len(read') = n + 1 /\ read' \in Seq(Nat)
    BY <2>1
  <2>3. read'[n + 1] = k /\ \A i \in 1 .. n : read'[i] = read[i]
    BY <2>1
  <2>4. read' # <<>>
    BY <1>3, <2>2
  <2> QED
    BY <2>2, <2>3, <2>4
<1>6. /\ frames[k] \in Frame
      /\ HeaderRead(frames[k]) = HeaderSize(frames[k])
      /\ (frames[k].bits + 7) \div 8 = ContentSize(frames[k])
      /\ HeaderSize(frames[k]) \in Nat /\ ContentSize(frames[k]) \in Nat
      /\ IsReliable(frames[k]) <=> frames[k].reliability \in Reliable
  BY <1>3, FrameFacts
<1>7. FrameTypes'
  <2>1. bytes' \in Int /\ offset' \in Int /\ acks' \in Int
    BY <1>1, <1>3, <1>6
  <2>2. \A i \in 1 .. n + 1 : read'[i] \in 1 .. Len(frames)
    <3>1. \A i \in 1 .. n : read[i] \in 1 .. Len(frames)
      BY <1>0 DEF FrameInv, FrameTypes
    <3>2. ASSUME NEW i \in 1 .. n + 1 PROVE read'[i] \in 1 .. Len(frames)
      <4>1. i \in 1 .. n \/ i = n + 1
        BY <1>3
      <4> QED
        BY <1>3, <1>5, <3>1, <4>1
    <3> QED
      BY <3>2
  <2> QED
    BY <1>2, <1>5, <2>1, <2>2 DEF FrameInv, FrameTypes
<1>8. LastRead' = k
  BY <1>3, <1>5 DEF LastRead
<1>9. HaveRead' = HaveRead \cup {k}
  <2>1. DOMAIN read' = 1 .. n + 1 /\ DOMAIN read = 1 .. n
    BY <1>0, <1>3, <1>5
  <2>2. \A i : i \in 1 .. n + 1 <=> i \in 1 .. n \/ i = n + 1
    BY <1>3
  <2>3. HaveRead' = {read'[i] : i \in 1 .. n + 1} /\ HaveRead = {read[i] : i \in 1 .. n}
    BY <2>1 DEF HaveRead
  <2>4. \A e : e \in HaveRead' <=> e \in HaveRead \/ e = k
    BY <1>5, <2>2, <2>3
  <2> QED
    BY <2>4
<1>10. LastRead \in 0 .. Len(frames) /\ LastRead = IF n = 0 THEN 0 ELSE read[n]
  <2>1. read = <<>> <=> n = 0
    BY <1>0, <1>3
  <2> QED
    BY <1>0, <2>1, ReadFacts DEF FrameInv, LastRead
<1>11. ReadSoFar'
  <2>1. ASSUME NEW i \in 1 .. n
        PROVE  read'[i] = (IF i = 1 THEN 1 ELSE read'[i - 1] + 1) \/ Repeated(i)'
    <3>1. read[i] = (IF i = 1 THEN 1 ELSE read[i - 1] + 1) \/ Repeated(i)
      BY <1>0 DEF FrameInv, ReadSoFar
    <3>2. i > 1 => read'[i - 1] = read[i - 1]
      BY <1>3, <1>5
    <3>3. \A j \in 1 .. i - 1 : read'[j] = read[j]
      BY <1>3, <1>5
    <3>4. Repeated(i) => Repeated(i)'
      BY <1>2, <1>5, <3>2, <3>3 DEF Repeated
    <3> QED
      BY <1>5, <3>1, <3>2, <3>4
  <2>2. read'[n + 1] = (IF n + 1 = 1 THEN 1 ELSE read'[(n + 1) - 1] + 1) \/ Repeated(n + 1)'
    <3>1. CASE k = LastRead + 1
      <4>1. n # 0 => read'[(n + 1) - 1] = read[n]
        BY <1>3, <1>5
      <4> QED
        BY <1>3, <1>5, <1>10, <3>1, <4>1
    <3>2. CASE LastRead = Len(frames) /\ BehindSet(offset)
      <4>1. n # 0
        BY <1>3, <1>10, <3>2
      <4>2. PICK s \in HaveRead : frames[s].holds = "set" /\ offset = End(frames, s)
        BY <3>2 DEF BehindSet
      <4>3. PICK j \in 1 .. n : s = read[j]
        BY <1>0, <1>3, <4>2 DEF HaveRead
      <4>4. /\ n + 1 > 1 /\ j \in 1 .. (n + 1) - 1 /\ read'[j] = s
            /\ read'[(n + 1) - 1] = Len(frames)
        BY <1>3, <1>5, <1>10, <3>2, <4>1, <4>3
      <4>5. Start(frames, read'[n + 1]) = End(frames, read'[j])
        BY <1>1, <1>5, <4>2, <4>4
      <4>6. \E i \in 1 .. (n + 1) - 1 :
                /\ frames'[read'[i]].holds = "set"
                /\ Start(frames', read'[n + 1]) = End(frames', read'[i])
        BY <1>2, <4>2, <4>4, <4>5
      <4>7. n + 1 > 1 /\ read'[(n + 1) - 1] = Len(frames')
        BY <1>2, <4>4
      <4> QED
        BY <4>6, <4>7 DEF Repeated
    <3> QED
      BY <1>4, <3>1, <3>2
  <2>3. acks' = Cardinality(Acknowledged(frames, read', n + 1))
    <3>1. acks = Cardinality(Acknowledged(frames, read', n))
      <4>1. acks = Cardinality(Acknowledged(frames, read, n))
        BY <1>0 DEF FrameInv, ReadSoFar
      <4>2. Acknowledged(frames, read', n) = Acknowledged(frames, read, n)
        BY <1>5, SameAcknowledged
      <4> QED
        BY <4>1, <4>2
    <3>2. acks' = acks + IF frames[read'[n + 1]].reliability \in Reliable THEN 1 ELSE 0
      BY <1>1, <1>3, <1>5, <1>6
    <3> QED
      BY <1>3, <3>1, <3>2, AcknowledgedGrows
  <2>4. ASSUME NEW i \in 1 .. n + 1
        PROVE  read'[i] = (IF i = 1 THEN 1 ELSE read'[i - 1] + 1) \/ Repeated(i)'
    <3>1. i \in 1 .. n \/ i = n + 1
      BY <1>3
    <3> QED
      BY <2>1, <2>2, <3>1
  <2> QED
    BY <1>2, <1>5, <2>3, <2>4 DEF ReadSoFar
<1>12. Calls'
  <2>1. \A at : BehindSet(at) => BehindSet(at)'
    BY <1>2, <1>9 DEF BehindSet
  <2> QED
    BY <1>2, <2>1 DEF Calls, FrameInv
<1>13. Progressed(k - 1)'
  <2>1. CASE HaveRead = 1 .. Len(frames) /\ NoGame(frames, Len(frames))
    <3>1. HaveRead' = 1 .. Len(frames)
      BY <1>3, <1>9, <2>1
    <3> QED
      BY <1>2, <2>1, <3>1 DEF Progressed
  <2>2. CASE HaveRead = 1 .. LastRead /\ NoGame(frames, LastRead) /\ Outermost(LastRead)
    <3>1. CASE k = LastRead + 1
      <4>1. HaveRead' = 1 .. k /\ k - 1 = LastRead
        BY <1>3, <1>9, <1>10, <2>2, <3>1
      <4>2. Outermost(k - 1)'
        BY <1>2, <2>2, <4>1 DEF Outermost
      <4> QED
        BY <1>2, <1>8, <2>2, <4>1, <4>2 DEF Progressed
    <3>2. CASE LastRead = Len(frames)
      <4>1. HaveRead' = 1 .. Len(frames)
        BY <1>3, <1>9, <2>2, <3>2
      <4> QED
        BY <1>2, <2>2, <3>2, <4>1 DEF Progressed
    <3> QED
      BY <1>4, <3>1, <3>2
  <2> QED
    BY <1>4, <2>1, <2>2 DEF Progressed
<1>14. BehindHeader'
  <2>1. offset' = Start(frames, k) + HeaderSize(frames[k]) /\ bytes' = ContentSize(frames[k])
    BY <1>1, <1>6
  <2> QED
    BY <1>2, <1>4, <1>5, <1>8, <1>13, <2>1 DEF BehindHeader
<1>15. BetweenFrames' /\ BehindContent' /\ OutsideLoop'
  BY <1>2 DEF BetweenFrames, BehindContent, OutsideLoop
<1>16. OnlyFramedGamesMoveReleased'
  BY <1>2 DEF OnlyFramedGamesMoveReleased, FrameInv
<1> QED
  BY <1>7, <1>11, <1>12, <1>14, <1>15, <1>16 DEF FrameInv

\* Nothing is misread within a datagram whose start was found.
LEMMA MisreadInv ==
    ASSUME FrameInv, Misread
    PROVE  FrameInv'
<1>1. loop = "id" /\ loop' = "lost"
  <2>1. CASE loop = "frames" /\ offset < size /\ \A k \in DOMAIN frames : offset # Start(frames, k)
    <3>1. DOMAIN frames = 1 .. Len(frames)
      BY DEF FrameInv, FrameTypes, LaidOut
    <3> QED
      BY <2>1, <3>1, NextFrame
  <2> QED
    BY <2>1 DEF Misread
<1>2. UNCHANGED <<frames, size, offset, released, saved, bytes, outer, read, acks, free, last>>
  BY DEF Misread
<1>3. FrameTypes'
  BY <1>1, <1>2 DEF FrameInv, FrameTypes
<1>4. ReadSoFar' /\ Calls'
  BY <1>2, SameRead, SameHere DEF FrameInv
<1>5. BetweenFrames' /\ BehindHeader' /\ BehindContent'
  BY <1>1 DEF BetweenFrames, BehindHeader, BehindContent
<1>6. OutsideLoop'
  BY <1>1, <1>2 DEF OutsideLoop, FrameInv
<1>7. OnlyFramedGamesMoveReleased'
  BY <1>2 DEF OnlyFramedGamesMoveReleased, FrameInv
<1> QED
  BY <1>3, <1>4, <1>5, <1>6, <1>7 DEF FrameInv

\* The frame whose content is handled.
LEMMA ThisFrame ==
    ASSUME FrameInv, loop = "content"
    PROVE  /\ LastRead \in 1 .. Len(frames) /\ LastRead \in HaveRead /\ This = frames[LastRead]
           /\ frames[LastRead] \in Frame
           /\ offset + bytes = End(frames, LastRead)
           /\ Start(frames, LastRead) \in Int
           /\ ~released /\ size = SizeOf(frames) /\ Progressed(LastRead - 1)
<1>1. /\ frames \in Seq(Frame) /\ LaidOut(frames) /\ read # <<>>
      /\ ~released /\ size = SizeOf(frames) /\ Progressed(LastRead - 1)
      /\ offset = Start(frames, LastRead) + HeaderSize(frames[LastRead])
      /\ bytes = ContentSize(frames[LastRead])
  BY DEF FrameInv, FrameTypes, LaidOut, BehindHeader
<1>2. LastRead \in 1 .. Len(frames) /\ LastRead \in HaveRead /\ LastRead = read[Len(read)]
  BY <1>1, ReadFacts DEF FrameInv, LastRead
<1>3. This = frames[LastRead]
  BY <1>2 DEF This
<1>4. frames[LastRead] \in Frame /\ Start(frames, LastRead) \in Int
  BY <1>1, <1>2, Starts
<1> QED
  BY <1>1, <1>2, <1>3, <1>4 DEF End

\* The first game packet is handled.
LEMMA GameGone ==
    ASSUME FrameInv, loop = "content", This.holds = "game"
    PROVE  /\ HaveRead = 1 .. LastRead /\ NoGame(frames, LastRead - 1)
           /\ \E k \in 1 .. LastRead :
                  /\ FirstTaker(frames, k)
                  /\ End(frames, k) =
                         IF outer = <<>> THEN offset + bytes ELSE outer[1].offset + outer[1].bytes
<1>1. /\ LastRead \in 1 .. Len(frames) /\ frames[LastRead].holds = "game"
      /\ offset + bytes = End(frames, LastRead) /\ Progressed(LastRead - 1)
  BY ThisFrame
<1>2. ~NoGame(frames, Len(frames))
  BY <1>1 DEF NoGame
<1>3. HaveRead = 1 .. LastRead /\ NoGame(frames, LastRead - 1) /\ Outermost(LastRead - 1)
  BY <1>1, <1>2 DEF Progressed
<1>4. CASE outer = <<>>
  <2>1. FirstTaker(frames, LastRead)
    BY <1>1, <1>3, <1>4 DEF FirstTaker, Outermost
  <2> QED
    BY <1>1, <1>3, <1>4, <2>1
<1>5. CASE outer # <<>>
  <2>1. PICK k \in 1 .. LastRead - 1 :
            /\ frames[k].holds = "set" /\ NoSet(frames, k - 1)
            /\ outer[1].offset + outer[1].bytes = End(frames, k)
    BY <1>3, <1>5 DEF Outermost
  <2>2. FirstTaker(frames, k)
    BY <1>1, <1>3, <2>1 DEF FirstTaker, NoGame
  <2>3. k \in 1 .. LastRead
    BY <1>1, <2>1
  <2> QED
    BY <1>3, <1>5, <2>1, <2>2, <2>3
<1> QED
  BY <1>3, <1>4, <1>5

LEMMA HandleContentInv ==
    ASSUME FrameInv, HandleContent
    PROVE  FrameInv'
<1>1. /\ loop = "content" /\ loop' = "advance" /\ saved' = offset
      /\ UNCHANGED <<frames, bytes, outer, read, acks, free, last>>
  BY DEF HandleContent
<1>2. /\ frames \in Seq(Frame) /\ offset \in Int /\ bytes \in Int /\ size \in Int
      /\ LaidOut(frames)
  BY DEF FrameInv, FrameTypes, LaidOut
<1>3. /\ LastRead \in 1 .. Len(frames) /\ This = frames[LastRead]
      /\ offset + bytes = End(frames, LastRead)
      /\ ~released /\ size = SizeOf(frames) /\ Progressed(LastRead - 1)
  BY <1>1, ThisFrame
<1>4. /\ offset' \in Int
      /\ \/ This.holds \notin {"game", "set"} /\ UNCHANGED <<size, released>>
         \/ This.holds = "game" /\ size' = 0 /\ released' = TRUE
  <2>1. CASE This.holds = "part" /\ offset' = offset /\ UNCHANGED <<size, released>>
    BY <1>2, <2>1
  <2>2. CASE /\ This.holds = "other"
             /\ \E start \in {offset + 1, 17}, n \in 0 .. MaxRead : offset' = start + n
             /\ UNCHANGED <<size, released>>
    BY <1>2, <2>2, FramesAssumption
  <2>3. CASE /\ This.holds = "game"
             /\ offset' = ReleasedOffset(offset + 1) /\ size' = 0 /\ released' = TRUE
    BY <2>3 DEF ReleasedOffset
  <2> QED
    BY <2>1, <2>2, <2>3 DEF HandleContent
<1>5. FrameTypes'
  <2>1. size' \in Int /\ saved' \in Int
    BY <1>1, <1>2, <1>4
  <2>2. released' \in BOOLEAN
    BY <1>4, Zenon DEF FrameInv, FrameTypes
  <2> QED
    BY <1>1, <1>4, <2>1, <2>2 DEF FrameInv, FrameTypes
<1>6. ReadSoFar' /\ HaveRead' = HaveRead /\ LastRead' = LastRead
  BY <1>1, SameRead DEF FrameInv
<1>7. Calls'
  BY <1>1, SameRead DEF Calls, FrameInv
<1>8. Here(saved + bytes)'
  <2>1. PICK at : at = offset + bytes
    OBVIOUS
  <2>2. (saved + bytes)' = at
    BY <1>1, <2>1
  <2>3. CASE This.holds \notin {"game", "set"} /\ UNCHANGED <<size, released>>
    <3>1. at = Start(frames, LastRead + 1)
      BY <1>2, <1>3, <2>1, <2>3, Ends
    <3>2. Placed(at)
      BY <1>3, <3>1 DEF Placed
    <3>3. Progressed(LastRead)
      <4>1. NoGame(frames, LastRead - 1) => NoGame(frames, LastRead)
        BY <1>3, <2>3 DEF NoGame
      <4>2. NoSet(frames, LastRead - 1) => NoSet(frames, LastRead)
        BY <1>3, <2>3 DEF NoSet
      <4>3. Outermost(LastRead - 1) => Outermost(LastRead)
        BY <1>3, <4>2 DEF Outermost
      <4> QED
        BY <1>3, <4>1, <4>3 DEF Progressed
    <3>4. Here(at)
      BY <1>3, <3>2, <3>3 DEF Here
    <3>5. Here(at)'
      BY <1>1, <2>3, <3>4, SameHere
    <3> QED
      BY <2>2, <3>5 DEF Here, Placed, BehindSet, Gone
  <2>4. CASE This.holds = "game" /\ size' = 0 /\ released' = TRUE
    <3>1. /\ HaveRead = 1 .. LastRead /\ NoGame(frames, LastRead - 1)
          /\ \E k \in 1 .. LastRead :
                 /\ FirstTaker(frames, k)
                 /\ End(frames, k) =
                        IF outer = <<>> THEN at ELSE outer[1].offset + outer[1].bytes
      BY <1>1, <2>1, <2>4, GameGone
    <3>2. at >= 4
      BY <1>2, <1>3, <2>1, Ends
    <3>3. Gone(at)'
      BY <1>1, <1>3, <1>6, <2>4, <3>1, <3>2 DEF Gone
    <3>4. Here(at)'
      BY <2>4, <3>3 DEF Here
    <3> QED
      BY <2>2, <3>4 DEF Here, Placed, BehindSet, Gone
  <2> QED
    BY <1>4, <2>3, <2>4
<1>9. BehindContent'
  BY <1>8 DEF BehindContent
<1>10. BetweenFrames' /\ BehindHeader' /\ OutsideLoop'
  BY <1>1 DEF BetweenFrames, BehindHeader, OutsideLoop
<1>11. OnlyFramedGamesMoveReleased'
  BY <1>1 DEF OnlyFramedGamesMoveReleased, FrameInv
<1> QED
  BY <1>5, <1>6, <1>7, <1>9, <1>10, <1>11 DEF FrameInv

\* A loop within the loop: the first of them is kept outermost.
LEMMA EnterSetInv ==
    ASSUME FrameInv, EnterSet
    PROVE  FrameInv'
<1>1. /\ loop = "content" /\ loop' = "frames" /\ This.holds = "set" /\ offset' = offset + 4
      /\ outer' = Append(outer, [offset |-> offset, bytes |-> bytes])
      /\ UNCHANGED <<frames, size, released, saved, bytes, read, acks, free, last>>
  BY DEF EnterSet
<1>2. /\ frames \in Seq(Frame) /\ offset \in Int /\ bytes \in Int
      /\ LaidOut(frames) /\ outer \in Seq(Call)
  BY DEF FrameInv, FrameTypes, LaidOut
<1>3. /\ LastRead \in 1 .. Len(frames) /\ LastRead \in HaveRead /\ frames[LastRead].holds = "set"
      /\ offset + bytes = End(frames, LastRead)
      /\ ~released /\ size = SizeOf(frames) /\ Progressed(LastRead - 1)
      /\ offset = Start(frames, LastRead) + HeaderSize(frames[LastRead])
  BY <1>1, ThisFrame DEF FrameInv, BehindHeader
<1>4. PICK call \in Call : call = [offset |-> offset, bytes |-> bytes]
  BY <1>2 DEF Call
<1>5. PICK c \in Nat : c = Len(outer)
  BY <1>2
<1>6. /\ outer' \in Seq(Call) /\ outer' # <<>> /\ Len(outer') = c + 1 /\ outer'[c + 1] = call
      /\ \A i \in 1 .. c : outer'[i] = outer[i]
      /\ call.offset + call.bytes = End(frames, LastRead)
  <2>1. outer' = Append(outer, call) /\ outer \in Seq(Call) /\ c = Len(outer)
    BY <1>1, <1>2, <1>4, <1>5
  <2>2. outer' \in Seq(Call) /\ Len(outer') = c + 1
    BY <2>1
  <2>3. outer'[c + 1] = call /\ \A i \in 1 .. c : outer'[i] = outer[i]
    BY <2>1
  <2>4. outer' # <<>>
    BY <1>5, <2>2
  <2> QED
    BY <1>3, <1>4, <2>2, <2>3, <2>4
<1>7. FrameTypes'
  BY <1>1, <1>2, <1>6 DEF FrameInv, FrameTypes
<1>8. ReadSoFar' /\ HaveRead' = HaveRead /\ LastRead' = LastRead
  BY <1>1, SameRead DEF FrameInv
<1>9. Calls'
  <2>1. ASSUME NEW i \in 1 .. c + 1
        PROVE  BehindSet(outer'[i].offset + outer'[i].bytes)
    <3>1. CASE i = c + 1
      <4>1. BehindSet(call.offset + call.bytes)
        BY <1>3, <1>6 DEF BehindSet
      <4> QED
        BY <1>6, <3>1, <4>1
    <3>2. CASE i # c + 1
      <4>1. i \in 1 .. c
        BY <1>5, <3>2
      <4>2. BehindSet(outer[i].offset + outer[i].bytes)
        BY <1>5, <4>1 DEF FrameInv, Calls
      <4> QED
        BY <1>6, <4>1, <4>2
    <3> QED
      BY <3>1, <3>2
  <2> QED
    BY <1>1, <1>6, <1>8, <2>1 DEF Calls, BehindSet
<1>10. Outermost(LastRead - 1) => Outermost(LastRead)'
  <2> SUFFICES ASSUME Outermost(LastRead - 1) PROVE Outermost(LastRead)'
    OBVIOUS
  <2>1. ASSUME NEW k \in 1 .. LastRead, frames[k].holds = "set", NoSet(frames, k - 1),
               outer'[1].offset + outer'[1].bytes = End(frames, k)
        PROVE  Outermost(LastRead)'
    BY <1>1, <1>6, <1>8, <2>1 DEF Outermost
  <2>2. CASE outer = <<>>
    <3>1. c + 1 = 1
      BY <1>5, <2>2
    <3>2. NoSet(frames, LastRead - 1)
      BY <2>2 DEF Outermost
    <3> QED
      BY <1>3, <1>6, <2>1, <3>1, <3>2
  <2>3. CASE outer # <<>>
    <3>1. 1 \in 1 .. c
      BY <1>2, <1>5, <2>3
    <3>2. PICK k \in 1 .. LastRead - 1 :
              /\ frames[k].holds = "set" /\ NoSet(frames, k - 1)
              /\ outer[1].offset + outer[1].bytes = End(frames, k)
      BY <2>3 DEF Outermost
    <3>3. k \in 1 .. LastRead
      BY <1>3, <3>2
    <3> QED
      BY <1>6, <2>1, <3>1, <3>2, <3>3
  <2> QED
    BY <2>2, <2>3
<1>11. Progressed(LastRead)'
  <2>1. NoGame(frames, LastRead - 1) => NoGame(frames, LastRead)
    BY <1>3 DEF NoGame
  <2> QED
    BY <1>1, <1>3, <1>8, <1>10, <2>1 DEF Progressed
<1>12. Placed(offset)'
  <2>1. offset' = Start(frames, LastRead + 1)
    BY <1>1, <1>2, <1>3, Ends
  <2> QED
    BY <1>1, <1>3, <1>8, <2>1 DEF Placed
<1>13. BetweenFrames'
  BY <1>1, <1>3, <1>11, <1>12 DEF BetweenFrames, Here
<1>14. BehindContent' /\ BehindHeader' /\ OutsideLoop'
  BY <1>1 DEF BehindContent, BehindHeader, OutsideLoop
<1>15. OnlyFramedGamesMoveReleased'
  BY <1>1 DEF OnlyFramedGamesMoveReleased, FrameInv
<1> QED
  BY <1>7, <1>8, <1>9, <1>13, <1>14, <1>15 DEF FrameInv

LEMMA AdvanceInv ==
    ASSUME FrameInv, Advance
    PROVE  FrameInv'
<1>1. /\ loop = "advance" /\ loop' = "frames" /\ offset' = saved + bytes
      /\ UNCHANGED <<frames, size, released, saved, bytes, outer, read, acks, free, last>>
  BY DEF Advance
<1>2. FrameTypes'
  BY <1>1 DEF FrameInv, FrameTypes
<1>3. ReadSoFar' /\ Calls'
  BY <1>1, SameRead, SameHere DEF FrameInv
<1>4. BetweenFrames'
  <2>1. PICK at : at = saved + bytes
    OBVIOUS
  <2>2. Here(at)
    BY <1>1, <2>1 DEF FrameInv, BehindContent
  <2>3. Here(at)'
    BY <1>1, <2>2, SameHere
  <2> QED
    BY <1>1, <2>1, <2>3 DEF BetweenFrames, Here, Placed, BehindSet, Gone
<1>5. BehindHeader' /\ BehindContent' /\ OutsideLoop'
  BY <1>1 DEF BehindHeader, BehindContent, OutsideLoop
<1>6. OnlyFramedGamesMoveReleased'
  BY <1>1 DEF OnlyFramedGamesMoveReleased, FrameInv
<1> QED
  BY <1>2, <1>3, <1>4, <1>5, <1>6 DEF FrameInv

\* Where a loop ends, the last frame has been read.
LEMMA AllRead ==
    ASSUME FrameInv, loop = "frames", ~(offset < size), ~released
    PROVE  /\ LastRead = Len(frames) /\ HaveRead = 1 .. Len(frames)
           /\ NoGame(frames, Len(frames))
<1>1. /\ frames \in Seq(Frame) /\ LastRead \in 0 .. Len(frames) /\ offset \in Int /\ size \in Int
      /\ Len(frames) \in Nat
  BY ReadFacts DEF FrameInv, FrameTypes, LaidOut
<1>2. size = SizeOf(frames) /\ Placed(offset) /\ Progressed(LastRead)
  BY DEF FrameInv, BetweenFrames, Here
<1>3. PICK k \in 1 .. Len(frames) + 1 :
          offset = Start(frames, k) /\ (k = LastRead + 1 \/ LastRead = Len(frames))
  BY <1>2 DEF Placed
<1>4. ~(k < Len(frames) + 1)
  <2>1. Len(frames) + 1 \in 1 .. Len(frames) + 1
    BY <1>1
  <2> QED
    BY <1>1, <1>2, <1>3, <2>1, StartsGrow DEF SizeOf
<1>5. LastRead = Len(frames)
  BY <1>1, <1>3, <1>4
<1> QED
  BY <1>2, <1>5 DEF Progressed

\* The loop within a frame ends: what is behind that frame is read again.
LEMMA LeaveSetInv ==
    ASSUME FrameInv, LeaveSet
    PROVE  FrameInv'
<1>0. PICK c \in Nat : c = Len(outer)
  BY DEF FrameInv, FrameTypes
<1>1. /\ loop = "frames" /\ ~(offset < size) /\ loop' = "advance"
      /\ outer # <<>> /\ outer' = SubSeq(outer, 1, c - 1)
      /\ saved' = outer[c].offset /\ bytes' = outer[c].bytes
      /\ UNCHANGED <<frames, size, offset, released, read, acks, free, last>>
  BY <1>0 DEF LeaveSet
<1>2. outer \in Seq(Call) /\ c \in 1 .. c /\ outer[c] \in Call
  BY <1>0, <1>1 DEF FrameInv, FrameTypes
<1>3. /\ outer' \in Seq(Call) /\ Len(outer') = c - 1 /\ (outer' = <<>> <=> c = 1)
      /\ \A i \in 1 .. c - 1 : outer'[i] = outer[i]
  <2>1. outer' \in Seq(Call) /\ Len(outer') = c - 1
    BY <1>0, <1>1, <1>2
  <2>2. \A i \in 1 .. c - 1 : outer'[i] = outer[i]
    BY <1>0, <1>1, <1>2
  <2> QED
    BY <1>2, <2>1, <2>2
<1>4. FrameTypes'
  <2>1. saved' \in Int /\ bytes' \in Int
    BY <1>1, <1>2 DEF Call
  <2> QED
    BY <1>1, <1>3, <2>1 DEF FrameInv, FrameTypes
<1>5. ReadSoFar' /\ HaveRead' = HaveRead /\ LastRead' = LastRead
  BY <1>1, SameRead DEF FrameInv
<1>6. Calls'
  <2>1. ASSUME NEW i \in 1 .. c - 1
        PROVE  BehindSet(outer'[i].offset + outer'[i].bytes)
    <3>1. BehindSet(outer[i].offset + outer[i].bytes)
      BY <1>0 DEF FrameInv, Calls
    <3> QED
      BY <1>3, <3>1
  <2> QED
    BY <1>1, <1>3, <1>5, <2>1 DEF Calls, BehindSet
<1>7. PICK at : at = outer[c].offset + outer[c].bytes
  OBVIOUS
<1>8. BehindSet(at) /\ at >= 4 /\ \E n \in 1 .. Len(frames) + 1 : at = Start(frames, n)
  <2>1. BehindSet(at)
    BY <1>0, <1>2, <1>7 DEF FrameInv, Calls
  <2> QED
    BY <2>1, BehindSets DEF FrameInv
<1>9. Here(at)'
  <2>1. CASE ~released
    <3>1. /\ LastRead = Len(frames) /\ HaveRead = 1 .. Len(frames)
          /\ NoGame(frames, Len(frames)) /\ size = SizeOf(frames)
      BY <1>1, <2>1, AllRead DEF FrameInv, BetweenFrames, Here
    <3>2. Placed(at)'
      BY <1>1, <1>8, <3>1, SameRead DEF Placed
    <3>3. Progressed(LastRead)'
      BY <1>1, <1>5, <3>1 DEF Progressed
    <3> QED
      BY <1>1, <2>1, <3>1, <3>2, <3>3 DEF Here
  <2>2. CASE released
    <3>1. Gone(offset)
      BY <1>1, <2>2 DEF FrameInv, BetweenFrames, Here
    <3>2. \E k \in 1 .. LastRead :
              FirstTaker(frames, k) /\ End(frames, k) = outer[1].offset + outer[1].bytes
      BY <1>1, <3>1 DEF Gone
    <3>3. c = 1 => outer[1].offset + outer[1].bytes = at
      BY <1>7
    <3>4. c # 1 => outer'[1] = outer[1]
      BY <1>2, <1>3
    <3>5. Gone(at)'
      BY <1>1, <1>3, <1>5, <1>8, <3>1, <3>2, <3>3, <3>4 DEF Gone
    <3> QED
      BY <1>1, <2>2, <3>5 DEF Here
  <2> QED
    BY <2>1, <2>2
<1>10. BehindContent'
  <2>1. (saved + bytes)' = at
    BY <1>1, <1>7
  <2> QED
    BY <1>9, <2>1 DEF BehindContent, Here, Placed, BehindSet, Gone
<1>11. BetweenFrames' /\ BehindHeader' /\ OutsideLoop'
  BY <1>1 DEF BetweenFrames, BehindHeader, OutsideLoop
<1>12. OnlyFramedGamesMoveReleased'
  BY <1>1 DEF OnlyFramedGamesMoveReleased, FrameInv
<1> QED
  BY <1>4, <1>5, <1>6, <1>10, <1>11, <1>12 DEF FrameInv

LEMMA EndOfSetInv ==
    ASSUME FrameInv, EndOfSet
    PROVE  FrameInv'
<1>1. /\ loop = "frames" /\ ~(offset < size) /\ loop' = "receive" /\ outer = <<>>
      /\ \/ released /\ free' = offset /\ last' = frames
         \/ UNCHANGED <<free, last>>
      /\ UNCHANGED <<frames, size, offset, released, saved, bytes, outer, read, acks>>
  BY DEF EndOfSet
<1>2. /\ frames \in Seq(Frame) /\ offset \in Int /\ released \in BOOLEAN
  BY DEF FrameInv, FrameTypes, LaidOut
<1>3. ~released => HaveRead = Reached(frames)
  BY <1>1, <1>2, AllRead, ReachedAll
<1>4. released => /\ HaveRead = Reached(frames) /\ Reached(frames) = 1 .. LastRead
                  /\ LastRead \in 1 .. Len(frames) /\ frames[LastRead].holds = "game"
                  /\ \E k \in 1 .. LastRead : FirstTaker(frames, k) /\ End(frames, k) = offset
  <2> SUFFICES ASSUME released
               PROVE  /\ HaveRead = Reached(frames) /\ Reached(frames) = 1 .. LastRead
                      /\ LastRead \in 1 .. Len(frames) /\ frames[LastRead].holds = "game"
                      /\ \E k \in 1 .. LastRead : FirstTaker(frames, k) /\ End(frames, k) = offset
    OBVIOUS
  <2>1. Gone(offset)
    BY <1>1 DEF FrameInv, BetweenFrames, Here
  <2>2. Reached(frames) = 1 .. LastRead
    BY <1>2, <2>1, ReachedUpToGame DEF Gone
  <2> QED
    BY <1>1, <2>1, <2>2 DEF Gone
<1>5. FrameTypes'
  BY <1>1 DEF FrameInv, FrameTypes, LaidOut
<1>6. ReadSoFar' /\ Calls' /\ HaveRead' = HaveRead
  BY <1>1, SameRead, SameHere DEF FrameInv
<1>7. BetweenFrames' /\ BehindHeader' /\ BehindContent'
  BY <1>1 DEF BetweenFrames, BehindHeader, BehindContent
<1>8. OutsideLoop'
  <2>1. Reached(frames') = Reached(frames)
    BY <1>1
  <2> QED
    BY <1>1, <1>2, <1>3, <1>4, <1>6, <2>1 DEF OutsideLoop
<1>9. OnlyFramedGamesMoveReleased'
  <2>1. CASE UNCHANGED <<free, last>>
    BY <2>1 DEF OnlyFramedGamesMoveReleased, FrameInv
  <2>2. CASE released /\ free' = offset /\ last' = frames
    <3> DEFINE Takers == {k \in Reached(frames) : frames[k].holds \in {"game", "set"}}
    <3>1. LastRead \in {k \in Reached(frames) : frames[k].holds = "game"}
      BY <1>4, <2>2
    <3>2. PICK k \in 1 .. LastRead : FirstTaker(frames, k) /\ End(frames, k) = offset
      BY <1>4, <2>2
    <3>3. k \in Takers
      BY <1>4, <2>2, <3>2 DEF FirstTaker
    <3>4. ASSUME NEW j \in Takers PROVE k <= j
      <4>1. j \in 1 .. LastRead /\ LastRead \in Nat
        BY <1>4, <2>2
      <4>2. j \notin 1 .. k - 1
        BY <3>2 DEF FirstTaker, NoGame, NoSet
      <4> QED
        BY <4>1, <4>2
    <3>5. free' = End(last', k)
      BY <2>2, <3>2
    <3>6. \E n \in Takers : (\A j \in Takers : n <= j) /\ free' = End(last', n)
      BY <3>3, <3>4, <3>5
    <3>7. last' = frames
      BY <2>2
    <3> QED
      BY <3>1, <3>6, <3>7 DEF OnlyFramedGamesMoveReleased
  <2> QED
    BY <1>1, <2>1, <2>2
<1> QED
  BY <1>5, <1>6, <1>7, <1>8, <1>9 DEF FrameInv

LEMMA FrameStutter ==
    ASSUME FrameInv, UNCHANGED frameVars
    PROVE  FrameInv'
<1> USE DEF frameVars
<1>1. FrameTypes'
  BY DEF FrameInv, FrameTypes
<1>2. /\ ReadSoFar' /\ Calls' /\ HaveRead' = HaveRead /\ LastRead' = LastRead
      /\ \A at : Here(at)' <=> Here(at)
  BY SameRead, SameHere DEF FrameInv
<1>3. BetweenFrames' /\ BehindHeader' /\ BehindContent' /\ OutsideLoop'
  <2>1. Here(offset)' <=> Here(offset)
    BY DEF Here, Placed, BehindSet, Gone, HaveRead, LastRead, Progressed, Outermost
  <2>2. Here(saved + bytes)' <=> Here(saved + bytes)
    BY DEF Here, Placed, BehindSet, Gone, HaveRead, LastRead, Progressed, Outermost
  <2>3. Progressed(LastRead - 1)' <=> Progressed(LastRead - 1)
    BY <1>2 DEF Progressed, Outermost
  <2> QED
    BY <1>2, <2>1, <2>2, <2>3
       DEF FrameInv, BetweenFrames, BehindHeader, BehindContent, OutsideLoop
<1>4. OnlyFramedGamesMoveReleased'
  BY DEF OnlyFramedGamesMoveReleased, FrameInv
<1> QED
  BY <1>1, <1>2, <1>3, <1>4 DEF FrameInv

LEMMA FrameStepInv == FrameInv /\ [FrameNext]_frameVars => FrameInv'
<1> SUFFICES ASSUME FrameInv, [FrameNext]_frameVars PROVE FrameInv'
  OBVIOUS
<1> QED
  BY ReceiveSetInv, OtherUserInv, HandleOtherInv, ReadSequenceInv, ReadHeaderInv, MisreadInv,
     HandleContentInv, EnterSetInv, AdvanceInv, LeaveSetInv, EndOfSetInv, FrameStutter
     DEF FrameNext

LEMMA FrameInvHolds == FrameSpec => []FrameInv
  BY FrameInitInv, FrameStepInv, PTL DEF FrameSpec

\* The loop over a frame set in handle reads headers where the client put them,
\* acknowledges the reliable ones each time, and ends when it has been through
\* all frames up to a game packet, wherever the handlers of the contents leave
\* offset.  Only behind a frame set within a frame does it read twice.
THEOREM FramesReadInOrderHolds == FrameSpec => []FramesReadInOrder
<1>1. FrameInv => FramesReadInOrder
  <2> SUFFICES ASSUME FrameInv PROVE FramesReadInOrder
    OBVIOUS
  <2>1. /\ read \in Seq(Nat) /\ DOMAIN read = 1 .. Len(read)
        /\ \A i \in 1 .. Len(read) :
               read[i] = (IF i = 1 THEN 1 ELSE read[i - 1] + 1) \/ Repeated(i)
        /\ acks = Cardinality(Acknowledged(frames, read, Len(read)))
    BY DEF FrameInv, FrameTypes, ReadSoFar
  <2>2. Acknowledged(frames, read, Len(read))
            = {i \in DOMAIN read : frames[read[i]].reliability \in Reliable}
    BY <2>1 DEF Acknowledged
  <2>3. loop = "lost" => read = <<>>
    BY DEF FrameInv, OutsideLoop
  <2>4. loop = "receive" => {read[i] : i \in DOMAIN read} = Reached(frames)
    BY DEF FrameInv, OutsideLoop, HaveRead
  <2> QED
    BY <2>1, <2>2, <2>3, <2>4 DEF FramesReadInOrder
<1> QED
  BY <1>1, FrameInvHolds, PTL

\* Only a game packet within a frame leaves a released buffer that does not
\* start at 0, and it leaves it behind the frame that the outermost loop is at:
\* the loops set offset again after the buffer has gone to the pool.
THEOREM OnlyFramedGamesMoveReleasedHolds == FrameSpec => []OnlyFramedGamesMoveReleased
<1>1. FrameInv => OnlyFramedGamesMoveReleased
  BY DEF FrameInv
<1> QED
  BY <1>1, FrameInvHolds, PTL
=============================================================================
