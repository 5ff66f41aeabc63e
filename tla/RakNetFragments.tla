-------------------------- MODULE RakNetFragments ---------------------------
(***************************************************************************)
(* Reassembly of fragmented packets in RakNetPacketHandler::handle.         *)
(*                                                                          *)
(* A peer cuts a packet into parts, sends each in a datagram of its own and *)
(* numbers its packets from 0, modulo 2^16.  Datagrams are lost, delayed    *)
(* and delivered twice.  FRAGMENTS has one entry per packet number, shared  *)
(* by all peers; the part with the highest index completes a packet.        *)
(*                                                                          *)
(* A part that is not there is an uninitialised pointer.  Reading it either *)
(* ends the process or, when the memory held an older pointer, puts the     *)
(* content of another buffer into the packet (Junk) and releases that       *)
(* buffer, whoever's it is.  The pointer may be that of a part which the    *)
(* memory held in an earlier array: its buffer is assumed to hold no part   *)
(* by then.  A write behind the array ends the process here.                *)
(*                                                                          *)
(* The packet is put together in a buffer of its own and handled; only the  *)
(* handler of a game packet releases it.  A packet that is itself a frame   *)
(* set with parts is handled after its own entry is gone: those parts       *)
(* arrive next.                                                             *)
(***************************************************************************)
EXTENDS Integers, Sequences, FiniteSets, Bags

CONSTANTS
    Peers,
    PartsOf,     \* packet n of a peer has PartsOf[peer][n] parts
    Games,       \* the packets that are game packets
    IdMod,       \* 65536: the packet number is a short
    MaxAgain,    \* bound on the deliveries of datagrams already delivered
    Null,        \* nullptr
    Junk         \* what an uninitialised pointer leads to

Packets ==
    UNION {[peer : {peer}, number : DOMAIN PartsOf[peer]] : peer \in Peers}

ASSUME FragmentsAssumption ==
    /\ PartsOf \in [Peers -> Seq(Nat \ {0})]
    /\ Games \subseteq Packets
    /\ IdMod \in Nat \ {0}
    /\ MaxAgain \in Nat

Ids == 0 .. IdMod - 1
IdOf(p) == (p.number - 1) % IdMod
Size(p) == PartsOf[p.peer][p.number]

\* A part is the packet it was cut from and its index.
Part(p, i) == [packet |-> p, index |-> i]
Parts == UNION {{Part(p, i) : i \in 0 .. Size(p) - 1} : p \in Packets}

\* nullptr is no array, and no part is found where an uninitialised pointer
\* leads.
ASSUME PointersAssumption ==
    /\ Junk \notin Parts
    /\ \A p \in Packets : Null \notin [0 .. Size(p) - 1 -> Parts \cup {Junk}]

IsLast(part) == part.index + 1 = Size(part.packet)

VARIABLES
    sent,        \* how many packets each peer has sent
    FRAGMENTS,   \* id -> nullptr or an array of parts
    completed,   \* the packets handed to handle, a bag of arrays of parts
    unreleased,  \* buffers of parts that have been taken and not released
    kept,        \* buffers of whole packets taken and not released
    fault,       \* "crash" once the process has ended
    delivered,   \* history: part -> how often it has arrived
    calm         \* history: the network has been gentle so far, see Gentle

vars == <<sent, FRAGMENTS, completed, unreleased, kept, fault, delivered, calm>>

Init ==
    /\ sent = [peer \in Peers |-> 0]
    /\ FRAGMENTS = [id \in Ids |-> Null]
    /\ completed = EmptyBag
    /\ unreleased = 0 /\ kept = 0
    /\ fault = "none"
    /\ delivered = [part \in Parts |-> 0]
    /\ calm = TRUE

-----------------------------------------------------------------------------
(* Peers and the network                                                    *)

\* A peer sends the parts of its next packet.
SendPacket(peer) ==
    /\ sent[peer] < Len(PartsOf[peer])
    /\ sent' = [sent EXCEPT ![peer] = @ + 1]
    /\ UNCHANGED <<FRAGMENTS, completed, unreleased, kept, fault, delivered, calm>>

Again == Cardinality({part \in Parts : delivered[part] > 1})

\* A part is in the network from when it is sent; it arrives at any time, any
\* number of times, or never.
InFlight(part) ==
    /\ part.packet.number <= sent[part.packet.peer]
    /\ delivered[part] = 0 \/ (delivered[part] = 1 /\ Again < MaxAgain)

Begun(p) == \E i \in 0 .. Size(p) - 1 : delivered[Part(p, i)] > 0
Ended(p) == delivered[Part(p, Size(p) - 1)] > 0

\* What the code relies on: a part arrives once, the last one after the others
\* of its packet, and never while a packet of the same number, of whatever
\* peer, is under way.
Gentle(part) ==
    /\ delivered[part] = 0
    /\ IsLast(part) =>
           \A i \in 0 .. part.index - 1 : delivered[Part(part.packet, i)] > 0
    /\ \A q \in Packets \ {part.packet} :
           IdOf(q) = IdOf(part.packet) /\ Begun(q) => Ended(q)

Arrive(part) ==
    /\ fault = "none" /\ InFlight(part)
    /\ delivered' = [delivered EXCEPT ![part] = @ + 1]
    /\ calm' = (calm /\ Gentle(part))
    /\ UNCHANGED sent

-----------------------------------------------------------------------------
(* The handler                                                              *)

\* Mutant: a new array for every part.
NewArray(part) == [i \in 0 .. Size(part.packet) - 1 |-> Junk]

\* The array of the entry; the first part of a packet makes it, as long as
\* that part says.
Array(part) ==
    IF FRAGMENTS[IdOf(part.packet)] = Null
    THEN [i \in 0 .. Size(part.packet) - 1 |-> Junk]
    ELSE FRAGMENTS[IdOf(part.packet)]

\* Mutant: parts are stored in the order they arrive in.
StoredInOrder(part) ==
    [Array(part) EXCEPT
        ![Cardinality({i \in DOMAIN Array(part) : Array(part)[i] # Junk})] = part]

\* parts[fIndex] = part.
Stored(part) == [Array(part) EXCEPT ![part.index] = part]

\* Any part but the last is only stored.
Store(part) ==
    /\ Arrive(part)
    /\ part.index \in DOMAIN Array(part) /\ ~IsLast(part)
    /\ FRAGMENTS' = [FRAGMENTS EXCEPT ![IdOf(part.packet)] = Stored(part)]
    /\ unreleased' = unreleased + 1
    /\ UNCHANGED <<completed, kept, fault>>

\* The entry was made by a packet with fewer parts: the write falls behind it.
StoreBehind(part) ==
    /\ Arrive(part)
    /\ part.index \notin DOMAIN Array(part)
    /\ fault' = "crash"
    /\ UNCHANGED <<FRAGMENTS, completed, unreleased, kept>>

\* The parts the loops read, and those that are there.
Assembled(part) == [i \in 0 .. part.index |-> Stored(part)[i]]
Present(part) == {i \in 0 .. part.index : Stored(part)[i] # Junk}

\* Mutant: the entry is left in the map.
KeepEntry(part) == UNCHANGED FRAGMENTS

\* FRAGMENTS.erase(fId).
EraseEntry(part) == FRAGMENTS' = [FRAGMENTS EXCEPT ![IdOf(part.packet)] = Null]

\* Mutant: the loop releases the parts before the last.
StillUnreleased(part) == unreleased + 1 - Cardinality(Present(part) \ {part.index})

\* The buffers of the parts that are there are released.
UnreleasedAfter(part) == unreleased + 1 - Cardinality(Present(part))

\* The buffers released by way of the pointers that are not there are some of
\* these, or others.
Strays(part) == 0 .. part.index + 1 - Cardinality(Present(part))

\* The buffer of the whole packet is kept unless it is handled as a game packet:
\* its first byte tells, in its first part.
KeptAfter(parts) ==
    CASE parts[0] = Junk -> {kept, kept + 1}
      [] parts[0] # Junk /\ parts[0].packet \in Games -> {kept}
      [] OTHER -> {kept + 1}

\* The last part: the packet is put together and handled, in a buffer that
\* only the handler of a game packet releases.
Complete(part) ==
    /\ Arrive(part)
    /\ part.index \in DOMAIN Array(part) /\ IsLast(part)
    /\ completed' = completed (+) SetToBag({Assembled(part)})
    /\ EraseEntry(part)
    /\ \E strays \in Strays(part) : unreleased' = UnreleasedAfter(part) - strays
    /\ kept' \in KeptAfter(Assembled(part))
    /\ UNCHANGED fault

\* The last part while another is missing: its pointer leads nowhere.
CompleteMissing(part) ==
    /\ Arrive(part)
    /\ part.index \in DOMAIN Array(part) /\ IsLast(part)
    /\ Present(part) # 0 .. part.index
    /\ fault' = "crash"
    /\ UNCHANGED <<FRAGMENTS, completed, unreleased, kept>>

Next ==
    \/ \E peer \in Peers : SendPacket(peer)
    \/ \E part \in Parts :
           \/ Store(part) \/ StoreBehind(part)
           \/ Complete(part) \/ CompleteMissing(part)

Spec == Init /\ [][Next]_vars

-----------------------------------------------------------------------------
\* An array as long as some packet, with the parts it holds in their places.
IsArray(parts, from) ==
    \E p \in Packets :
        /\ parts \in [0 .. Size(p) - 1 -> from \cup {Junk}]
        /\ \A i \in DOMAIN parts : parts[i] # Junk => parts[i].index = i

\* The arrays of FRAGMENTS hold parts of packets with the number of the entry,
\* each in its place, whatever order they arrived in.
TypeOK ==
    /\ \A peer \in Peers : sent[peer] \in 0 .. Len(PartsOf[peer])
    /\ \A id \in Ids : FRAGMENTS[id] # Null =>
           IsArray(FRAGMENTS[id], {part \in Parts : IdOf(part.packet) = id})
    /\ \A parts \in DOMAIN completed : IsArray(parts, Parts)
    /\ unreleased \in Int /\ kept \in Nat /\ fault \in {"none", "crash"}
    /\ delivered \in [Parts -> Nat] /\ calm \in BOOLEAN

Whole(p) == [i \in 0 .. Size(p) - 1 |-> Part(p, i)]

\* As long as the network is gentle, exactly the packets whose last part has
\* arrived have been handled, each whole and once, although entries are shared
\* by all peers and their numbers are used again.
GentleIsWhole ==
    calm =>
        /\ fault = "none"
        /\ completed = SetToBag({Whole(p) : p \in {q \in Packets : Ended(q)}})

\* Then the buffers of parts that are not released belong to packets under way,
\* and one buffer is lost for each packet that was handled and is no game
\* packet: none by sharing entries, and none twice.
GentleLosesOtherPackets ==
    calm =>
        /\ unreleased =
               Cardinality({part \in Parts : delivered[part] > 0 /\ ~Ended(part.packet)})
        /\ kept = Cardinality({p \in Packets \ Games : Ended(p)})

Holds(parts, part) == part.index \in DOMAIN parts /\ parts[part.index] = part

\* The packets handled that hold a part, one for each time they were handled.
Uses(part) ==
    UNION {{parts} \X (1 .. completed[parts]) :
               parts \in {handled \in DOMAIN completed : Holds(handled, part)}}

\* Whatever the network does, a part that has arrived n times is in at most n
\* of the packets handled: what is stored is used once, then forgotten.
PartsUsedOnce == \A part \in Parts : Cardinality(Uses(part)) <= delivered[part]

-----------------------------------------------------------------------------
(* What handle promises to those who send packets                           *)

Channel ==
    INSTANCE PacketChannel WITH
        Packets <- {Whole(p) : p \in Packets},
        sent <- {Whole(p) : p \in {q \in Packets : q.number <= sent[q.peer]}},
        handled <- completed,
        gentle <- calm

\* As long as the network is gentle, only packets that were sent are handled,
\* each whole and once; when it ceases to be, nothing that was handled is
\* taken back.
ChannelSpec == Channel!Spec
=============================================================================
