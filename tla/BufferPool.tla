----------------------------- MODULE BufferPool -----------------------------
(***************************************************************************)
(* The pool of buffers both threads of the proxy take from.                 *)
(*                                                                          *)
(* allocateBuffer holds POOL_LOCK while it looks for a released buffer that *)
(* is large enough, and adds a new one when there is none.  release and use *)
(* take no lock: they write the flag released, which a search of the other  *)
(* thread may be reading.  The compiled release stores offset and size      *)
(* first and the flag last, so it is one step here.                         *)
(*                                                                          *)
(* What the two threads do with buffers is followed as far as it takes,     *)
(* gives back or loses them.  "java" answers clients, keeps a buffer for    *)
(* each connection, and writes two packets into one buffer when it connects *)
(* a player.  "bedrock" takes a buffer for every datagram and handles what  *)
(* is in it; a frame set holds packets that the same function handles, and  *)
(* fragments, which are put together in a buffer that it handles as well    *)
(* while the datagram of the last one is in hand.  A frame set inside a     *)
(* frame only adds rounds to the loop over the same buffer.  Which          *)
(* fragments belong together, and elements of their arrays that nobody has  *)
(* set, are left to RakNetFragments.  A datagram that is too short ends the *)
(* process and with it the behaviour.                                       *)
(***************************************************************************)
EXTENDS Naturals, Sequences, FiniteSets

CONSTANTS
    Sizes,      \* the sizes that buffers have or grow to
    Asked,      \* purpose -> the sizes allocateBuffer is called with for it
    MaxKept,    \* bound on the buffers that are never given back
    MaxPool,    \* bound: no buffer is lost once the pool is this large
    MaxParts,   \* bound on the fragments that wait in FRAGMENTS
    MaxNested   \* bound on the reassembled packets handled within each other

Purposes == {"reply", "client", "server", "first", "packet", "answer",
             "refusal", "request", "wrap", "inflated", "kick", "encap", "ack",
             "part", "whole"}

ASSUME PoolAssumption ==
    /\ Sizes \subseteq Nat
    /\ Asked \in [Purposes -> SUBSET Sizes]
    /\ MaxKept \in Nat /\ MaxPool \in Nat
    /\ MaxParts \in Nat /\ MaxNested \in Nat

Threads == {"java", "bedrock"}
Nobody == "nobody"

\* Where a thread has a pointer to a buffer that it may use.
Roles == {"java local", "java kept",
          "bedrock local", "bedrock packet", "bedrock message", "bedrock parts",
          "bedrock kept"}

VARIABLES
    pool,       \* POOL, a sequence of buffers; a buffer is its number in it
    lock,       \* POOL_LOCK: the thread that holds it
    pc,         \* where each thread is
    want,       \* argument of the running allocateBuffer
    at,         \* the buffer it looks at
    why,        \* what it was called for, which says where it returns to
    held,       \* Roles -> buffers
    login,      \* Player::connect: its buffer, also while it is released
    packets,    \* the packets handle runs for, the datagram of
                \* WinSockUDP::start first, also while they are released
    framed,     \* the frames of the last of them are being handled
    early       \* history: buffers released while their user still needed them

allocation == <<want, at, why>>
vars == <<pool, lock, pc, allocation, held, login, packets, framed, early>>

Buffers == DOMAIN pool

\* The argument of the innermost call of handle.
packet == packets[Len(packets)]

Init ==
    /\ pool = << >> /\ lock = Nobody
    /\ pc = [t \in Threads |-> "idle"]
    /\ want = [t \in Threads |-> 0]
    /\ at = [t \in Threads |-> 0]
    /\ why = [t \in Threads |-> "none"]
    /\ held = [r \in Roles |-> {}]
    /\ login = 0 /\ packets = << >> /\ framed = FALSE
    /\ early = {}

-----------------------------------------------------------------------------
(* allocateBuffer                                                           *)

\* Thread t calls allocateBuffer for some purpose.
Ask(t, purpose) ==
    /\ pc' = [pc EXCEPT ![t] = "lock"]
    /\ \E n \in Asked[purpose] : want' = [want EXCEPT ![t] = n]
    /\ why' = [why EXCEPT ![t] = purpose]
    /\ UNCHANGED <<pool, lock, at>>

\* Mutant: POOL_LOCK is not waited for.
LockAnyway(t) ==
    /\ pc[t] = "lock"
    /\ lock' = t
    /\ pc' = [pc EXCEPT ![t] = "scan"]
    /\ at' = [at EXCEPT ![t] = 1]
    /\ UNCHANGED <<pool, want, why, held, login, packets, framed, early>>

Lock(t) ==
    /\ pc[t] = "lock" /\ lock = Nobody
    /\ lock' = t
    /\ pc' = [pc EXCEPT ![t] = "scan"]
    /\ at' = [at EXCEPT ![t] = 1]
    /\ UNCHANGED <<pool, want, why, held, login, packets, framed, early>>

\* Mutant: a buffer has to be larger than what is asked for.
FitsLoosely(b, n) == pool[b].released /\ pool[b].cap > n

Fits(b, n) == pool[b].released /\ pool[b].cap >= n

\* The loop looks at one buffer.
Scan(t) ==
    /\ pc[t] = "scan" /\ at[t] \in Buffers
    /\ IF Fits(at[t], want[t])
       THEN pc' = [pc EXCEPT ![t] = "take"] /\ UNCHANGED at
       ELSE at' = [at EXCEPT ![t] = @ + 1] /\ UNCHANGED pc
    /\ UNCHANGED <<pool, lock, want, why, held, login, packets, framed, early>>

RoleFor(purpose) ==
    CASE purpose \in {"reply", "first"}         -> "java local"
      [] purpose \in {"client", "server"}       -> "java kept"
      [] purpose \in {"answer", "ack", "encap", "wrap", "part"} -> "bedrock local"
      [] purpose \in {"packet", "whole"}        -> "bedrock packet"
      [] purpose \in {"inflated", "request"}    -> "bedrock message"
      [] purpose \in {"kick", "refusal"}        -> "bedrock kept"

\* allocateBuffer unlocks and returns buffer b to thread t.
Return(t, b) ==
    /\ lock' = Nobody
    /\ pc' = [pc EXCEPT ![t] = IF why[t] = "client" THEN "idle" ELSE why[t]]
    /\ held' = [held EXCEPT ![RoleFor(why[t])] = @ \cup {b}]
    /\ login' = IF why[t] = "first" THEN b ELSE login
    /\ packets' = IF why[t] \in {"packet", "whole"} THEN Append(packets, b) ELSE packets
    /\ framed' = (framed /\ why[t] # "whole")
    /\ want' = [want EXCEPT ![t] = 0]
    /\ at' = [at EXCEPT ![t] = 0]
    /\ why' = [why EXCEPT ![t] = "none"]
    /\ UNCHANGED early

\* Mutant: the iterator has moved on from the buffer that was found.
TakeNext(t) ==
    /\ pc[t] = "take"
    /\ pool' = [pool EXCEPT ![at[t]].released = FALSE]
    /\ Return(t, at[t] + 1)

\* buff->use(); the buffer found may have been used again in the meantime.
Take(t) ==
    /\ pc[t] = "take"
    /\ pool' = [pool EXCEPT ![at[t]].released = FALSE]
    /\ Return(t, at[t])

\* new ByteBuffer(size) and POOL.push_back.
Create(t) ==
    /\ pc[t] = "scan" /\ at[t] = Len(pool) + 1
    /\ pool' = Append(pool, [cap |-> want[t], born |-> want[t], released |-> FALSE])
    /\ Return(t, Len(pool) + 1)

Allocate(t) == Lock(t) \/ Scan(t) \/ Take(t) \/ Create(t)

\* The writes to buffer b may have made it grow; then release() of it.
Released(b) ==
    \E c \in {n \in Sizes : n >= pool[b].cap} :
        pool' = [pool EXCEPT ![b] = [@ EXCEPT !.cap = c, !.released = TRUE]]

\* Thread t releases the one buffer of a role and goes on.
Release(t, role, location) ==
    /\ \E b \in held[role] : Released(b)
    /\ held' = [held EXCEPT ![role] = {}]
    /\ pc' = [pc EXCEPT ![t] = location]
    /\ UNCHANGED <<lock, allocation, login, packets, framed, early>>

Kept == held["java kept"] \cup held["bedrock kept"]

\* The packets in hand will be kept as well.
MayLose ==
    /\ Cardinality(Kept \cup held["bedrock packet"]) < MaxKept
    /\ Len(pool) < MaxPool

-----------------------------------------------------------------------------
(* The Java thread                                                          *)

\* A reply to a client, a kick, a decoded secret.
JavaReplies ==
    /\ pc["java"] = "idle"
    /\ Ask("java", "reply")
    /\ UNCHANGED <<held, login, packets, framed, early>>

JavaReplied == pc["java"] = "reply" /\ Release("java", "java local", "idle")

\* A new client, the login success of an online player, a secret that cannot
\* be decoded: nobody releases these buffers.
JavaKeeps ==
    /\ pc["java"] = "idle" /\ MayLose
    /\ Ask("java", "client")
    /\ UNCHANGED <<held, login, packets, framed, early>>

\* Player::connect: createSocket takes a buffer for the connection, connect
\* one for its packets.
Connect ==
    /\ \/ pc["java"] = "idle" /\ MayLose /\ Ask("java", "server")
       \/ pc["java"] = "server" /\ Ask("java", "first")
    /\ UNCHANGED <<held, login, packets, framed, early>>

\* login->release() after the handshake packet.
ReleaseFirst == pc["java"] = "first" /\ Release("java", "java local", "again")

\* login->use(), then the login packet is written.
UseAgain ==
    /\ pc["java"] = "again"
    /\ pool' = [pool EXCEPT ![login].released = FALSE]
    /\ held' = [held EXCEPT !["java local"] = {login}]
    /\ early' = early \cup {login}
    /\ pc' = [pc EXCEPT !["java"] = "second"]
    /\ UNCHANGED <<lock, allocation, login, packets, framed>>

ReleaseSecond ==
    /\ pc["java"] = "second"
    /\ Released(login)
    /\ held' = [held EXCEPT !["java local"] = {}]
    /\ login' = 0
    /\ pc' = [pc EXCEPT !["java"] = "idle"]
    /\ UNCHANGED <<lock, allocation, packets, framed, early>>

Java ==
    \/ Allocate("java") \/ JavaReplies \/ JavaReplied \/ JavaKeeps
    \/ Connect \/ ReleaseFirst \/ UseAgain \/ ReleaseSecond

-----------------------------------------------------------------------------
(* The Bedrock thread                                                       *)

\* recvfrom has returned a datagram.
ReceiveDatagram ==
    /\ pc["bedrock"] = "idle" /\ MayLose
    /\ Ask("bedrock", "packet")
    /\ UNCHANGED <<held, login, packets, framed, early>>

\* RakNetPacketHandler::handle at its switch, for a datagram or for a packet
\* inside a frame.
Handling == pc["bedrock"] \in {"packet", "content"}

\* handle returns: into the loop of a frame set, or to its caller, which never
\* releases the packet.
Returned == IF framed THEN "loop" ELSE "drop"

Ignore ==
    /\ Handling
    /\ pc' = [pc EXCEPT !["bedrock"] = Returned]
    /\ UNCHANGED <<pool, lock, allocation, held, login, packets, framed, early>>

\* A ping, an open connection request: one reply, which is not released when
\* the protocol version is refused.
Answer ==
    /\ Handling
    /\ \/ Ask("bedrock", "answer")
       \/ MayLose /\ Ask("bedrock", "refusal")
    /\ UNCHANGED <<held, login, packets, framed, early>>

Answered ==
    \/ pc["bedrock"] = "answer" /\ Release("bedrock", "bedrock local", Returned)
    \/ /\ pc["bedrock"] = "refusal"
       /\ pc' = [pc EXCEPT !["bedrock"] = Returned]
       /\ UNCHANGED <<pool, lock, allocation, held, login, packets, framed, early>>

\* CONNECTION_REQUEST: sendEncapsulated takes a buffer for the frame set around
\* the reply, which is released after it.
Request ==
    /\ \/ Handling /\ Ask("bedrock", "request")
       \/ pc["bedrock"] = "request" /\ Ask("bedrock", "wrap")
    /\ UNCHANGED <<held, login, packets, framed, early>>

Requested ==
    \/ pc["bedrock"] = "wrap" /\ Release("bedrock", "bedrock local", "wrapped")
    \/ pc["bedrock"] = "wrapped" /\ Release("bedrock", "bedrock message", Returned)

\* GAME1, GAME2: the packet is inflated into another buffer.
Inflate ==
    /\ Handling
    /\ Ask("bedrock", "inflated")
    /\ UNCHANGED <<held, login, packets, framed, early>>

\* BedrockClientHandler::handle: a login is answered, from a buffer that is
\* not released, through sendEncapsulated.
Kick ==
    /\ \/ pc["bedrock"] = "inflated" /\ MayLose /\ Ask("bedrock", "kick")
       \/ pc["bedrock"] = "kick" /\ Ask("bedrock", "encap")
    /\ UNCHANGED <<held, login, packets, framed, early>>

Kicked == pc["bedrock"] = "encap" /\ Release("bedrock", "bedrock local", "played")

ReleaseInflated ==
    /\ pc["bedrock"] \in {"inflated", "played"}
    /\ Release("bedrock", "bedrock message", "inflate end")

\* packet->release(): when the packet came in a frame it is the buffer of the
\* whole frame set, whose loop goes on using it.
ReleasePacket ==
    /\ pc["bedrock"] = "inflate end"
    /\ Released(packet)
    /\ held' = [held EXCEPT !["bedrock packet"] = @ \ {packet}]
    /\ early' = IF framed THEN early \cup {packet} ELSE early
    /\ pc' = [pc EXCEPT !["bedrock"] = Returned]
    /\ UNCHANGED <<lock, allocation, login, packets, framed>>

FrameSet ==
    /\ Handling
    /\ framed' = TRUE
    /\ pc' = [pc EXCEPT !["bedrock"] = "frame"]
    /\ UNCHANGED <<pool, lock, allocation, held, login, packets, early>>

\* The header of a frame; a reliable one is acknowledged at once.
Frame ==
    /\ pc["bedrock"] = "frame"
    /\ \/ Ask("bedrock", "ack")
       \/ /\ pc' = [pc EXCEPT !["bedrock"] = "content"]
          /\ UNCHANGED <<pool, lock, allocation>>
    /\ UNCHANGED <<held, login, packets, framed, early>>

Acknowledged == pc["bedrock"] = "ack" /\ Release("bedrock", "bedrock local", "content")

\* A fragmented frame is copied into a buffer of its own,
Part ==
    /\ pc["bedrock"] = "content"
    /\ Ask("bedrock", "part")
    /\ UNCHANGED <<held, login, packets, framed, early>>

\* which waits in FRAGMENTS,
StorePart ==
    /\ pc["bedrock"] = "part"
    /\ Cardinality(held["bedrock parts"]) < MaxParts
    /\ held' = [held EXCEPT !["bedrock parts"] = @ \cup held["bedrock local"],
                            !["bedrock local"] = {}]
    /\ pc' = [pc EXCEPT !["bedrock"] = "loop"]
    /\ UNCHANGED <<pool, lock, allocation, login, packets, framed, early>>

\* or is the last one: fullPacket takes a buffer,
Whole ==
    /\ pc["bedrock"] = "part" /\ MayLose /\ Len(packets) <= MaxNested
    /\ Ask("bedrock", "whole")
    /\ UNCHANGED <<held, login, packets, framed, early>>

\* every part is released after it has been copied,
ReleasePart ==
    /\ pc["bedrock"] = "whole"
    /\ \E b \in held["bedrock parts"] :
          /\ Released(b)
          /\ held' = [held EXCEPT !["bedrock parts"] = @ \ {b}]
    /\ UNCHANGED <<lock, pc, allocation, login, packets, framed, early>>

\* the last one too, and handle is called for the fullPacket.
HandleWhole == pc["bedrock"] = "whole" /\ Release("bedrock", "bedrock local", "packet")

\* packet->setOffset(offset + bytes) and the test of the loop.  A released
\* buffer has size 0 and is not readable; one that somebody has taken may be.
NextFrame ==
    /\ pc["bedrock"] = "loop"
    /\ \/ /\ ~pool[packet].released
          /\ pc' = [pc EXCEPT !["bedrock"] = "frame"]
          /\ UNCHANGED framed
       \/ /\ pc' = [pc EXCEPT !["bedrock"] = "drop"]
          /\ framed' = FALSE
    /\ UNCHANGED <<pool, lock, allocation, held, login, packets, early>>

\* Whoever called handle forgets the packet: start receives again, the loop
\* over the frame set with the last fragment goes on.
Drop ==
    /\ pc["bedrock"] = "drop"
    /\ held' = [held EXCEPT !["bedrock kept"] = @ \cup ({packet} \cap held["bedrock packet"]),
                            !["bedrock packet"] = @ \ {packet}]
    /\ packets' = SubSeq(packets, 1, Len(packets) - 1)
    /\ framed' = (Len(packets) > 1)
    /\ pc' = [pc EXCEPT !["bedrock"] = IF Len(packets) > 1 THEN "loop" ELSE "idle"]
    /\ UNCHANGED <<pool, lock, allocation, login, early>>

Bedrock ==
    \/ Allocate("bedrock") \/ ReceiveDatagram \/ Ignore \/ Answer \/ Answered
    \/ Request \/ Requested \/ Inflate \/ Kick \/ Kicked \/ ReleaseInflated
    \/ ReleasePacket \/ FrameSet \/ Frame \/ Acknowledged \/ Part \/ StorePart
    \/ Whole \/ ReleasePart \/ HandleWhole \/ NextFrame \/ Drop

Next == Java \/ Bedrock

Spec == Init /\ [][Next]_vars

-----------------------------------------------------------------------------
JavaLocations == {"idle", "lock", "scan", "take", "reply", "server",
                  "first", "again", "second"}
BedrockLocations == {"idle", "lock", "scan", "take", "packet", "content",
                     "answer", "refusal", "request", "wrap", "wrapped",
                     "inflated", "kick", "encap", "played", "inflate end",
                     "frame", "ack", "part", "whole", "loop", "drop"}

Buffer == [cap : Nat, born : Nat, released : BOOLEAN]

\* Every pointer leads to a buffer of the pool.
TypeOK ==
    /\ pool \in Seq(Buffer)
    /\ lock \in Threads \cup {Nobody}
    /\ pc \in [Threads -> JavaLocations \cup BedrockLocations]
    /\ want \in [Threads -> Sizes \cup {0}]
    /\ at \in [Threads -> 0 .. Len(pool) + 1]
    /\ why \in [Threads -> Purposes \cup {"none"}]
    /\ held \in [Roles -> SUBSET Buffers]
    /\ login \in Buffers \cup {0} /\ packets \in Seq(Buffers)
    /\ framed \in BOOLEAN /\ early \subseteq Buffers

\* The lock is enough although release and use do without it: a buffer has two
\* users at a time only if it was once released before its user had finished,
\* as Player::connect and a packet within a frame do.  The packets handled
\* within each other are users of their own.
OnlyEarlyReleaseShares ==
    /\ \A r, s \in Roles : r # s => held[r] \cap held[s] \subseteq early
    /\ \A i, j \in DOMAIN packets :
          i # j /\ packets[i] = packets[j] => packets[i] \in early

\* Released buffers are found again: of the buffers that were made for one
\* size and that nobody keeps for good there are never more than the threads
\* can need at a time, one of the Java thread, and of the Bedrock thread the
\* datagram, the packets handled within it, a message and the frame set to be
\* sent for it, and the fragments that wait.
PoolGrowsByLossOnly ==
    \A n \in Sizes :
        Cardinality({b \in Buffers \ Kept : pool[b].born = n})
            <= 4 + MaxNested + MaxParts

\* The comment at the end of RakNetPacketHandler::handle: a packet cannot be
\* released there when it is encapsulated.  The loop over a frame set has the
\* packet it is looping over.
EncapsulatedIsKept == pc["bedrock"] = "loop" => packet \in held["bedrock packet"]
=============================================================================
