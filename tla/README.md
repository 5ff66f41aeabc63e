# BiProxy: a TLA+ verification project

BiProxy is a proxy for Minecraft servers written in C++ for Windows. A Java
client connects over TCP, logs in, is connected to a server called "hub", and
from then on the proxy relays packets in both directions. Bedrock clients talk
RakNet over UDP; for now they get a ping answer, a handshake and a kick.

This directory holds TLA+ modules translated from the source, TLC runs on small
instances of them, and proofs checked by TLAPS for every value of the constants.
Paths below are relative to the repository (`src/...`, `include/...`).

## 1. The system

| Component | State | Operations | Hard part |
|---|---|---|---|
| `ByteBuffer` (`src/utils/ByteBuffer.cpp`, `include/utils/ByteBuffer.{h,inl}`) | array, `bufferSize`, `size`, `offset`, `released`; a global pool | `allocateBuffer`, `ensureWritable`, writes, reads, `prefixLength`, `release`, `use` | reallocation boundaries, lengths cut to 16 bits, one room check for two writes, a shift followed by writes that may reallocate |
| Java relay (`src/net/JavaPacketHandler.cpp`, receiving half of `src/net/WinSockTCP.cpp`) | the buffer of a `Connection`, its `processing` flag | `recv`, `handle`, `packetConsumed`, `send` | a stream in arbitrary parts, partial and failed sends, exceptions that leave `handle` |
| Java connections (`src/net/WinSockTCP.cpp`, `include/net/protocol/Protocol.h`, `src/data/Player.cpp`) | the list `connections`, `Player` objects, SOCKET handles | accept, scan, clean-up, `createSocket` | two connections share one player; handles are numbers the system gives out again; the list changes during the scan |
| Java protocol handlers (`src/net/protocol/*.cpp`) | `protocol`, `state`, `owner` of a connection | handshake, status, login start, encryption response, login success | login sequences, a blocking call to the session server inside the loop |
| RakNet (`src/net/RakNetPacketHandler.cpp`) | `FRAGMENTS`, `SEQUENCE` | datagram handler, reassembly, encapsulation | loss, duplication and reordering of datagrams; nested use of one buffer |
| Bedrock handler, UDP socket (`src/net/BedrockClientHandler.cpp`, `src/net/WinSockUDP.cpp`) | none of their own | one reply; the receive loop | shares the pool with the Java thread |
| Proxy (`src/Proxy.cpp`, `src/main.cpp`, `src/net/WinSock.cpp`) | threads, sockets, map of servers, `running` | construction, `shutdown` | threads start before the map is filled; missing sections |
| Encryption (`src/utils/Encryption.cpp`) | RSA keys, a cipher per connection | server hash, OpenSSL calls | the carry, the sign and the leading zeros of the hash |
| Base64 (`src/utils/Base64.cpp`) | none | encode, decode | the bytes left over after whole groups |
| JavaPing, packets, `Server` (`include/data`) | plain data | formatting | none |

How they interact. Two threads run: the Java loop (`WinSockTCP::start`) and the
Bedrock loop (`WinSockUDP::start`); main only reads the console. The Java loop
accepts at most one client, then polls each connection, receives into its buffer and
calls `handle` through `std::async`. The returned future is discarded, and the
destructor of such a future waits, so **`handle` runs to its end before the loop
goes on**, if it ends: there is no concurrency between connections, and the models
take a visit of a connection as one step. Two things keep it from ending: a blocking
server that does not read, and a packet of a negative length. `handle` calls the
handlers of the connection's `Protocol`, which create players, connect to servers
(appending to the very list being scanned) and send replies. All components take
their buffers from the pool of `ByteBuffer`, the one object both threads share under
a lock.

What is correct means, per component:

* ByteBuffer: no write leaves the array but that of a string too long for the
  16 bits of `ensureWritable`, what was written is kept, a framed
  packet announces exactly its content, and what is read is what was written.
* Its callers that edit in the middle of a packet: the packet arrives whole, with
  its size; the token replaces itself and nothing else in the stream.
* Relay: packets reach the destination whole, once, in order, as long as it is
  up; the source is given up only at its end.
* Connections: a packet goes to the other end of its own player's pair; players
  are deleted once and never used afterwards; leavers are noticed; no handle stays
  open without a user.
* Buffer pool: a buffer is in one pair of hands at a time; released buffers are
  found again.
* RakNet: a reassembled packet is made of the parts of one packet of one peer;
  the frames of a set are read where the client put them, in order.
* Conversions: the session server knows the hash; Base64 gives every byte back.
* Proxy: nobody uses the servers map or a socket before it exists; `end` ends it.

## 2. Modules

| Module | Models |
|---|---|
| `ByteBuffer` | one buffer in the hands of a caller that builds a packet |
| `PacketEdits` | extends it: `sendEncapsulated` and `encryptionResponse`, which write in the middle |
| `Conversions` | reads against writes, the server hash, Base64, as pure functions |
| `PacketPipe` | abstract: what one direction of a connection promises |
| `JavaRelay` | one direction of a connection: `recv`, `handle`, `send`; implements `PacketPipe` |
| `JavaSockets` | the loop, the list, players, handles and their reuse |
| `BufferPool` | the pool, and what both threads take from it, give back and lose |
| `PacketChannel` | abstract: what the reassembly of fragments promises |
| `RakNetFragments` | reassembly of fragments from an unreliable network; implements `PacketChannel` |
| `FrameSets` | the loop over the frames of a datagram, and the buffer it reads them from |
| `ProxyLifecycle` | main, the constructor, both threads, shutdown |
| `MC*` | small values of the constants for TLC |
| `ByteBufferProofs`, `ConversionsProofs`, `JavaRelayProofs`, `JavaSocketsProofs`, `BufferPoolProofs`, `RakNetProofs`, `ProxyLifecycleProofs` | theorems and their proofs |
| `DataInduction` | lemmas for them: induction over numbers, and functions defined by recursion |

They model parts of one process at different levels: `JavaSockets` has one step
where `JavaRelay` has the bytes of a packet, `BufferPool` follows only the
buffers the handlers of all modules use, and `ProxyLifecycle` the threads in
which they run.

Definitions marked "Mutant" in the modules are not part of any specification.
Each is a plausible bug in the definition that follows it; putting it in that
definition's place makes one of the properties fail, which shows that the
property depends on the code.

### ByteBuffer

Variables are the fields of the class plus what a running write still has to do
(`pc`, `val`, `left`, `copy`). A write is split where the code makes several
calls that may each reallocate: `writeVarInt` is one step per byte,
`writeInt`/`writeLong` an `ensureWritable` and then one step per byte,
`writeString` the room check, the length field, the `memcpy`; `prefixLength` the
shift, then `writeVarInt`, then `offset = 0`. `log` is a history variable: what
the packet should contain. Bytes are numbers: VarInt digits are computed as the
code computes them, payload bytes are stamps that name their position, so a byte
that ends up in the wrong place is seen. `fault` records a write outside the
array, which is undefined behaviour: the model stops there (`Undefined`).

Nothing bounds the strings that are written: `Player::connect`
(`src/data/Player.cpp:18`) writes the name the client has sent. `ensureWritable`
takes an unsigned short, so from 65532 bytes on it makes room for the sum modulo
65536, and the `memcpy` may overrun the array. `OnlyLongStringsOverrun` says that
nothing else does, and that such a string does not either when its caller has
allocated room for it, as the status response does
(`src/net/protocol/ClientStatus.cpp:7`). A buffer may come from the pool with any
larger size.

### PacketEdits

Two callers move `offset` away from `size`, which is all `ensureWritable` knows.
`sendEncapsulated` (`src/net/RakNetPacketHandler.cpp:374-420`) leaves a gap of two
bytes for the size, so that `size` lags two bytes behind the content until it goes
back and fills the gap; deflate is any output of 1 to `packet + Expansion` bytes
that comes in pieces of `CHUNK`. `encryptionResponse`
(`src/net/protocol/ClientLogin.cpp:49-58`) writes the decoded token over bytes that
were counted before, then takes them off `size` again. Each call is an action
(`WriteHeader`, `SkipSize`, `WriteId`, `WriteChunk`, ...; `TokenBack`,
`TokenWrite`, `TokenRead`), built on the operators of `ByteBuffer`, with all the
bytes of one field in one step. The token of a client that keeps to the protocol
has four bytes; what is done to one that has not is not modelled.

### Conversions

`writeVarInt`/`readVarInt`, the fixed-size reads and writes, `genServerHash` and
both Base64 functions are operators on sequences of numbers, and the one variable
is the input they are tried with. What matters is kept: the cast to unsigned
before the shift, the four bits an `int` keeps of the fifth byte, the sign of
`char`, the carry, which digits are left out, `npos` as a byte. The operands of
`readUnsignedShort`, `readInt` and `readLong` are evaluated from left to right, as
the Windows compiler does; the language leaves it open. Base64 strings hold the
characters of the alphabet only.

### JavaRelay and PacketPipe

The bytes of the stream are their positions. The buffer always holds a piece of
the stream, so `base`, `offset`, `size`, `bufferSize` determine it. `Frames`
gives the division into packets. Where `handle` reads at a position at which no
packet starts, which happens once a send has failed or taken a part only, it may
read any header (`Stray`): a length out of `Garbage`, negative when the VarInt has
five bytes, or no number at all, when a fifth byte says that more follow and
`readVarInt` throws (`HeaderThrows`, as for a header that is not there in full).
A packet of a negative length passes for complete; `setOffset` then moves back
over what was handled (`rewinds` counts it, up to `MaxRewinds`), behind the whole
buffer, or to the same header again, which the loop then reads for ever (`Spin`).
A handler that finds no byte for its id or for a field throws as well
(`PacketThrows`). `at` is the
`processing` flag with its meaning: polled, running, left by an exception for
good ("wedged"), never left ("endless"), erased. The packets of the stream itself have
no negative lengths here; what one of those does to all the other connections
is in `JavaSockets` and `ProxyLifecycle`. Two properties of the build are constants:

* `Blocking`: the sockets of `createSocket` block; those that `accept` returns
  inherit non-blocking mode from the listening socket
  (`src/net/WinSockTCP.cpp:15-17`), so their sends may be partial or fail.
* `Catches`: `readUnsignedByte` throws a string literal, in C++ a `const char*`,
  and `handle` catches `char*`. In conforming C++20, which `CMakeLists.txt:4`
  asks for, this does not match (`Catches = FALSE`); some older compiler modes
  let it match, and the code is written as if it did.

`PacketPipe` says what is promised: whole packets, once each, in order, until
the pipe is cut, and that they keep coming while it is not. The refinement maps
what the sends handed over to `delivered`, and "the destination is up and
`handle` has not thrown" to `alive`.

### JavaSockets

One module for the loop, because the interesting behaviour is between its parts.
`connections` is the list, `next` the iterator (0: accept), connections are
numbered in order of creation and a player has the number of its client's
connection. A handle is a number: `socket[c]`, `playerSocket`,
`connectingSocket` are numbers the process remembers, `endpoint[h]` says where
the system leads a number now. `closesocket` frees a number and the system may
give it out again. Each branch of the loop is an action: `Accept`,
`AcceptNobody`, `EndOfList`, `Skip`, `SelectError`, `RecvError`, `RecvZero`;
each handler that changes state is one (`HandshakeLogin`, `HandshakeStatus`,
`LoginStartOnline`, `LoginStartOffline`, `EncryptionResponse`, `ForwardToServer`,
`ForwardToClient`), and `Throw` is an exception that leaves `handle`. Use of a
deleted player is undefined behaviour: `UseAfterFree` records it and the model
stops there. Peers close and reset at any moment. `handle` says where the one
call of `handle` is: returned, waiting in the send to a server that does not read
(`SendWaits`, until `SendReturns`), or in an endless loop over a packet whose
length, negative, leads back to its own header (`HandleSpins`; any connection may
receive one). In both cases the loop goes no further. An open handle that nothing in
the process remembers, because `connect` has failed, leads to `Lost`; one whose
connection has left the list while its owner has no use for it is `Leaked`.

What is abstracted: a visit handles one packet, or several when they change the
connection (`AdvanceOrStay`); the contents of packets; sends that fail (see
`JavaRelay`). After it has been erased a connection's `protocol` is set to
`Null`, and peers nobody polls are left alone: neither can be observed.

### BufferPool

`allocateBuffer` is `Lock`, one `Scan` per buffer of the pool, then `Take` or
`Create`; `release` and `use` are one step each and take no lock, as in the code.
`pc` says where each thread is between its calls, `held` which pointers it may
use, `login` and `packets` are the pointers that the code keeps while the
buffers behind them are released. The Java thread is `Player::connect` in detail and
everything else it does with buffers in two kinds of steps (taken and released,
taken and kept). The Bedrock thread is the whole switch of
`RakNetPacketHandler::handle` as far as buffers go: answers, the refusal that is
not released, `CONNECTION_REQUEST` with the second buffer that `sendEncapsulated`
takes while the reply is held (`Request`, `Requested`), game packets with the kick
through `sendEncapsulated`, and the loop
over a frame set, in which the handler calls itself with the same buffer. A
fragment is copied into a buffer that waits in `FRAGMENTS` (`Part`, `StorePart`);
the last one makes the handler take a buffer for the whole packet, release the
parts and call itself with it (`Whole`, `ReleasePart`, `HandleWhole`), while the
datagram is still in hand: `packets` is the stack of the packets in the running
calls. Which fragments wait for which packet is in `RakNetFragments`; here any of
those that wait may be put together. A pointer in their array that was never set
is not followed. `early`
remembers the buffers that were released before their user had finished; the
property says that nothing else ever gives a buffer two users. `release` stores
`offset`, `size` and then `released`; a compiler that reordered the three stores
would add interleavings the model does not have.

### RakNetFragments and PacketChannel

A peer numbers its packets modulo 2^16 and sends their parts in datagrams of their
own; `delivered` counts how often each has arrived, so loss, delay and duplication
are all in it. `FRAGMENTS` maps a number to an array whose unset elements are
`Junk`, an uninitialised pointer: reading it ends the process or yields something
else. `calm` remembers whether the network has so far kept to what the code relies
on (`Gentle`): a part arrives once, the last part after the others, packets with the
same number one after the other. The properties say what holds then, and what holds
whatever the network does (`PartsUsedOnce`, `TypeOK`). When an index lies behind the
array the process ends here; that it might go on with foreign memory overwritten is
not modelled. `unreleased` counts the buffers of parts that were taken and not
released, `kept` the buffers of whole packets: the handler of a game packet releases
its buffer, nobody those of the others (`KeptAfter`). A pointer that was never set
may release a buffer of a part or one of somebody else's (`Strays`); that the buffer
behind it holds a part that could then be found in a later packet is not modelled,
it counts as `Junk`. A whole packet may itself be a frame set with parts: these
arrive as the next ones.

`PacketChannel` is what the handler of a packet sees of all this: packets are sent;
while the channel is gentle, one that was sent is handled, whole and once; then
anything may be handled, and what was handled stays so. It knows no parts, no
numbers and no map. The refinement takes a packet for the array of all its parts
(`Whole`), what has been sent from `sent`, what has been handled from `completed`
and `calm` for `gentle`; the arrival of any part but the last is a stutter.

### FrameSets

A client lays out frames by the protocol (`HeaderSize`, `ContentSize`, `Start`); the
loop reads headers by the code (`HeaderRead`, `bytes`). That the two agree is a
property, not an assumption. Bytes are their positions. The handler of a content
leaves `offset` where it likes, also by way of byte 17, to which two handlers go
(`src/net/RakNetPacketHandler.cpp:131,160`), or releases the buffer; `Advance` sets
it behind the frame all the same. A frame may hold a frame set: `handle` then loops
over it within the loop (`EnterSet`, `LeaveSet`; `outer` keeps the locals of the
loops around), and not to the end of the frame but to the end of the datagram, so
that the frames behind it are handled and acknowledged there and, after the outer
`Advance`, once more. The frames of an inner set are the next ones of the sequence
`frames`, and the frame around them ends where one of them, a later one or the
datagram does (`FramesAssumption`). `free` is the offset of a released buffer: `use`
does not rewind, so it is where the next datagram begins. From a position at which
no frame starts the handler reads something else: the model stops there (`"lost"`),
and the properties say when it gets there. What another thread does to a released
buffer in the middle of a set is in `BufferPool`.

### ProxyLifecycle

`main` goes through the stages of the constructor and of `shutdown`. The Proxy is a
static variable of `Proxy::instance`, so every caller of `instance` waits until the
constructor has returned (`Instance`); a caller that has the member `proxy` does
not. Static memory is zero before, which is why a socket of a missing section is
`nullptr`. `started` counts `WSAStartup` less `WSACleanup`; that the last
`WSACleanup` cancels a waiting `recvfrom` is what Winsock documents and what
`shutdown` relies on. A login makes the Java thread ask the session server and wait
for the answer (`AskSession`), which the model lets come, or the client's own
timeout end, at any later time. While it relays, the thread may wait in a send
(`RelaySends`), until the server reads, the peer is gone, or `WSACleanup` makes the
send fail (`SendFails`); a packet that leads back to itself is read over and over,
with sends, which fail then as well, or without any, for ever (`RelaySpins`). A
value of the configuration that cannot be read throws and ends the process.

## 3. Runs

| Run | Shows | Bounds and why they suffice |
|---|---|---|
| `byte_buffer` | `OnlyLongStringsOverrun`, `ContentKept`, `FramedPacketParses`; `EncapsulatedKept`, `SizeAnnounced`, `TokenKeepsStream`; `VarIntsReadBack`, `FixedReadBack`, `HashIsSignedHex`, `Base64ReadsBack` | 3 writes, 260 bytes, a 120-value "short": arrays from 5 to 135 bytes are reallocated zero to three times, lengths cross the one/two-byte header boundary and the cut. Packets of 6, 12 and 91 bytes and chunks of 30: an array that is just too small, one that is not, a size that does not fit, output of no, one and several full chunks. Numbers at every boundary of their groups with a byte of 16 values; hashes whose carry runs through any number of bytes; strings with 0, 1 and 2 bytes left over |
| `java_relay` | `ClosedAtEnd`, `Aligned`, `WedgedInHeader`, refinement of `PacketPipe` with its liveness | 4 packets, 25 bytes in a 5-byte buffer that grows by 1, a 4-value "short": every split of the stream, several growths per packet, growth cut below the length; behind a lost destination, headers with lengths of -7, -5, -2 (back, to itself, on), 0, 1 and 4, one rewind |
| `java_relay_partial` | `NothingTwice` with partial sends, in a build that catches the exception | 3 packets, 11 bytes, every cut of every send, the same stray headers |
| `java_sockets` | direction, life of players, one server per player, sweeping of orphans, only reuse misdirects packets, which handles leak and how many are lost | 4 connections on 4 handle numbers: two whole pairs, or numbers reused while stale copies remain. The constraint `FewHandlesOrQuiet`: while all four numbers are taken, no connection is wedged or reset and no number has been reused; with a free number anything goes |
| `java_leavers` | leavers are noticed as long as calls of `handle` return (liveness), online mode | 3 connections on 2 numbers, no symmetry |
| `buffer_pool` | `OnlyEarlyReleaseShares`, `PoolGrowsByLossOnly` | two sizes, so that a buffer may be too small; 2 buffers lost, which is what a kick inside a datagram needs; no buffer is lost once there are 3; one fragment waits and one packet put together is handled within a datagram; one buffer grows in a pool of two, two are released early in a pool of three |
| `raknet_fragments` | `GentleIsWhole`, `GentleLosesOtherPackets`, `PartsUsedOnce`, refinement of `PacketChannel`; `FramesReadInOrder`, `OnlyFramedGamesMoveReleased` | packets of 3, 1, 2 and of 2 parts from two peers with two numbers: an entry is shared by the peers, used again, and made by a shorter packet; one datagram arrives twice. Frame sets: a frame of every reliability and every content before another one, three frames, lengths in bits that do not fill the last byte, frame sets in frames side by side and within each other, empty and not; handlers that read up to three bytes |
| `proxy_lifecycle` | `LookupsSeeAllServers`, `NullOnlyInShutdown`, `ShutdownEnds` | every set of sections, of two servers and of failing setups |
| `relay_wedges` | finding 1 | as `java_relay` |
| `relay_cuts_packets` | finding 2 | as `java_relay_partial` |
| `reused_handle` | finding 3 | 4 connections on 4 numbers |
| `pool_frame_release` | finding 4 | pool of 2 |

`byte_buffer` and `raknet_fragments` run systems that share no state, three and
two of them. Their MC modules let one move only while the others are where they
started, so the states of a run are the sum of theirs, not the product, and each
is explored as if it were alone.

Fairness. `JavaRelay`: weak fairness of receiving and of handling, because the
loop polls every connection again and again and each step of `handle` is taken
in the end; that the peers send the rest of the stream, and that a blocking server
goes on reading, is assumed by it, and that the calls for other connections
return. `JavaSockets`: weak fairness of the loop as a
whole, which is only enabled while no call of `handle` is running; nothing of any
peer, so neither that a server reads (`SendReturns`) nor that nobody sends the
packet that never ends (`HandleSpins`). `LeaversAreNoticed` therefore has the
premise that calls return again and again, and without it is false in the code: one
client can stop the service of all. `ProxyLifecycle`: weak fairness of
each thread, nothing of who types or sends or of a server that reads (`SendEnds`
has none; a step of the endless `handle` is `Spin`, which gets it nowhere, and
`ShutdownEnds` names it as the one way not to end); that the wait for the session server
ends is part of it, because the HTTP client has a timeout of its own, which
neither the proxy's nor the server's behaviour can prolong (the five seconds that
`src/net/protocol/ClientLogin.cpp:69-71` sets go to a copy of its configuration,
so what ends it is the default). The other modules have no liveness.

`MaxConns`, `MaxOps`, `MaxSize`, `MaxKept`, `MaxPool`, `MaxParts`, `MaxNested`,
`MaxRewinds`, `MaxRead` and `MaxAgain` only keep the runs finite. Deadlock is not
checked in `raknet_fragments` only, where everything may have arrived or the process
ended.

### Findings

1. A packet header of two or more bytes that arrives in two reads wedges its
   connection (`src/net/JavaPacketHandler.cpp:26`): the exception is not caught,
   `processing` stays true, and the loop skips the connection for ever. The
   branch written for this case (`!full`, lines 33 to 44) is dead.
2. Partial sends to clients lose the rest of a packet
   (`src/net/WinSockTCP.cpp:105`). The comment at
   `src/net/JavaPacketHandler.cpp:61` describes the symptom and works around it
   with a sleep.
3. After a server has closed, `connectingSocket` still holds its closed handle
   (`src/net/WinSockTCP.cpp:80-82`). The next client accepted may be given the
   number; the player's packets are then sent to it, and it is closed when the
   player leaves.
4. A game packet inside a frame releases the buffer of the whole frame set
   (`src/net/RakNetPacketHandler.cpp:364`), which the loop over the frames and the
   other thread then share. The comment at line 372 says that this is what must
   not happen. The same release sets `size` to 0, so the frames behind the game
   packet are dropped without being read, and the loop then moves `offset` of the
   buffer that is back in the pool (line 284): whoever takes it next, and
   `allocateBuffer` expects rewound buffers, starts in its middle
   (`OnlyFramedGamesMoveReleased` says that this is the only way it can happen).

The models also show what these properties have to allow for: `shutdown` goes
through `nullptr` when a section is missing and through an unset address when a host
was not found (`NullOnlyInShutdown`, `ShutdownEnds`), and a lost, late or repeated
fragment lets an uninitialised pointer be read (`GentleIsWhole` holds only while the
network is gentle); a string of 65532 bytes or more overruns its array
(`OnlyLongStringsOverrun`), a packet whose length is minus the size of its header
keeps the Java thread for good (`LeaversAreNoticed`, `ShutdownEnds`), and behind a
frame set within a frame the frames of the outer one are handled twice
(`FramesReadInOrder`). Five more are limits rather than findings, because nothing in
the repository promises otherwise:

* `sendEncapsulated` loses bytes when deflate makes the packet longer by two bytes
  or more and the array has no spare room (`EncapsulatedKept` states the bound
  exactly). The kick of a Bedrock client, 6 bytes
  (`src/net/BedrockClientHandler.cpp:19-23`), is over it if deflate makes 8 bytes
  of it, as zlib does, and the pool has no larger array than the 16 asked for.
* A frame of 8192 bytes or more announces a wrong size (`SizeAnnounced`).
* A server hash whose first byte is 0 (once its sign is off) and whose second is
  below 16 keeps a leading zero, with which the session server does not know it:
  about one login in 4096 (`HashIsSignedHex`).
* A reassembled packet that is no game packet loses its buffer
  (`GentleLosesOtherPackets`), as every datagram does that is not one.
* Every client that leaves leaves its handle open (`OnlyLeaversLeak`), and every
  failed `connect` loses one (`OneLossPerLogin`).

## 4. Proofs

TLAPS proves, for all values of the constants that satisfy the named
assumptions (`ByteBufferAssumption`, `EditsAssumption`, `RelayAssumption`,
`SocketsAssumption`, `PoolAssumption`, `FragmentsAssumption`,
`PointersAssumption`, `FramesAssumption`, `TrialsAssumption`,
`LifecycleAssumption`), every invariant and action property the passing runs
check:

* `ByteBufferProofs`, about `ByteBuffer`: `BufferTypes`, `LongStringsAloneOverrun`,
  `WritesKeepContent`, `FramesAreRead`. The invariant `IInv` adds to the properties
  what each position in a running write still owes: how many bytes are to come and
  that the array has room for them (`Owed`), that the room check of `writeString`,
  unless it was cut to 16 bits, covers the length field of up to four bytes plus one
  spare (`StringRoom`), and where the shifted content lies while the header is
  written (`Framing`, `Content`). None of the properties is inductive alone, because
  the room is made steps before the write that needs it. Once a string has overrun
  the array nothing is left but the types (`Overrun`). For `FramesAreRead`, `Header`
  says that the bytes of the prefix written so far are the groups of the size in
  order (`Rest`); readVarInt, which looks for the first byte without its high bit,
  then stops at the last of them and nowhere else.
* `ByteBufferProofs`, about `PacketEdits`: `EncapsulationIsKept`,
  `FrameSizeIsAnnounced`, `TokenEditKeepsStream`. The invariant `EInv` says for each
  stage where `offset`, `size` and the end of the content are: while the gap is open
  `size` lags by two (`Lag`), and as long as no reallocation has happened since, the
  content is there in full (`Kept`). One lemma, `Written`, tells what a write in the
  middle does to the array with and without a reallocation, and every stage rests on
  it.
* `JavaRelayProofs`: `RelayTypes`, `RelayEndsWithStream`, `RelayKeepsOrder`,
  `RelayAligned`, `RelayWedgesInHeader`, and `RelayIsPipe`: the relay to a blocking
  socket implements `PacketPipe!Safety`. `ClosedAtEnd` needs `RoomToReceive` (a
  polled connection has room), which is inductive because growing by any
  non-negative amount plus `BUFFER_SIZE` leaves room whatever the 16-bit cut
  removes, and a negative length is cut to a non-negative one. The exception of
  `ClosedAtEnd`, a caught VarInt that is too big, is `CaughtAstray`: nothing makes
  room there. `NothingTwice` needs that, until offset has been moved back, all that
  was sent lies before the current position (`Sent`), and that a blocking server
  that is up is only sent packets of the stream (`NoRewind`); the refinement needs
  that exactly the packets before the current position have been sent (`Delivered`).
* `JavaSocketsProofs`: every safety property of `JavaSockets`, for any number of
  connections and any set of handle numbers (`SocketsTypes`, `DirectionStable`,
  `ClientsKeepPlayers`, `OneServerEach`, `OrphansAreSwept`, `ReuseAloneMisdirects`,
  `LeaversAloneLeak`, `LossesAreBounded`). No property is inductive alone. The
  invariant `IInv` adds: the list is in order of creation (`Ordered`), what erasing
  and appending keep; how connections, their owners, sockets and protocols hang
  together (`Clients`, `Servers`, `Connected`, `Stages`), from which it follows that
  the two handles of a pair differ and that a login happens once; a number that was
  not given out again leads to the connection made with it or nowhere
  (`HandlesLead`); an orphan lies ahead of the running scan, with a closed handle
  (`OrphansAhead`), because a server's connection is younger than its client's and
  so behind it in the list; and every lost handle is paid for by a player who will
  never be connected (`LossesCounted`).
* `BufferPoolProofs`: `PoolTypes` and `PoolIsExclusive`, for every set of sizes, a
  pool of any length, and packets handled within packets to any depth. Exclusive use
  is not inductive: it needs that a buffer somebody holds is not marked released
  unless it was released early, that the lock is held by the thread that searches,
  and that what it has found is still nobody's when it takes it, although the other
  thread releases without the lock.
* `BufferPoolProofs` also: `PoolIsBounded`, on top of it. The property is about a
  search that finds nothing, and the buffers the search has passed may have been
  released behind it. What bounds the pool is that the other thread cannot take a
  buffer while this one searches: the buffers of the wanted size that have been
  passed and are not this thread's, together with those the other thread has now,
  are no more than the other thread may have (`Counts`; one for Java; for Bedrock
  the datagram, `MaxNested` packets put together within it, a message, the frame set
  around it or an acknowledgement, and `MaxParts` fragments). `Hands` and `Nesting`
  say which of these it has at each place. `Accounted` says that a buffer that is
  not marked released is in the hands of a thread or lost for good.
* `RakNetProofs`, about `RakNetFragments`: `FragmentsTypes` (an entry holds parts of
  its own number only, each in its place) and `PartsAreUsedOnce`, for every network,
  and `GentlePacketsAreWhole`, `GentleBuffersReturn`, for every set of peers and
  packets. While the network is gentle, of the packets that share a number at most
  one is under way (`OneEach`), the entry of the number is exactly its array with
  the parts that have come (`Entries`), there is no entry otherwise (`NoEntries`),
  so that nobody's parts are left when the number is used again; of the buffers,
  those of entries are unreleased and one is kept for each packet that has ended and
  is no game packet. `PointersAssumption` says of the constants that the null
  pointer is no array and uninitialised memory no part. `PartsUsedOnce` becomes
  inductive once a part that waits in `FRAGMENTS` counts as a use that is still to
  come (`UsedOrHeld`): an arrival pays for it, and completing the packet spends it,
  because the entry is forgotten in the same step. `FragmentsAreChannel` is the
  refinement of `PacketChannel`, step by step from the same invariant: a packet is
  complete only when none of its parts is missing, and had not been handled before
  (`HandledOnce`); a step that ends the gentleness may do anything but take back
  what was handled (`HandledGrows`).
* `RakNetProofs`, about `FrameSets`: `FramesReadInOrderHolds`,
  `OnlyFramedGamesMoveReleasedHolds`, for datagrams of any number and size of
  frames, within each other to any depth. Where a frame starts is a sum over those
  before it, so the proof begins with what one more frame adds to it (`Starts`,
  `StartsGrow`). `FrameInv` then says for each place in the loop where `offset`
  leads (`BetweenFrames`, `BehindHeader`, `BehindContent`, all of them cases of
  `Here`): to the frame whose turn it is (`Placed`), with all frames before it read
  and each reading acknowledged, or, after a game packet, behind the frame the
  outermost loop is at (`Gone`). Every loop that waits around the running one goes
  on behind a frame that holds a set and has been read (`Calls`), from which
  `Repeated` follows once it does. That a frame is read where the client put it
  rests on `Advance`, which ignores where the handler has left `offset`; for the
  same reason a buffer that a framed game packet has released does not stay at 0.
  That a frame set within a frame ends where another frame starts comes from
  `FramesAssumption`, about how clients lay out frames.
* `ProxyLifecycleProofs`: `LifecycleTypes`, `LookupsAreComplete`,
  `ThreadsHaveSockets`. The invariant says what the stages that are over have left
  behind (`SocketsMade`, `MapComplete`) and bounds the count of Winsock by them.

* `ConversionsProofs`: `VarIntsReadBackHolds`, for every 32-bit number;
  `FixedReadBackHolds`, for bytes of any even base; `HashIsSignedHexHolds`, for a
  digest of two bytes or more; `Base64ReadsBackHolds`, for strings of any length.
  They are about functions that run over the digits of their input, and each has an
  invariant over the positions of that run. The bytes of a number are what is left
  of it after so many divisions (`RightShifts`, `FixedNumber`); what is left of an
  `int` is below 16 after four groups of seven bits, so that `writeVarInt` stops
  within five bytes and the four bits that `readVarInt` keeps of the fifth are all
  there are (`GroupsOf`, `GroupsGive`). In the complement of a negative digest, the
  number of its first bytes and the signed number of the digest's first bytes add up
  to the carry into them less one, and the carry into all of them is 1
  (`NegatedByte`, `NegatedIs`); the two
  hexadecimal digits of a byte are worth that byte (`HexDigitsAre`), and a leading
  zero is a number below a bound of 16 and zeros (`HalfIs`). In Base64, each of the
  characters of a group holds six bits of at most two bytes, and `Decode` puts the
  halves of a byte together again (`SixBits`, `EightBits`).
* `DataInduction`: the induction these need. The theorems of the library take the
  induction hypothesis as an operator, with which the provers do nothing; here it is
  a set of numbers, and induction follows from the well-foundedness of the order
  of the natural numbers (`Smallest`, `Induction`, `InductionUpTo`). `Recursion`
  says that a function defined by recursion over `a .. b` exists and
  satisfies its definition.

Only model-checked: liveness (`LeaversAreNoticed`, `ShutdownEnds`, the fairness part
of `PipeSpec`), which is out of the prover's reach. What `java_relay_partial` does
not check is proved for it as for `java_relay`: the source is not closed early
(`RelayEndsWithStream`, with the exception it names). `RelayWedgesInHeader` and
`RelayAligned` speak of blocking sockets whose peer is up: in a build which catches
the exception of a split header, such a relay never gets stuck.

## 5. Not modelled

* Unix: `README.md:24` says it is not supported yet and `UnixSockTCP.cpp` does
  not match the structure it fills.
* `memcpy` of overlapping ranges at `src/net/JavaPacketHandler.cpp:34` is
  formally undefined; it is modelled as the copy it is in the Windows runtime.
* OpenSSL: key generation, RSA, SHA-1, AES and the PEM form of the key. The stream
  cipher has a state per connection, but what the proxy relays is not encrypted at
  all (the call at `src/net/JavaPacketHandler.cpp:57` is commented out).
* The fields of the answers to RakNet's offline messages, which are constants and
  echoes, the fields of a Bedrock login, and the address a handshake names: nothing
  in the proxy depends on them.
* What a write behind an array (`StoreBehind`, `OnlyLongStringsOverrun`) or an
  uninitialised pointer goes on to do: the models stop there, or take the pointer
  for no part.
* JSON, the values of the configuration, console output; the time anything takes.

## 6. Plan

What is left, in this order:

1. A refinement for `BufferPool`: an allocator that promises exclusive use, with
   the early releases as its exception. `PoolIsExclusive` says most of what it would.
2. The fields of a Bedrock login, once the proxy uses them.
