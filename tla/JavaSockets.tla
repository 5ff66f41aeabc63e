---------------------------- MODULE JavaSockets -----------------------------
(***************************************************************************)
(* The Java side of the proxy on Windows: the list of connections, the      *)
(* players that own them and the SOCKET handles of the process.             *)
(*                                                                          *)
(* One thread runs WinSockTCP::start: it accepts at most one client, then   *)
(* walks the list and polls every connection.  std::async returns a future  *)
(* that is discarded, so the loop waits for each handle call: a visit of a  *)
(* connection and what handle does with the packet are one step.  A call    *)
(* that does not return, or not yet, because its send waits for a server,   *)
(* stops the whole loop.  Players and servers act in between: they send,    *)
(* close or reset at any time.                                              *)
(*                                                                          *)
(* A handle is only a number.  Once closesocket has freed it, Windows may   *)
(* give the same number to the next accept or socket call.  endpoint says   *)
(* which connection a handle number leads to now, socket[c] which number    *)
(* connection c was created with.                                           *)
(***************************************************************************)
EXTENDS Integers, Sequences, SequencesExt

CONSTANTS
    Handles,     \* handle numbers the system may give out
    Null,        \* nullptr
    MaxConns,    \* connections ever made, so that a run is finite
    Online       \* Proxy::isOnline

ASSUME SocketsAssumption ==
    /\ Null \notin Handles
    /\ MaxConns \in Nat
    /\ Online \in BOOLEAN

ConnIds == 1 .. MaxConns
Nobody == 0      \* a handle that leads nowhere, an owner that is nullptr
Lost == -1       \* an open handle nothing in the process remembers

VARIABLES
    connections,  \* the list, a sequence of connection numbers
    next,         \* what the loop does: 0 accepts, n visits connections[n]
    made,         \* connections made so far, numbered in this order
    \* Connection
    socket, protocol, processing, owner,
    \* Player, numbered as the connection of its client
    status,       \* "none", "live", or "deleted"
    playerSocket, connectingSocket, named,
    \* the system
    endpoint,     \* handle -> the connection it leads to, Nobody or Lost
    peer,         \* connection -> what its remote end has done
    \* history
    used,         \* handles that were given out at least once
    reissued,     \* handles that were closed and given out again
    stray,        \* a packet has gone to an endpoint of somebody else
    fault,        \* "use after free" once handle has used a deleted player
    handle        \* the last call of handle: "returned", "sending" while it
                  \* waits for a server to read, or "endless"

connVars == <<socket, protocol, processing, owner>>
playerVars == <<status, playerSocket, connectingSocket, named>>
history == <<used, reissued, stray, fault>>
tables == <<connections, next, made, connVars, playerVars, endpoint, peer, history>>
vars == <<tables, handle>>

Free == {h \in Handles : endpoint[h] = Nobody}

Init ==
    /\ connections = << >> /\ next = 0 /\ made = 0
    /\ socket = [c \in ConnIds |-> Null]
    /\ protocol = [c \in ConnIds |-> "Handshake"]
    /\ processing = [c \in ConnIds |-> FALSE]
    /\ owner = [c \in ConnIds |-> Nobody]
    /\ status = [c \in ConnIds |-> "none"]
    /\ playerSocket = [c \in ConnIds |-> Null]
    /\ connectingSocket = [c \in ConnIds |-> Null]
    /\ named = [c \in ConnIds |-> FALSE]
    /\ endpoint = [h \in Handles |-> Nobody]
    /\ peer = [c \in ConnIds |-> "open"]
    /\ used = {} /\ reissued = {} /\ stray = FALSE /\ fault = "none"
    /\ handle = "returned"

-----------------------------------------------------------------------------
(* The loop of WinSockTCP::start                                            *)

InList(c) == \E i \in DOMAIN connections : connections[i] = c

Visiting(c) ==
    /\ fault = "none" /\ next \in DOMAIN connections
    /\ c = connections[next]

Advance == next' = next + 1

\* After a packet that changed the connection the buffer may hold another one,
\* which is handled before the loop goes on.
AdvanceOrStay == next' \in {next, next + 1}

\* Mutant: the iterator is advanced after erase has done so.
EraseAndSkip(c) ==
    /\ connections' = RemoveAt(connections, next)
    /\ protocol' = [protocol EXCEPT ![c] = Null]
    /\ Advance

\* iter = connections.erase(iter).  The connection is unreachable from now on.
Erase(c) ==
    /\ connections' = RemoveAt(connections, next)
    /\ protocol' = [protocol EXCEPT ![c] = Null]
    /\ UNCHANGED next

\* The system gives out handle h for connection c.
Open(h, c) ==
    /\ endpoint' = [endpoint EXCEPT ![h] = c]
    /\ used' = used \cup {h}
    /\ reissued' = IF h \in used THEN reissued \cup {h} ELSE reissued

\* Mutant: push_front.
NewConnectionFirst(c, h, o) ==
    /\ made' = c
    /\ socket' = [socket EXCEPT ![c] = h]
    /\ connections' = <<c>> \o connections
    /\ Open(h, c)
    /\ owner' = [owner EXCEPT ![c] = o]

\* new Connection{h, protocol, buffer, false, state, o} and push_back.
NewConnection(c, h, o) ==
    /\ made' = c
    /\ socket' = [socket EXCEPT ![c] = h]
    /\ connections' = Append(connections, c)
    /\ Open(h, c)
    /\ owner' = [owner EXCEPT ![c] = o]

Accept ==
    /\ fault = "none" /\ next = 0 /\ made < MaxConns
    /\ \E h \in Free : NewConnection(made + 1, h, Nobody)
    /\ next' = 1
    /\ UNCHANGED <<protocol, processing, playerVars, peer, stray, fault>>

AcceptNobody ==
    /\ fault = "none" /\ next = 0
    /\ next' = 1
    /\ UNCHANGED <<connections, made, connVars, playerVars, endpoint, peer, history>>

EndOfList ==
    /\ fault = "none" /\ next > Len(connections)
    /\ next' = 0
    /\ UNCHANGED <<connections, made, connVars, playerVars, endpoint, peer, history>>

\* Where the socket of c leads now, and what select and recv say of it.
Source(c) == endpoint[socket[c]]
HasData(c) == Source(c) \in ConnIds /\ peer[Source(c)] = "open"

\* Mutant: continue without iter++.
SkipForever(c) ==
    /\ Visiting(c)
    /\ processing[c] \/ HasData(c) \/ Source(c) = Lost
    /\ UNCHANGED tables

\* processing is true, which after std::async has waited means that handle has
\* thrown; or there is nothing to read, or packets that change nothing here.
Skip(c) ==
    /\ Visiting(c)
    /\ processing[c] \/ HasData(c) \/ Source(c) = Lost
    /\ Advance
    /\ UNCHANGED <<connections, made, connVars, playerVars, endpoint, peer, history>>

\* select fails on a closed handle: the connection leaves the list, and that
\* is all that happens to it.
SelectError(c) ==
    /\ Visiting(c) /\ ~processing[c] /\ Source(c) = Nobody
    /\ Erase(c)
    /\ UNCHANGED <<made, socket, processing, owner, playerVars, endpoint, peer, history>>

\* recv fails: the same.
RecvError(c) ==
    /\ Visiting(c) /\ ~processing[c]
    /\ Source(c) \in ConnIds /\ peer[Source(c)] = "reset"
    /\ Erase(c)
    /\ UNCHANGED <<made, socket, processing, owner, playerVars, endpoint, peer, history>>

Dangling(c) == owner[c] # Nobody /\ status[owner[c]] = "deleted"

\* Mutant: the server's socket stays open.
NotClosed(h) == endpoint

\* closesocket: the handle number leads nowhere and may be given out again.
Closed(h) ==
    IF h = Null THEN endpoint ELSE [endpoint EXCEPT ![h] = Nobody]

\* Mutant: the player is deleted whichever end has left.
DeletedByAnyone(o, c) == [status EXCEPT ![o] = "deleted"]

\* The player is deleted when it is its client that has left.
DeletedBy(o, c) ==
    IF playerSocket[o] = socket[c] THEN [status EXCEPT ![o] = "deleted"]
                                   ELSE status

\* recv returns 0.  The owner's connectingSocket is closed whoever has left,
\* and keeps its value; the client's own socket is not closed.
RecvZero(c) ==
    /\ Visiting(c) /\ ~processing[c] /\ ~Dangling(c)
    /\ Source(c) \in ConnIds /\ peer[Source(c)] = "closed"
    /\ Erase(c)
    /\ IF owner[c] = Nobody
       THEN UNCHANGED <<endpoint, status>>
       ELSE /\ endpoint' = Closed(connectingSocket[owner[c]])
            /\ status' = DeletedBy(owner[c], c)
    /\ UNCHANGED <<made, socket, processing, owner, playerSocket,
                   connectingSocket, named, peer, history>>

\* handle and disconnect read the owner first thing.
UseAfterFree(c) ==
    /\ Visiting(c) /\ ~processing[c] /\ Dangling(c)
    /\ Source(c) \in ConnIds /\ peer[Source(c)] \in {"open", "closed"}
    /\ fault' = "use after free"
    /\ UNCHANGED <<connections, next, made, connVars, playerVars, endpoint, peer,
                   used, reissued, stray>>

-----------------------------------------------------------------------------
(* JavaPacketHandler::handle with one packet, and the handlers of the       *)
(* connection's protocol.                                                   *)

Handling(c) ==
    /\ Visiting(c) /\ ~processing[c] /\ HasData(c) /\ ~Dangling(c)

FromClient(c) == owner[c] # Nobody => socket[c] = playerSocket[owner[c]]

\* An exception leaves handle: processing stays true.
Throw(c) ==
    /\ Handling(c)
    /\ processing' = [processing EXCEPT ![c] = TRUE]
    /\ Advance
    /\ UNCHANGED <<connections, made, socket, protocol, owner, playerVars,
                   endpoint, peer, history>>

\* Mutant: the constructor leaves the socket out.
NewPlayerNoSocket(c) ==
    /\ owner' = [owner EXCEPT ![c] = c]
    /\ status' = [status EXCEPT ![c] = "live"]
    /\ UNCHANGED playerSocket

\* new Player(proxy, from->socket), owned by c.
NewPlayer(c) ==
    /\ owner' = [owner EXCEPT ![c] = c]
    /\ status' = [status EXCEPT ![c] = "live"]
    /\ playerSocket' = [playerSocket EXCEPT ![c] = socket[c]]

\* Handshake::handshake with next state 2.
HandshakeLogin(c) ==
    /\ Handling(c) /\ protocol[c] = "Handshake"
    /\ NewPlayer(c)
    /\ protocol' = [protocol EXCEPT ![c] = "ClientLogin"]
    /\ AdvanceOrStay
    /\ UNCHANGED <<connections, made, socket, processing, connectingSocket, named,
                   endpoint, peer, history>>

\* Handshake::handshake with any other state.
HandshakeStatus(c) ==
    /\ Handling(c) /\ protocol[c] = "Handshake"
    /\ protocol' = [protocol EXCEPT ![c] = "ClientStatus"]
    /\ AdvanceOrStay
    /\ UNCHANGED <<connections, made, socket, processing, owner, playerVars,
                   endpoint, peer, history>>

\* Mutant: the protocol of the client stays ClientLogin.
ConnectAgain(c) ==
    /\ made < MaxConns
    /\ \E h \in Free :
           /\ NewConnection(made + 1, h, owner[c])
           /\ connectingSocket' = [connectingSocket EXCEPT ![owner[c]] = h]
           /\ protocol' = [protocol EXCEPT ![made + 1] = "ServerLogin"]

\* sendToDefaultServer and Player::connect, which succeeds...
Connect(c) ==
    /\ made < MaxConns
    /\ \E h \in Free :
           /\ NewConnection(made + 1, h, owner[c])
           /\ connectingSocket' = [connectingSocket EXCEPT ![owner[c]] = h]
           /\ protocol' = [protocol EXCEPT ![c] = "ClientPlay",
                                           ![made + 1] = "ServerLogin"]

\* Mutant: the protocol of the client stays ClientLogin.
FailsAndRetries(c) ==
    /\ \/ UNCHANGED <<endpoint, used, reissued>>
       \/ \E h \in Free : Open(h, Lost)
    /\ UNCHANGED <<protocol, connections, made, socket, owner, connectingSocket>>

\* ... or does not, for want of a server or because connect fails and the
\* handle made for it is forgotten: the player is told.
ConnectFails(c) ==
    /\ \/ UNCHANGED <<endpoint, used, reissued>>
       \/ \E h \in Free : Open(h, Lost)
    /\ protocol' = [protocol EXCEPT ![c] = "ClientPlay"]
    /\ UNCHANGED <<connections, made, socket, owner, connectingSocket>>

\* ClientLogin::loginStart, online: the encryption request is sent.
LoginStartOnline(c) ==
    /\ Handling(c) /\ protocol[c] = "ClientLogin" /\ Online
    /\ named' = [named EXCEPT ![owner[c]] = TRUE]
    /\ AdvanceOrStay
    /\ UNCHANGED <<connections, made, connVars, status, playerSocket,
                   connectingSocket, endpoint, peer, history>>

\* ClientLogin::loginStart, offline.
LoginStartOffline(c) ==
    /\ Handling(c) /\ protocol[c] = "ClientLogin" /\ ~Online
    /\ named' = [named EXCEPT ![owner[c]] = TRUE]
    /\ Connect(c) \/ ConnectFails(c)
    /\ AdvanceOrStay
    /\ UNCHANGED <<processing, status, playerSocket, peer, stray, fault>>

\* ClientLogin::encryptionResponse, verified: the token matches, and the
\* session server confirms the name loginStart has set.  When it is refused
\* the player is told and nothing changes; when it throws, see Throw.
EncryptionResponse(c) ==
    /\ Handling(c) /\ protocol[c] = "ClientLogin" /\ named[owner[c]]
    /\ Connect(c) \/ ConnectFails(c)
    /\ AdvanceOrStay
    /\ UNCHANGED <<processing, named, status, playerSocket, peer, stray, fault>>

\* Both ends belong to one player.
Pair(a, b) == a # b /\ owner[a] # Nobody /\ owner[a] = owner[b]

\* send(h, packet): what c has read goes where h leads now, if anywhere.
Send(c, h) ==
    stray' = (stray \/ (endpoint[h] \in ConnIds /\ ~Pair(Source(c), endpoint[h])))

\* A packet of the client with no handler of its own.
ForwardToServer(c) ==
    /\ Handling(c) /\ FromClient(c) /\ owner[c] # Nobody
    /\ connectingSocket[owner[c]] # Null
    /\ Send(c, connectingSocket[owner[c]])
    /\ Advance
    /\ UNCHANGED <<connections, made, connVars, playerVars, endpoint, peer,
                   used, reissued, fault>>

\* A packet of the server; ServerLogin::loginSuccess changes the protocol.
ForwardToClient(c) ==
    /\ Handling(c) /\ ~FromClient(c)
    /\ \/ UNCHANGED protocol
       \/ protocol[c] = "ServerLogin"
          /\ protocol' = [protocol EXCEPT ![c] = "ServerPlay"]
    /\ Send(c, playerSocket[owner[c]])
    /\ Advance
    /\ UNCHANGED <<connections, made, socket, processing, owner, playerVars,
                   endpoint, peer, used, reissued, fault>>

-----------------------------------------------------------------------------
(* The environment                                                          *)

\* The loop polls the handle of c.  What other peers do makes no difference.
Polled(c) ==
    \E d \in ConnIds : InList(d) /\ ~processing[d] /\ Source(d) = c

PeerCloses(c) ==
    /\ Polled(c) /\ peer[c] = "open"
    /\ peer' = [peer EXCEPT ![c] = "closed"]
    /\ UNCHANGED <<connections, next, made, connVars, playerVars, endpoint, history>>

PeerResets(c) ==
    /\ Polled(c) /\ peer[c] = "open"
    /\ peer' = [peer EXCEPT ![c] = "reset"]
    /\ UNCHANGED <<connections, next, made, connVars, playerVars, endpoint, history>>

Visit(c) ==
    \/ Skip(c) \/ SelectError(c) \/ RecvError(c) \/ RecvZero(c)
    \/ UseAfterFree(c) \/ Throw(c)
    \/ HandshakeLogin(c) \/ HandshakeStatus(c)
    \/ LoginStartOnline(c) \/ LoginStartOffline(c) \/ EncryptionResponse(c)
    \/ ForwardToServer(c) \/ ForwardToClient(c)

Turn == Accept \/ AcceptNobody \/ EndOfList \/ \E c \in ConnIds : Visit(c)

\* The loop goes on as long as the calls of handle return.
Loop == handle = "returned" /\ Turn /\ UNCHANGED handle

\* send waits: the sockets made by createSocket are blocking, and the server
\* does not read.
SendWaits(c) ==
    /\ handle = "returned" /\ ForwardToServer(c)
    /\ LET server == endpoint[connectingSocket[owner[c]]]
       IN  server \in ConnIds /\ peer[server] = "open"
    /\ handle' = "sending"

\* The server reads on, or its end of the connection is gone.
SendReturns ==
    /\ handle = "sending" /\ handle' = "returned"
    /\ UNCHANGED tables

\* A packet no handler knows, of a length that leads offset back to its own
\* header: handle passes it on, if there is somebody to pass it to, and reads
\* it again, over and over.
HandleSpins(c) ==
    /\ handle = "returned" /\ Handling(c)
    /\ handle' = "endless"
    /\ UNCHANGED tables

\* After a use of freed memory anything may happen; the model stops, as the
\* loop does with a call of handle that never returns.
Undefined == (fault # "none" \/ handle = "endless") /\ UNCHANGED vars

Peers == UNCHANGED handle /\ \E c \in ConnIds : PeerCloses(c) \/ PeerResets(c)

Next ==
    \/ Loop
    \/ \E c \in ConnIds : SendWaits(c) \/ HandleSpins(c)
    \/ SendReturns
    \/ Peers
    \/ Undefined

\* The loop runs as long as the proxy does.  Nothing makes a server read.
Spec == Init /\ [][Next]_vars /\ WF_vars(Loop)

-----------------------------------------------------------------------------
Protocols == {"Handshake", "ClientStatus", "ClientLogin", "ClientPlay",
              "ServerLogin", "ServerPlay"}

TablesOK ==
    /\ connections \in Seq(1 .. made) /\ made \in 0 .. MaxConns
    /\ next \in 0 .. Len(connections) + 1
    /\ socket \in [ConnIds -> Handles \cup {Null}]
    /\ protocol \in [ConnIds -> Protocols \cup {Null}]
    /\ processing \in [ConnIds -> BOOLEAN]
    /\ owner \in [ConnIds -> ConnIds \cup {Nobody}]
    /\ status \in [ConnIds -> {"none", "live", "deleted"}]
    /\ playerSocket \in [ConnIds -> Handles \cup {Null}]
    /\ connectingSocket \in [ConnIds -> Handles \cup {Null}]
    /\ named \in [ConnIds -> BOOLEAN]
    /\ endpoint \in [Handles -> ConnIds \cup {Nobody, Lost}]
    /\ peer \in [ConnIds -> {"open", "closed", "reset"}]
    /\ reissued \subseteq used /\ used \subseteq Handles /\ stray \in BOOLEAN
    /\ fault \in {"none", "use after free"}

TypeOK == TablesOK /\ handle \in {"returned", "sending", "endless"}

\* handle tells the two directions apart by comparing handle numbers only.
\* Even when numbers are reused it never takes a server's connection for the
\* client's, nor the other way round.
DirectionIsStable ==
    \A c \in ConnIds : owner[c] # Nobody => (FromClient(c) <=> owner[c] = c)

\* A player is deleted only together with the connection of its own client,
\* so it is deleted once, and no client is ever served for a deleted player.
ClientKeepsPlayer ==
    \A c \in ConnIds : InList(c) /\ owner[c] = c => status[c] = "live"

\* No player is ever connected to two servers.
OneServer ==
    \A c, d \in ConnIds :
        owner[c] = owner[d] /\ owner[c] \notin {Nobody, c, d} => c = d

\* When a client leaves, the connection of its server is left behind with a
\* deleted owner.  It is further down the list, so the scan that deletes the
\* player also erases it, unless it is wedged, or its handle number has been
\* given out again before the scan gets there.
OrphansSwept ==
    next = 0 => \A c \in ConnIds :
        InList(c) /\ Dangling(c) /\ ~processing[c] => socket[c] \in reissued

\* As long as the system gives out no handle number twice, every packet goes
\* to the other end of its own player's pair, and no deleted player is used.
OnlyReuseMisdirects == reissued = {} => ~stray /\ fault = "none"

\* The handle of c is open, and nothing in the process will ever close it: the
\* loop no longer polls c, and its owner has no other use for it.
Leaked(c) == c <= made /\ ~InList(c) /\ Source(c) = c

\* A handle leaks only with a peer that has left: every client that leaves
\* leaves its handle behind, a server only when it resets, because closing it
\* is left to the clean-up of its player (src/net/WinSockTCP.cpp:78-88).
OnlyLeaversLeak ==
    \A c \in ConnIds : Leaked(c) =>
        \/ peer[c] = "reset"
        \/ peer[c] = "closed" /\ owner[c] \in {Nobody, c}

\* A player whose login has led to no server.
Unserved(p) == status[p] # "none" /\ named[p] /\ connectingSocket[p] = Null

\* A connect that fails loses the handle made for it (WinSockTCP.cpp:125), and
\* a login does so at most once however often its packets are repeated: there
\* are never more lost handles than players who have been given no server.
OneLossPerLogin ==
    Cardinality({h \in Handles : endpoint[h] = Lost})
        <= Cardinality({p \in ConnIds : Unserved(p)})

\* As long as every call of handle returns, a peer that has closed is noticed,
\* however the others behave, unless its own connection is wedged or its
\* handle was closed under it.  One client whose packet handle does not get
\* past, or one server that does not read, is enough to leave all the others
\* unnoticed: the one thread serves them all.
LeaversAreNoticed ==
    []<>(handle = "returned") =>
        \A c \in ConnIds :
            InList(c) /\ Source(c) = c /\ peer[c] = "closed" ~>
                ~InList(c) \/ processing[c] \/ Source(c) # c \/ fault # "none"

\* Packets only ever go to the other end of their own player's pair.
PacketsReachOwnPeer == ~stray
=============================================================================
