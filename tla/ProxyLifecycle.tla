--------------------------- MODULE ProxyLifecycle ---------------------------
(***************************************************************************)
(* Start and end of the proxy: main, the constructor of Proxy, the two      *)
(* threads it starts, and shutdown.                                         *)
(*                                                                          *)
(* Each section of the configuration brings a socket and a thread.  The     *)
(* constructor goes on while the threads already run; the one Proxy is the  *)
(* static variable of Proxy::instance, so whoever calls instance waits      *)
(* until the constructor has returned, and its members are nullptr before.  *)
(* A thread that has the pointer proxy does not wait.                       *)
(*                                                                          *)
(* Winsock counts WSAStartup and WSACleanup calls.  At zero all sockets of  *)
(* the process are closed, and calls that wait on one return with an error; *)
(* nothing else wakes a recvfrom.                                           *)
(*                                                                          *)
(* running is a plain bool; the loops that read it call the library in      *)
(* between, so that each round reads it again.                              *)
(***************************************************************************)
EXTENDS Integers, FiniteSets

CONSTANTS
    ServerNames,   \* names that may be in the configuration
    Null           \* nullptr

ASSUME LifecycleAssumption == Null \notin [address : BOOLEAN, up : BOOLEAN]

Sections == {"Bedrock", "Java"}

VARIABLES
    sections,    \* configuration: sections with a Host
    configured,  \* configuration: names of the Java servers
    main,        \* where the main thread is
    running,     \* Proxy::running
    beSocket, jeSocket,   \* Null or a WinSock
    beThread, jeThread,   \* where the threads are
    servers,     \* names in Proxy::servers
    started,     \* WSAStartup calls that no WSACleanup has undone
    fault        \* why the process has ended, if not by returning from main

config == <<sections, configured>>
sockets == <<beSocket, jeSocket>>
threads == <<beThread, jeThread>>
vars == <<config, main, running, sockets, threads, servers, started, fault>>

Init ==
    /\ sections \in SUBSET Sections /\ configured \in SUBSET ServerNames
    /\ main = "open_bedrock" /\ running = TRUE
    /\ beSocket = Null /\ jeSocket = Null
    /\ beThread = "none" /\ jeThread = "none"
    /\ servers = {} /\ started = 0 /\ fault = "none"

Alive == fault = "none" /\ main # "exit"

-----------------------------------------------------------------------------
(* The constructor                                                          *)

Constructing == {"open_bedrock", "start_bedrock", "open_java",
                 "start_java", "servers"}

\* Mutant: the Java thread is started before jeSocket is set.
ThreadFirst(stage) ==
    CASE stage = "open_bedrock" -> "start_bedrock"
      [] stage = "start_bedrock" -> "start_java"
      [] stage = "start_java"    -> "open_java"
      [] stage = "open_java"    -> "servers"

\* The order of the constructor.
Following(stage) ==
    CASE stage = "open_bedrock" -> "start_bedrock"
      [] stage = "start_bedrock" -> "open_java"
      [] stage = "open_java"    -> "start_java"
      [] stage = "start_java"    -> "servers"

Stage(stage) == Alive /\ main = stage /\ main' = Following(stage)

\* A missing section is passed over.
PassOver ==
    /\ \/ "Bedrock" \notin sections
          /\ (Stage("open_bedrock") \/ Stage("start_bedrock"))
       \/ "Java" \notin sections /\ (Stage("open_java") \/ Stage("start_java"))
    /\ UNCHANGED <<config, running, sockets, threads, servers, started, fault>>

\* setup: the socket listens, or some call has failed and what WSAStartup did
\* is undone; without WSAStartup or getaddrinfo there is no address.
Setup(s) ==
    \/ s = [address |-> TRUE, up |-> TRUE] /\ started' = started + 1
    \/ \E a \in BOOLEAN : s = [address |-> a, up |-> FALSE] /\ UNCHANGED started

WinSocks == {s \in [address : BOOLEAN, up : BOOLEAN] : s.up => s.address}

OpenBedrock ==
    /\ "Bedrock" \in sections /\ Stage("open_bedrock")
    /\ \E s \in WinSocks : Setup(s) /\ beSocket' = s
    /\ UNCHANGED <<config, running, jeSocket, threads, servers, fault>>

StartBedrock ==
    /\ "Bedrock" \in sections /\ Stage("start_bedrock")
    /\ beThread' = "loop"
    /\ UNCHANGED <<config, running, sockets, jeThread, servers, started, fault>>

OpenJava ==
    /\ "Java" \in sections /\ Stage("open_java")
    /\ \E s \in WinSocks : Setup(s) /\ jeSocket' = s
    /\ UNCHANGED <<config, running, beSocket, threads, servers, fault>>

StartJava ==
    /\ "Java" \in sections /\ Stage("start_java")
    /\ jeThread' = "loop"
    /\ UNCHANGED <<config, running, sockets, beThread, servers, started, fault>>

\* createServer for the next server of the section.
CreateServer ==
    /\ Alive /\ main = "servers" /\ "Java" \in sections
    /\ \E name \in configured \ servers : servers' = servers \cup {name}
    /\ UNCHANGED <<config, main, running, sockets, threads, started, fault>>

\* The constructor returns to instance and that to main.
Constructed ==
    /\ Alive /\ main = "servers"
    /\ "Java" \in sections => servers = configured
    /\ main' = "console"
    /\ UNCHANGED <<config, running, sockets, threads, servers, started, fault>>

\* A value that cannot be read throws; nobody catches the exception, and
\* a thread that runs could not be destroyed either.
ConfigThrows ==
    /\ Alive /\ main \in Constructing
    /\ fault' = "terminate"
    /\ UNCHANGED <<config, main, running, sockets, threads, servers, started>>

-----------------------------------------------------------------------------
(* Shutdown                                                                 *)

\* "end" has been typed.
Shutdown ==
    /\ Alive /\ main = "console"
    /\ running' = FALSE /\ main' = "stop_java"
    /\ UNCHANGED <<config, sockets, threads, servers, started, fault>>

\* Mutant: stop without WSACleanup.
OnlyShutdown(n) == n

\* Mutant: WSACleanup that does not stop at zero.
CleanupAnyway(n) == n - 1

\* WSACleanup fails when there is nothing to clean up.
CleanedUp(n) == IF n = 0 THEN 0 ELSE n - 1

\* stop() of one socket, through nullptr when its section is missing; its
\* first statement reads the address.
Stop(s, next) ==
    \/ s = Null /\ fault' = "nullptr" /\ UNCHANGED <<main, started>>
    \/ s # Null /\ ~s.address /\ fault' = "address" /\ UNCHANGED <<main, started>>
    \/ s # Null /\ started' = CleanedUp(started) /\ main' = next /\ UNCHANGED fault

StopJava ==
    /\ Alive /\ main = "stop_java"
    /\ Stop(jeSocket, "stop_bedrock")
    /\ UNCHANGED <<config, running, sockets, threads, servers>>

StopBedrock ==
    /\ Alive /\ main = "stop_bedrock"
    /\ Stop(beSocket, "join_java")
    /\ UNCHANGED <<config, running, sockets, threads, servers>>

JoinJava ==
    /\ Alive /\ main = "join_java" /\ jeThread = "ended"
    /\ main' = "join_bedrock"
    /\ UNCHANGED <<config, running, sockets, threads, servers, started, fault>>

\* The last join; then main finds that the proxy does not run and returns.
JoinBedrock ==
    /\ Alive /\ main = "join_bedrock" /\ beThread = "ended"
    /\ main' = "exit"
    /\ UNCHANGED <<config, running, sockets, threads, servers, started, fault>>

Main ==
    \/ PassOver \/ OpenBedrock \/ StartBedrock \/ OpenJava \/ StartJava
    \/ CreateServer \/ Constructed
    \/ StopJava \/ StopBedrock \/ JoinJava \/ JoinBedrock

-----------------------------------------------------------------------------
(* The threads                                                              *)

Up(s) == s # Null /\ s.up /\ started > 0

\* Each thread runs a method of its socket, and its handlers send through the
\* socket of the proxy, which is the same.
Use(s) == fault' = IF s = Null THEN "nullptr" ELSE fault

BedrockGoes(from, to) ==
    /\ Alive /\ beThread = from /\ beThread' = to
    /\ Use(beSocket)
    /\ UNCHANGED <<config, main, running, sockets, jeThread, servers, started>>

\* while (proxy->isRunning())
BedrockLoop == BedrockGoes("loop", IF running THEN "receive" ELSE "ended")

\* recvfrom waits for a datagram as long as its socket is up.
ReceiveFails == ~Up(beSocket) /\ BedrockGoes("receive", "loop")
ReceiveDatagram == Up(beSocket) /\ BedrockGoes("receive", "handle")

\* A datagram is handled and answered through getBeSocket.
HandleDatagram == BedrockGoes("handle", "loop")

JavaGoes(from, to) ==
    /\ Alive /\ jeThread = from /\ jeThread' = to
    /\ Use(jeSocket)
    /\ UNCHANGED <<config, main, running, sockets, beThread, servers, started>>

JavaLoop == JavaGoes("loop", IF running THEN "poll" ELSE "ended")

\* Nothing waits on the non-blocking listening socket or in select.
PollNothing == JavaGoes("poll", "loop")
PollPacket == Up(jeSocket) /\ JavaGoes("poll", "handle")

\* The packets in the buffer are relayed through getJeSocket of the member
\* proxy, and handle returns, ...
Relay == JavaGoes("handle", "loop")

\* ... or it does not for now: a blocking send waits for a server to read, or
\* a packet whose negative length leads back to itself is sent over and over.
RelaySends == JavaGoes("handle", "sending")

\* Sends fail once the sockets of the process are closed.
SendFails == ~Up(jeSocket) /\ JavaGoes("sending", "loop")

\* The server reads, or whoever is sent the packet closes the connection.
SendEnds == Up(jeSocket) /\ JavaGoes("sending", "loop")

\* Such a packet with nobody to send it to: handle reads it for ever.
RelaySpins == JavaGoes("handle", "spinning")
Spin == JavaGoes("spinning", "spinning")

\* Mutant: the handlers have a pointer to the proxy of their own.
AnyInstance == TRUE

\* Proxy::instance() returns.
Instance == main \notin Constructing

\* A login: the handlers call instance.
WaitForInstance == Instance /\ JavaGoes("handle", "lookup")

\* getServer("hub") and what follows on the socket.
LookUp == JavaGoes("lookup", "loop")

\* encryptionResponse, after a loginStart that has gone through instance: the
\* thread waits for the session server, and all its connections with it.
AskSession == Instance /\ JavaGoes("handle", "session")

\* The request ends by itself: answered, refused, or given up by the client,
\* whose own timeout applies (the five seconds are set on a copy of its
\* configuration).  Then the player is sent to a server, or the exception or
\* the refusal leads back to the loop.
SessionEnds == \E to \in {"lookup", "loop"} : JavaGoes("session", to)

Bedrock == BedrockLoop \/ ReceiveFails \/ HandleDatagram
Java ==
    \/ JavaLoop \/ PollNothing \/ PollPacket
    \/ Relay \/ RelaySends \/ SendFails \/ RelaySpins \/ Spin
    \/ WaitForInstance \/ LookUp \/ AskSession \/ SessionEnds

\* The process has ended.
Ended == ~Alive /\ UNCHANGED vars

Next ==
    \/ Main \/ ConfigThrows \/ Shutdown
    \/ Bedrock \/ ReceiveDatagram \/ Java \/ SendEnds
    \/ Ended

\* The system runs all three threads, and a request to the session server is
\* given up in the end.  Nothing is assumed of who types "end", of who sends
\* datagrams or packets, or of a server that does not read.
Fairness == WF_vars(Main) /\ WF_vars(Bedrock) /\ WF_vars(Java)

Spec == Init /\ [][Next]_vars /\ Fairness

-----------------------------------------------------------------------------
Shutting == {"stop_java", "stop_bedrock", "join_java", "join_bedrock", "exit"}

\* Types; the count of Winsock is never more than the sockets that are open.
TypeOK ==
    /\ sections \subseteq Sections /\ configured \subseteq ServerNames
    /\ main \in Constructing \cup {"console"} \cup Shutting
    /\ running \in BOOLEAN
    /\ beSocket \in WinSocks \cup {Null} /\ jeSocket \in WinSocks \cup {Null}
    /\ beThread \in {"none", "loop", "receive", "handle", "ended"}
    /\ jeThread \in {"none", "loop", "poll", "handle", "sending", "spinning",
                    "session", "lookup", "ended"}
    /\ servers \subseteq configured /\ started \in {0, 1, 2}
    /\ fault \in {"none", "nullptr", "address", "terminate"}

\* The Java thread runs before the servers map is filled, yet whoever looks a
\* server up finds all of them: instance() waits for the constructor.
\* The same goes for the login that waits for the session server meanwhile.
LookupsSeeAllServers == jeThread \in {"session", "lookup"} => servers = configured

\* No thread ever uses a socket before it exists: nullptr is only met by
\* shutdown, and only when a section of the configuration is missing.
NullOnlyInShutdown ==
    fault = "nullptr" => main \in Shutting /\ sections # Sections

\* Once "end" has been typed the process ends: the Java loop sees running, and
\* the last WSACleanup wakes the Bedrock thread and ends a send that waits,
\* whichever sockets came up; a login in progress holds the join up only until
\* its request is given up.  The one packet that keeps the process alive is
\* one that handle reads for ever without a send.
ShutdownEnds ==
    main = "stop_java" ~> main = "exit" \/ fault # "none" \/ jeThread = "spinning"
=============================================================================
