------------------------ MODULE ProxyLifecycleProofs ------------------------
(* Proofs about start and shutdown, for every set of servers.  Liveness      *)
(* (ShutdownEnds) is left to TLC.                                            *)
EXTENDS ProxyLifecycle, TLAPS

\* What the stages of the constructor that are over have left behind.
SocketsMade ==
    /\ "Bedrock" \in sections /\ main # "open_bedrock" => beSocket # Null
    /\ "Java" \in sections
       /\ main \notin {"open_bedrock", "start_bedrock", "open_java"}
           => jeSocket # Null
    /\ beThread # "none" => beSocket # Null
    /\ jeThread # "none" => jeSocket # Null

\* The map is complete when instance() returns, and only a thread that has
\* passed instance() looks into it.
MapComplete ==
    /\ jeThread # "none" => "Java" \in sections
    /\ main \notin Constructing /\ "Java" \in sections => servers = configured
    /\ jeThread \in {"session", "lookup"} => main \notin Constructing

\* Each setup adds at most one to the count of Winsock.
StartsCounted ==
    /\ main = "open_bedrock" => started = 0
    /\ main \in {"start_bedrock", "open_java"} => started \in {0, 1}

IInv == TypeOK /\ SocketsMade /\ MapComplete /\ StartsCounted /\ NullOnlyInShutdown

\* A socket is not nullptr.
LEMMA NotNull == Null \notin WinSocks
  BY LifecycleAssumption DEF WinSocks

\* The initial state: no socket, no thread, no server.
LEMMA InitIInv == Init => IInv
  BY DEF Init, IInv, TypeOK, SocketsMade, MapComplete, StartsCounted,
         NullOnlyInShutdown, Constructing, Sections

\* No step of any thread breaks the invariant.
LEMMA NextIInv == IInv /\ [Next]_vars => IInv'
<1> SUFFICES ASSUME IInv, [Next]_vars PROVE IInv'
  OBVIOUS
<1> USE NotNull DEF IInv, TypeOK, SocketsMade, MapComplete, StartsCounted, NullOnlyInShutdown,
        Constructing, Shutting, Sections, config, sockets, threads
<1>1. CASE PassOver
  BY <1>1 DEF PassOver, Stage, Following, Alive
<1>2. CASE OpenBedrock
  BY <1>2 DEF OpenBedrock, Stage, Following, Alive, Setup
<1>3. CASE StartBedrock
  BY <1>3 DEF StartBedrock, Stage, Following, Alive
<1>4. CASE OpenJava
  BY <1>4 DEF OpenJava, Stage, Following, Alive, Setup
<1>5. CASE StartJava
  BY <1>5 DEF StartJava, Stage, Following, Alive
<1>6. CASE CreateServer
  BY <1>6 DEF CreateServer, Alive
<1>7. CASE Constructed
  BY <1>7 DEF Constructed, Alive
<1>8. CASE ConfigThrows
  BY <1>8 DEF ConfigThrows, Alive
<1>9. CASE Shutdown
  BY ZenonT(90), <1>9 DEF Shutdown, Alive
<1>10. CASE StopJava
  <2>1. CleanedUp(started) \in {0, 1, 2}
    BY DEF CleanedUp
  <2>2. QED
    BY <1>10, <2>1 DEF StopJava, Stop, Alive
<1>11. CASE StopBedrock
  <2>1. CleanedUp(started) \in {0, 1, 2}
    BY DEF CleanedUp
  <2>2. QED
    BY <1>11, <2>1 DEF StopBedrock, Stop, Alive
<1>12. CASE JoinJava
  BY <1>12 DEF JoinJava, Alive
<1>13. CASE JoinBedrock
  BY <1>13 DEF JoinBedrock, Alive
<1>14. CASE Bedrock \/ ReceiveDatagram
  <2>1. PICK from \in {"loop", "receive", "handle"},
             to \in {"loop", "receive", "handle", "ended"} : BedrockGoes(from, to)
    BY <1>14 DEF Bedrock, BedrockLoop, ReceiveFails, ReceiveDatagram, HandleDatagram
  <2>2. QED
    BY <2>1 DEF BedrockGoes, Use, Alive
<1>15. CASE Java \/ SendEnds
  <2>1. PICK from \in {"loop", "poll", "handle", "sending", "spinning", "session",
                      "lookup"},
             to \in {"loop", "poll", "handle", "sending", "spinning", "session",
                    "lookup", "ended"} :
           /\ JavaGoes(from, to)
           /\ to = "session" => Instance
           /\ to = "lookup" => Instance \/ from = "session"
    BY <1>15 DEF Java, JavaLoop, PollNothing, PollPacket, Relay, RelaySends,
                 SendFails, SendEnds, RelaySpins, Spin, WaitForInstance, LookUp,
                 AskSession, SessionEnds
  <2>2. QED
    BY <2>1 DEF JavaGoes, Instance, Use, Alive
<1>16. CASE UNCHANGED vars
  BY <1>16 DEF vars
<1>17. QED
  BY <1>1, <1>2, <1>3, <1>4, <1>5, <1>6, <1>7, <1>8, <1>9, <1>10, <1>11, <1>12,
     <1>13, <1>14, <1>15, <1>16
     DEF Next, Main, Ended

\* The invariant holds in every reachable state.
THEOREM LifecycleInvariant == Spec => []IInv
  BY InitIInv, NextIInv, PTL DEF Spec

\* Types, and the count of Winsock stays between 0 and 2.
THEOREM LifecycleTypes == Spec => []TypeOK
<1>1. IInv => TypeOK
  BY DEF IInv
<1>2. QED
  BY LifecycleInvariant, <1>1, PTL

\* Whoever looks a server up finds every server of the configuration, although
\* the Java thread runs before the constructor has added them.
THEOREM LookupsAreComplete == Spec => []LookupsSeeAllServers
<1>1. IInv => LookupsSeeAllServers
  BY DEF IInv, MapComplete, LookupsSeeAllServers
<1>2. QED
  BY LifecycleInvariant, <1>1, PTL

\* A socket that does not exist is met by shutdown only, when a section of the
\* configuration is missing.
THEOREM ThreadsHaveSockets == Spec => []NullOnlyInShutdown
<1>1. IInv => NullOnlyInShutdown
  BY DEF IInv
<1>2. QED
  BY LifecycleInvariant, <1>1, PTL
=============================================================================
