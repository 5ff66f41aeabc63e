-------------------------- MODULE JavaSocketsProofs --------------------------
(***************************************************************************)
(* Proofs about JavaSockets for any number of connections and any set of    *)
(* handle numbers: the safety properties its run checks.                    *)
(***************************************************************************)
EXTENDS JavaSockets, SequenceTheorems, FiniteSetTheorems, TLAPS

-----------------------------------------------------------------------------
(* The inductive invariant                                                  *)

\* A step as far as the tables are concerned: whether the calls of handle
\* return makes no difference to what they do.
TableStep == Turn \/ \E c \in ConnIds : PeerCloses(c) \/ PeerResets(c)

\* Connections stay in the list in the order in which they were made.
Ordered ==
    \A i, j \in DOMAIN connections : i < j => connections[i] < connections[j]

Served(c) == owner[c] \notin {Nobody, c}

\* What has not been made yet is as Init left it.
Unmade ==
    \A c \in ConnIds : c > made =>
        owner[c] = Nobody /\ protocol[c] = "Handshake" /\ ~processing[c]

\* A client's connection has a player of the same number, which knows its socket.
Clients ==
    \A c \in ConnIds :
        IF owner[c] = c
        THEN status[c] # "none" /\ playerSocket[c] = socket[c]
        ELSE status[c] = "none" /\ connectingSocket[c] = Null /\ ~named[c]

\* A server's connection belongs to the player of an older one that has done
\* with its login, and has another handle number.
Servers ==
    \A c \in ConnIds : Served(c) =>
        /\ owner[owner[c]] = owner[c] /\ owner[c] < c
        /\ socket[c] = connectingSocket[owner[c]]
        /\ socket[c] # socket[owner[c]]
        /\ InList(owner[c]) => protocol[owner[c]] = "ClientPlay"

\* connectingSocket is the socket of some server's connection.
Connected ==
    \A p \in ConnIds : connectingSocket[p] # Null =>
        \E c \in ConnIds : Served(c) /\ owner[c] = p /\ socket[c] = connectingSocket[p]

\* The protocol tells how far a connection has come.
Stages ==
    \A c \in ConnIds : InList(c) =>
        /\ protocol[c] = "Handshake" => owner[c] = Nobody
        /\ protocol[c] = "ClientLogin" => owner[c] = c /\ connectingSocket[c] = Null

\* Unless it has been given out again, a handle number leads to the connection
\* made with it, or nowhere.
HandlesLead ==
    \A c \in 1 .. made :
        /\ socket[c] \in used
        /\ socket[c] \in reissued \/ endpoint[socket[c]] \in {c, Nobody}

\* This scan has still to visit c.
Ahead(c) == next >= 1 /\ \E i \in DOMAIN connections : i >= next /\ connections[i] = c

\* The connection of a server without a player waits for this scan, with a
\* handle that is closed.
OrphansAhead ==
    \A c \in ConnIds : InList(c) /\ Dangling(c) =>
        \/ processing[c] \/ socket[c] \in reissued
        \/ endpoint[socket[c]] = Nobody /\ Ahead(c)

LostHandles == {h \in Handles : endpoint[h] = Lost}

\* Players who will never be connected to a server.
GivenUp ==
    {p \in ConnIds : Unserved(p) /\ ~(InList(p) /\ protocol[p] = "ClientLogin")}

\* Each of them accounts for one lost handle at most.
LossesCounted ==
    /\ IsFiniteSet(LostHandles) /\ IsFiniteSet(GivenUp)
    /\ Cardinality(LostHandles) <= Cardinality(GivenUp)

Players == Unmade /\ Clients /\ Servers /\ Connected /\ Stages /\ OneServer

Core == TablesOK /\ Ordered /\ Players /\ ClientKeepsPlayer /\ HandlesLead

IInv == Core /\ OrphansAhead /\ OnlyReuseMisdirects /\ OnlyLeaversLeak /\ LossesCounted

-----------------------------------------------------------------------------
(* The list                                                                 *)

LEMMA Removed ==
    ASSUME NEW S, NEW s \in Seq(S), NEW i \in DOMAIN s
    PROVE  /\ RemoveAt(s, i) \in Seq(S)
           /\ Len(RemoveAt(s, i)) = Len(s) - 1
           /\ \A k \in 1 .. Len(s) - 1 :
                  RemoveAt(s, i)[k] = IF k < i THEN s[k] ELSE s[k + 1]
<1> DEFINE front == SubSeq(s, 1, i - 1)
           back == SubSeq(s, i + 1, Len(s))
<1>1. /\ Len(s) \in Nat /\ i \in 1 .. Len(s)
      /\ \A k \in 1 .. Len(s) : s[k] \in S
  BY LenProperties, ElementOfSeq
<1>2. /\ front \in Seq(S) /\ Len(front) = i - 1
      /\ \A k \in 1 .. i - 1 : front[k] = s[k]
  <2>1. \A k \in 1 .. i - 1 : s[k] \in S
    BY <1>1
  <2>2. /\ front \in Seq(S)
        /\ Len(front) = IF 1 <= i - 1 THEN (i - 1) - 1 + 1 ELSE 0
        /\ \A k \in 1 .. (i - 1) - 1 + 1 : front[k] = s[1 + k - 1]
    BY <1>1, <2>1, SubSeqProperties
  <2> QED BY <1>1, <2>2
<1>3. /\ back \in Seq(S) /\ Len(back) = Len(s) - i
      /\ \A k \in 1 .. Len(s) - i : back[k] = s[i + k]
  <2>1. \A k \in i + 1 .. Len(s) : s[k] \in S
    BY <1>1
  <2>2. /\ back \in Seq(S)
        /\ Len(back) = IF i + 1 <= Len(s) THEN Len(s) - (i + 1) + 1 ELSE 0
        /\ \A k \in 1 .. Len(s) - (i + 1) + 1 : back[k] = s[(i + 1) + k - 1]
    BY SMTT(60), <1>1, <2>1, SubSeqProperties
  <2> QED BY <1>1, <2>2
<1>4. ASSUME NEW f \in Seq(S), NEW b \in Seq(S), NEW r, r = f \o b,
             Len(f) = i - 1, Len(b) = Len(s) - i,
             \A k \in 1 .. i - 1 : f[k] = s[k],
             \A k \in 1 .. Len(s) - i : b[k] = s[i + k]
      PROVE  /\ r \in Seq(S) /\ Len(r) = Len(s) - 1
             /\ \A k \in 1 .. Len(s) - 1 : r[k] = IF k < i THEN s[k] ELSE s[k + 1]
  <2>1. /\ r \in Seq(S) /\ Len(r) = Len(f) + Len(b)
        /\ \A k \in 1 .. Len(f) + Len(b) :
               r[k] = IF k <= Len(f) THEN f[k] ELSE b[k - Len(f)]
    BY ZenonT(90), <1>4, ConcatProperties
  <2>2. Len(r) = Len(s) - 1
    BY <2>1, <1>1, <1>4
  <2>3. ASSUME NEW k \in 1 .. Len(s) - 1
        PROVE  r[k] = IF k < i THEN s[k] ELSE s[k + 1]
    <3>1. r[k] = IF k <= i - 1 THEN f[k] ELSE b[k - (i - 1)]
      <4>1. Len(f) + Len(b) = Len(s) - 1 /\ Len(f) = i - 1
        BY SMTT(60), <1>1, <1>4
      <4>2. k \in 1 .. Len(f) + Len(b)
        BY <4>1
      <4>3. r[k] = IF k <= Len(f) THEN f[k] ELSE b[k - Len(f)]
        BY <2>1, <4>2
      <4> QED BY <4>1, <4>3
    <3>2. CASE k < i
      BY SMTT(60), <3>1, <3>2, <1>1, <1>4
    <3>3. CASE ~(k < i)
      <4>1. r[k] = b[k - (i - 1)] /\ k - (i - 1) \in 1 .. Len(s) - i
        BY <3>1, <3>3, <1>1
      <4>2. b[k - (i - 1)] = s[i + (k - (i - 1))]
        BY <4>1, <1>4
      <4>3. i + (k - (i - 1)) = k + 1
        BY <1>1
      <4> QED BY <4>1, <4>2, <4>3, <3>3
    <3> QED BY <3>2, <3>3
  <2> QED BY <2>1, <2>2, <2>3
<1>5. RemoveAt(s, i) = front \o back
  BY DEF RemoveAt
<1> HIDE DEF front, back
<1> QED BY SMTT(60), <1>2, <1>3, <1>4, <1>5

LEMMA ListTypes ==
    ASSUME TablesOK
    PROVE  /\ connections \in Seq(1 .. made) /\ made \in Nat /\ made <= MaxConns
           /\ Len(connections) \in Nat /\ DOMAIN connections = 1 .. Len(connections)
           /\ \A i \in DOMAIN connections : connections[i] \in 1 .. made
<1>1. connections \in Seq(1 .. made)
  BY DEF TablesOK
<1>2. made \in 0 .. MaxConns
  BY DEF TablesOK
<1>3. made \in Nat /\ made <= MaxConns
  BY <1>2, SocketsAssumption
<1> QED BY <1>1, <1>3, LenProperties, ElementOfSeq

\* What iter = connections.erase(iter) does to the list.
LEMMA Erasing ==
    ASSUME TablesOK, Ordered, NEW c \in ConnIds, Visiting(c), Erase(c)
    PROVE  /\ connections' \in Seq(1 .. made) /\ Len(connections') = Len(connections) - 1
           /\ next \in 1 .. Len(connections) /\ next' = next
           /\ Ordered'
           /\ InList(c)
           /\ \A d : InList(d)' <=> InList(d) /\ d # c
           /\ \A d : Ahead(d) /\ d # c => Ahead(d)'
           /\ \A d \in ConnIds : InList(d) /\ c < d => Ahead(d)'
<1> DEFINE s == connections
           r == RemoveAt(s, next)
           n == Len(s)
           m == Len(r)
<1>1. /\ s \in Seq(1 .. made) /\ made \in Nat /\ n \in Nat
      /\ DOMAIN s = 1 .. n
      /\ next \in 1 .. n /\ next' = next /\ s[next] = c /\ connections' = r
  BY LenProperties, SocketsAssumption DEF TablesOK, Visiting, Erase
<1>2. /\ r \in Seq(1 .. made) /\ m = n - 1 /\ m \in Nat
      /\ \A k \in 1 .. m : r[k] = IF k < next THEN s[k] ELSE s[k + 1]
  <2>1. next \in DOMAIN s
    BY SMTT(60), <1>1
  <2>2. /\ r \in Seq(1 .. made) /\ m = n - 1
        /\ \A k \in 1 .. n - 1 : r[k] = IF k < next THEN s[k] ELSE s[k + 1]
    BY <1>1, <2>1, Removed
  <2> QED BY <2>2, LenProperties
<1>3. DOMAIN r = 1 .. m
  BY <1>2, LenProperties
<1>4. \A k \in 1 .. n : s[k] \in Nat
  <2>1. \A k \in 1 .. n : s[k] \in 1 .. made
    BY <1>1, ElementOfSeq
  <2> QED BY <2>1, <1>1
<1>5. \A i, j \in 1 .. n : i < j => s[i] < s[j]
  BY <1>1 DEF Ordered
<1>6. \A d : InList(d) <=> \E k \in 1 .. n : s[k] = d
  BY <1>1 DEF InList
<1>7. \A d : InList(d)' <=> \E k \in 1 .. m : r[k] = d
  BY <1>1, <1>3 DEF InList
<1>8. \A d : Ahead(d)' <=> \E k \in 1 .. m : k >= next /\ r[k] = d
  <2>1. next' >= 1 /\ DOMAIN connections' = 1 .. m /\ connections' = r /\ next' = next
    BY <1>1, <1>3
  <2> HIDE DEF r, m
  <2> QED BY <2>1 DEF Ahead
<1>9. \A d : Ahead(d) => \E k \in 1 .. n : k >= next /\ s[k] = d
  BY <1>1 DEF Ahead
<1>10. Ordered' <=> \A i, j \in 1 .. m : i < j => r[i] < r[j]
  <2>1. DOMAIN connections' = 1 .. m /\ connections' = r
    BY <1>1, <1>3
  <2> HIDE DEF r, m
  <2> QED BY <2>1 DEF Ordered
<1>11. connections' \in Seq(1 .. made) /\ Len(connections') = Len(connections) - 1
  BY <1>1, <1>2
<1> HIDE DEF s, r, n, m
\* Where element i of the new list was in the old one.
<1> DEFINE From(i) == IF i < next THEN i ELSE i + 1
<1>12. \A i \in 1 .. m : From(i) \in 1 .. n /\ From(i) # next /\ r[i] = s[From(i)]
  <2> SUFFICES ASSUME NEW i \in 1 .. m
               PROVE  From(i) \in 1 .. n /\ From(i) # next /\ r[i] = s[From(i)]
    OBVIOUS
  <2>1. r[i] = IF i < next THEN s[i] ELSE s[i + 1]
    BY <1>2
  <2>2. CASE i < next
    BY <2>1, <2>2, <1>1, <1>2
  <2>3. CASE ~(i < next)
    BY <2>1, <2>3, <1>1, <1>2
  <2> QED BY <2>2, <2>3
<1>13. \A i, j \in 1 .. m : i < j => From(i) < From(j)
  BY <1>1, <1>2
<1>14. \A k \in 1 .. n : k # next =>
           \E i \in 1 .. m : From(i) = k /\ (k > next => i >= next)
  <2> SUFFICES ASSUME NEW k \in 1 .. n, k # next
               PROVE  \E i \in 1 .. m : From(i) = k /\ (k > next => i >= next)
    OBVIOUS
  <2>1. CASE k < next
    <3>1. k \in 1 .. m /\ From(k) = k /\ ~(k > next)
      BY <2>1, <1>1, <1>2
    <3> QED BY <3>1
  <2>2. CASE k > next
    <3>1. k - 1 \in 1 .. m /\ From(k - 1) = k /\ k - 1 >= next
      BY <2>2, <1>1, <1>2
    <3> QED BY <3>1
  <2> QED BY <2>1, <2>2, <1>1
<1> HIDE DEF From
<1>15. Ordered'
  BY <1>10, <1>5, <1>12, <1>13
<1>16. \A k \in 1 .. n : s[k] = c => k = next
  BY SMTT(60), <1>1, <1>4, <1>5
<1>17. \A d : InList(d)' <=> InList(d) /\ d # c
  BY ZenonT(90), <1>6, <1>7, <1>12, <1>14, <1>16, <1>1
<1>18. \A d : Ahead(d) /\ d # c => Ahead(d)'
  <2> SUFFICES ASSUME NEW d, Ahead(d), d # c PROVE Ahead(d)'
    OBVIOUS
  <2>1. PICK k \in 1 .. n : k >= next /\ s[k] = d
    BY <1>9
  <2>2. k # next /\ k > next
    BY <2>1, <1>1
  <2> QED BY <2>1, <2>2, <1>8, <1>12, <1>14
<1>19. \A d \in ConnIds : InList(d) /\ c < d => Ahead(d)'
  <2> SUFFICES ASSUME NEW d \in ConnIds, InList(d), c < d
               PROVE  Ahead(d)'
    OBVIOUS
  <2>1. PICK k \in 1 .. n : s[k] = d
    BY <1>6
  <2>2. k # next /\ k > next
    BY <2>1, <1>1, <1>4, <1>5
  <2> QED BY <2>1, <2>2, <1>8, <1>12, <1>14
<1>20. InList(c)
  BY <1>1, <1>6
<1>21. next \in 1 .. Len(connections)
  BY <1>1 DEF s, n
<1> QED BY <1>1, <1>11, <1>15, <1>17, <1>18, <1>19, <1>20, <1>21

\* What push_back of a connection does to it.
LEMMA Growing ==
    ASSUME TablesOK, Ordered, NEW h, NEW o, NewConnection(made + 1, h, o)
    PROVE  /\ made' = made + 1
           /\ connections' \in Seq(1 .. made') /\ Len(connections') = Len(connections) + 1
           /\ Ordered'
           /\ \A d : InList(d)' <=> InList(d) \/ d = made + 1
           /\ \A i \in DOMAIN connections :
                  i \in DOMAIN connections' /\ connections'[i] = connections[i]
<1> DEFINE s == connections
           r == Append(s, made + 1)
           n == Len(s)
<1>1. s \in Seq(1 .. made) /\ made \in Nat /\ n \in Nat /\ DOMAIN s = 1 .. n
  BY ListTypes
<1>2. made' = made + 1 /\ connections' = r
  BY DEF NewConnection
<1>3. \A k \in 1 .. n : s[k] \in 1 .. made
  BY <1>1, ElementOfSeq
<1>4. s \in Seq(1 .. made + 1)
  BY <1>1, SeqMonotonic, 1 .. made \subseteq 1 .. made + 1
<1>5. /\ r \in Seq(1 .. made + 1) /\ Len(r) = n + 1
      /\ \A k \in 1 .. n : r[k] = s[k]
      /\ r[n + 1] = made + 1
  BY <1>1, <1>4, AppendProperties
<1>6. DOMAIN r = 1 .. n + 1
  BY <1>5, LenProperties
<1>7. \A i, j \in 1 .. n : i < j => s[i] < s[j]
  BY <1>1 DEF Ordered
<1>8. \A d : InList(d) <=> \E k \in 1 .. n : s[k] = d
  BY <1>1 DEF InList
<1>9. \A d : InList(d)' <=> \E k \in 1 .. n + 1 : r[k] = d
  BY <1>2, <1>6 DEF InList
<1>10. Ordered' <=> \A i, j \in 1 .. n + 1 : i < j => r[i] < r[j]
  <2>1. DOMAIN connections' = 1 .. n + 1 /\ connections' = r
    BY <1>2, <1>6
  <2> HIDE DEF r, n
  <2> QED BY <2>1 DEF Ordered
<1>11. \A i \in DOMAIN connections :
           i \in DOMAIN connections' /\ connections'[i] = connections[i]
  BY <1>1, <1>2, <1>5, <1>6
<1>12. /\ made' = made + 1
       /\ connections' \in Seq(1 .. made') /\ Len(connections') = Len(connections) + 1
  BY <1>2, <1>5
<1> HIDE DEF s, r, n
<1>13. \A k \in 1 .. n + 1 : k \in 1 .. n \/ k = n + 1
  BY <1>1
<1>14. 1 .. n \subseteq 1 .. n + 1 /\ n + 1 \in 1 .. n + 1
  BY <1>1
<1>15. \A i, j \in 1 .. n + 1 : i < j => r[i] < r[j]
  <2> SUFFICES ASSUME NEW i \in 1 .. n + 1, NEW j \in 1 .. n + 1, i < j
               PROVE  r[i] < r[j]
    OBVIOUS
  <2>1. i \in 1 .. n /\ r[i] = s[i] /\ s[i] \in 1 .. made
    <3>1. i \in 1 .. n
      BY <1>1
    <3> QED BY <3>1, <1>3, <1>5
  <2>2. CASE j = n + 1
    BY <2>1, <2>2, <1>1, <1>5
  <2>3. CASE j \in 1 .. n
    BY <2>1, <2>3, <1>5, <1>7
  <2> QED BY <2>2, <2>3, <1>13
<1>16. \A d : InList(d)' <=> InList(d) \/ d = made + 1
  BY <1>13, <1>14, <1>5, <1>8, <1>9
<1> QED BY <1>10, <1>11, <1>12, <1>15, <1>16

-----------------------------------------------------------------------------
(* Types                                                                    *)

\* TablesOK without the list.
FieldTypes ==
    /\ socket \in [ConnIds -> Handles \cup {Null}]
    /\ protocol \in [ConnIds -> Protocols \cup {Null}]
    /\ processing \in [ConnIds -> BOOLEAN]
    /\ owner \in [ConnIds -> ConnIds \cup {Nobody}]
    /\ status \in [ConnIds -> {"none", "live", "deleted"}]
    /\ playerSocket \in [ConnIds -> Handles \cup {Null}]
    /\ connectingSocket \in [ConnIds -> Handles \cup {Null}]
    /\ named \in [ConnIds -> BOOLEAN]
    /\ endpoint \in [Handles -> ConnIds \cup {Nobody, Lost}]
    /\ peer \in [ConnIds -> {"open", "closed", "reset"}]
    /\ reissued \subseteq used /\ used \subseteq Handles
    /\ stray \in BOOLEAN /\ fault \in {"none", "use after free"}

ListOK ==
    /\ connections \in Seq(1 .. made) /\ made \in 0 .. MaxConns
    /\ next \in 0 .. Len(connections) + 1
    /\ Ordered

LEMMA TypeParts == TablesOK /\ Ordered <=> FieldTypes /\ ListOK
  BY DEF TablesOK, FieldTypes, ListOK

\* The steps that change the list, and the rest.
LEMMA ListStep ==
    ASSUME TablesOK, Ordered, [TableStep]_tables
    PROVE  ListOK'
<1> USE ListTypes
<1> DEFINE Same == UNCHANGED <<connections, made>> /\ next' \in 0 .. Len(connections) + 1
<1>1. ASSUME Same PROVE ListOK'
  BY <1>1 DEF TablesOK, Ordered, ListOK
<1>2. ASSUME NEW c \in ConnIds, Visiting(c), Erase(c), made' = made PROVE ListOK'
  <2>1. next \in 1 .. Len(connections) /\ next' = next
        /\ Len(connections') = Len(connections) - 1 /\ Ordered'
        /\ connections' \in Seq(1 .. made)
    BY <1>2, Erasing
  <2>2. next' \in 0 .. Len(connections') + 1
    BY <2>1
  <2>3. made' \in 0 .. MaxConns
    BY <1>2 DEF TablesOK
  <2> QED BY SMTT(60), <2>1, <2>2, <2>3, <1>2 DEF ListOK
<1>3. ASSUME NEW h, NEW o, NewConnection(made + 1, h, o), made < MaxConns,
             next' \in 0 .. Len(connections) + 1
      PROVE  ListOK'
  <2>1. /\ made' = made + 1 /\ connections' \in Seq(1 .. made')
        /\ Len(connections') = Len(connections) + 1 /\ Ordered'
    BY <1>3, Growing
  <2>2. made' \in 0 .. MaxConns /\ next' \in 0 .. Len(connections') + 1
    BY <2>1, <1>3, SocketsAssumption
  <2> QED BY <2>1, <2>2 DEF ListOK
<1>4. \A c : Visiting(c) /\ (Advance \/ AdvanceOrStay) => next' \in 0 .. Len(connections) + 1
  BY DEF Visiting, Advance, AdvanceOrStay
<1> HIDE DEF Same
<1>5. CASE Accept
  <2>1. next' \in 0 .. Len(connections) + 1
    BY <1>5 DEF Accept
  <2> QED BY <1>3, <1>5, <2>1 DEF Accept
<1>6. CASE AcceptNobody \/ EndOfList
  BY <1>1, <1>6 DEF AcceptNobody, EndOfList, Same
<1>7. ASSUME NEW c \in ConnIds, PeerCloses(c) \/ PeerResets(c) PROVE ListOK'
  BY <1>1, <1>7 DEF PeerCloses, PeerResets, TablesOK, Same
<1>8. ASSUME NEW c \in ConnIds, SelectError(c) \/ RecvError(c) \/ RecvZero(c) PROVE ListOK'
  BY <1>2, <1>8 DEF SelectError, RecvError, RecvZero
<1>9. ASSUME NEW c \in ConnIds, LoginStartOffline(c) \/ EncryptionResponse(c)
      PROVE  ListOK'
  <2>1. next' \in 0 .. Len(connections) + 1
    BY <1>4, <1>9 DEF LoginStartOffline, EncryptionResponse, Handling
  <2>2. CASE Connect(c)
    BY <1>3, <2>1, <2>2 DEF Connect
  <2>3. CASE ConnectFails(c)
    BY <1>1, <2>1, <2>3 DEF ConnectFails, Same
  <2> QED BY <1>9, <2>2, <2>3 DEF LoginStartOffline, EncryptionResponse
<1>10. ASSUME NEW c \in ConnIds,
              \/ Skip(c) \/ Throw(c) \/ UseAfterFree(c)
              \/ HandshakeLogin(c) \/ HandshakeStatus(c) \/ LoginStartOnline(c)
              \/ ForwardToServer(c) \/ ForwardToClient(c)
       PROVE  ListOK'
  <2>1. UNCHANGED <<connections, made>>
    BY <1>10 DEF Skip, Throw, UseAfterFree, HandshakeLogin, HandshakeStatus,
                 LoginStartOnline, ForwardToServer, ForwardToClient
  <2>2. next' \in 0 .. Len(connections) + 1
    <3>1. CASE UseAfterFree(c)
      BY <3>1 DEF UseAfterFree, TablesOK
    <3>2. CASE Skip(c) \/ Throw(c)
      BY <3>2, <1>4 DEF Skip, Throw, Handling
    <3>3. CASE HandshakeLogin(c) \/ HandshakeStatus(c) \/ LoginStartOnline(c)
      BY <3>3, <1>4 DEF HandshakeLogin, HandshakeStatus, LoginStartOnline, Handling
    <3>4. CASE ForwardToServer(c) \/ ForwardToClient(c)
      BY <3>4, <1>4 DEF ForwardToServer, ForwardToClient, Handling
    <3> QED BY <1>10, <3>1, <3>2, <3>3, <3>4
  <2> QED BY <1>1, <2>1, <2>2 DEF Same
<1>11. CASE UNCHANGED tables
  BY <1>1, <1>11 DEF tables, TablesOK, Same
<1> QED
  BY <1>5, <1>6, <1>7, <1>8, <1>9, <1>10, <1>11 DEF TableStep, Turn, Visit

\* A connection that is made gets a number, and its handle leads to it.
LEMMA NewTypes ==
    ASSUME TablesOK, made < MaxConns, NEW h \in Handles, NEW o \in ConnIds \cup {Nobody},
           NewConnection(made + 1, h, o)
    PROVE  /\ made + 1 \in ConnIds
           /\ socket' \in [ConnIds -> Handles \cup {Null}]
           /\ owner' \in [ConnIds -> ConnIds \cup {Nobody}]
           /\ endpoint' \in [Handles -> ConnIds \cup {Nobody, Lost}]
           /\ reissued' \subseteq used' /\ used' \subseteq Handles
<1>1. made + 1 \in ConnIds
  BY ListTypes, SocketsAssumption DEF ConnIds
<1> QED BY <1>1 DEF TablesOK, NewConnection, Open

LEMMA FieldStep ==
    ASSUME TablesOK, Ordered, [TableStep]_tables
    PROVE  FieldTypes'
<1> USE TypeParts DEF FieldTypes
<1>1. CASE Accept
  <2>1. PICK h \in Free : NewConnection(made + 1, h, Nobody)
    BY <1>1 DEF Accept
  <2>2. h \in Handles /\ made < MaxConns
    BY <1>1 DEF Free, Accept
  <2>3. /\ socket' \in [ConnIds -> Handles \cup {Null}]
        /\ owner' \in [ConnIds -> ConnIds \cup {Nobody}]
        /\ endpoint' \in [Handles -> ConnIds \cup {Nobody, Lost}]
        /\ reissued' \subseteq used' /\ used' \subseteq Handles
    BY <2>1, <2>2, NewTypes
  <2> QED BY <2>3, <1>1 DEF Accept, playerVars
<1>2. CASE AcceptNobody \/ EndOfList \/ UNCHANGED tables
  BY <1>2 DEF AcceptNobody, EndOfList, tables, connVars, playerVars, history
<1>3. ASSUME NEW c \in ConnIds, PeerCloses(c) \/ PeerResets(c) PROVE FieldTypes'
  BY <1>3 DEF PeerCloses, PeerResets, connVars, playerVars, history
<1>4. ASSUME NEW c \in ConnIds, SelectError(c) \/ RecvError(c) PROVE FieldTypes'
  BY <1>4 DEF SelectError, RecvError, Erase, playerVars, history
<1>5. ASSUME NEW c \in ConnIds, RecvZero(c) PROVE FieldTypes'
  <2>1. endpoint' \in [Handles -> ConnIds \cup {Nobody, Lost}]
    BY <1>5 DEF RecvZero, Closed
  <2>2. status' \in [ConnIds -> {"none", "live", "deleted"}]
    BY <1>5 DEF RecvZero, DeletedBy
  <2> QED BY <2>1, <2>2, <1>5 DEF RecvZero, Erase, history
<1>6. ASSUME NEW c \in ConnIds, Skip(c) \/ Throw(c) \/ UseAfterFree(c) PROVE FieldTypes'
  BY <1>6 DEF Skip, Throw, UseAfterFree, connVars, playerVars, history
<1>7. ASSUME NEW c \in ConnIds, HandshakeLogin(c) \/ HandshakeStatus(c) PROVE FieldTypes'
  <2>1. CASE HandshakeLogin(c)
    BY <2>1 DEF HandshakeLogin, NewPlayer, Protocols, history
  <2>2. CASE HandshakeStatus(c)
    BY <2>2 DEF HandshakeStatus, Protocols, playerVars, history
  <2> QED BY <1>7, <2>1, <2>2
<1>8. ASSUME NEW c \in ConnIds, LoginStartOnline(c) PROVE FieldTypes'
  BY <1>8 DEF LoginStartOnline, connVars, history
<1>9. ASSUME NEW c \in ConnIds, LoginStartOffline(c) \/ EncryptionResponse(c)
      PROVE  FieldTypes'
  <2>1. /\ named' \in [ConnIds -> BOOLEAN]
        /\ UNCHANGED <<processing, status, playerSocket, peer, stray, fault>>
    BY <1>9 DEF LoginStartOffline, EncryptionResponse
  <2>2. CASE Connect(c)
    <3>1. PICK h \in Free :
              /\ NewConnection(made + 1, h, owner[c])
              /\ connectingSocket' = [connectingSocket EXCEPT ![owner[c]] = h]
              /\ protocol' = [protocol EXCEPT ![c] = "ClientPlay",
                                              ![made + 1] = "ServerLogin"]
      BY <2>2 DEF Connect
    <3>2. h \in Handles /\ made < MaxConns /\ owner[c] \in ConnIds \cup {Nobody}
      BY <2>2 DEF Free, Connect
    <3>3. /\ socket' \in [ConnIds -> Handles \cup {Null}]
          /\ owner' \in [ConnIds -> ConnIds \cup {Nobody}]
          /\ endpoint' \in [Handles -> ConnIds \cup {Nobody, Lost}]
          /\ reissued' \subseteq used' /\ used' \subseteq Handles
      BY <3>1, <3>2, NewTypes
    <3> QED BY <2>1, <3>1, <3>2, <3>3 DEF Protocols
  <2>3. CASE ConnectFails(c)
    <3>1. /\ endpoint' \in [Handles -> ConnIds \cup {Nobody, Lost}]
          /\ reissued' \subseteq used' /\ used' \subseteq Handles
      BY <2>3 DEF ConnectFails, Open, Free
    <3> QED BY <2>1, <2>3, <3>1 DEF ConnectFails, Protocols
  <2> QED BY <1>9, <2>2, <2>3 DEF LoginStartOffline, EncryptionResponse
<1>10. ASSUME NEW c \in ConnIds, ForwardToServer(c) \/ ForwardToClient(c)
       PROVE  FieldTypes'
  <2>1. stray' \in BOOLEAN
    BY <1>10 DEF ForwardToServer, ForwardToClient, Send
  <2> QED BY <2>1, <1>10
        DEF ForwardToServer, ForwardToClient, connVars, playerVars, Protocols
<1> QED
  BY <1>1, <1>2, <1>3, <1>4, <1>5, <1>6, <1>7, <1>8, <1>9, <1>10
  DEF TableStep, Turn, Visit

LEMMA TypeStep == TablesOK /\ Ordered /\ [TableStep]_tables => (TablesOK /\ Ordered)'
<1> SUFFICES ASSUME TablesOK, Ordered, [TableStep]_tables PROVE (TablesOK /\ Ordered)'
  OBVIOUS
<1>1. FieldTypes' /\ ListOK'
  BY ListStep, FieldStep
<1> QED BY <1>1 DEF TablesOK, FieldTypes, ListOK

-----------------------------------------------------------------------------
(* Players and their connections                                            *)

\* The list matters to Players only by what is in it.
LEMMA PlayersShrink ==
    ASSUME Players, UNCHANGED <<made, owner, protocol, processing, socket, status,
                                playerSocket, connectingSocket, named>>,
           \A d : InList(d)' => InList(d)
    PROVE  Players'
  BY DEF Players, Unmade, Clients, Servers, Connected, Stages, OneServer, Served

LEMMA SameList == ASSUME UNCHANGED connections PROVE \A d : InList(d)' <=> InList(d)
  BY DEF InList

LEMMA InListMade == ASSUME TablesOK, NEW c, InList(c) PROVE c \in 1 .. made /\ c \in ConnIds
  BY ListTypes, SocketsAssumption DEF InList, ConnIds

LEMMA VisitedInList == ASSUME NEW c, Visiting(c) PROVE InList(c)
  BY DEF Visiting, InList

\* A connection without an owner becomes its own.
LEMMA PlayersLogin ==
    ASSUME TablesOK, Players, NEW c \in ConnIds, HandshakeLogin(c)
    PROVE  Players'
<1>1. /\ InList(c) /\ c \in 1 .. made /\ owner[c] = Nobody /\ c # Nobody
      /\ protocol[c] = "Handshake"
  BY VisitedInList, InListMade, ListTypes
  DEF HandshakeLogin, Handling, Players, Stages, Nobody
<1>2. /\ owner' = [owner EXCEPT ![c] = c]
      /\ status' = [status EXCEPT ![c] = "live"]
      /\ playerSocket' = [playerSocket EXCEPT ![c] = socket[c]]
      /\ protocol' = [protocol EXCEPT ![c] = "ClientLogin"]
      /\ UNCHANGED <<made, socket, processing, connectingSocket, named>>
  BY DEF HandshakeLogin, NewPlayer
<1>3. \A d : InList(d)' <=> InList(d)
  BY SameList DEF HandshakeLogin
<1>4. /\ owner \in [ConnIds -> ConnIds \cup {Nobody}]
      /\ status \in [ConnIds -> {"none", "live", "deleted"}]
      /\ playerSocket \in [ConnIds -> Handles \cup {Null}]
      /\ protocol \in [ConnIds -> Protocols \cup {Null}]
  BY DEF TablesOK
<1>5. made \in Nat /\ ConnIds \subseteq Nat
  BY ListTypes DEF ConnIds
<1> USE DEF Players
<1>6. Unmade'
  BY <1>1, <1>2, <1>4, <1>5 DEF Unmade
<1>7. \A d \in ConnIds : owner[d] # c
  BY <1>1, <1>4 DEF Servers, Served
<1>8. Clients'
  BY <1>1, <1>2, <1>4 DEF Clients
<1>9. Servers'
  BY <1>1, <1>2, <1>3, <1>4, <1>7 DEF Servers, Served
<1>10. Connected'
  BY <1>1, <1>2, <1>4, <1>7 DEF Connected, Served
<1>11. Stages'
  BY <1>1, <1>2, <1>3, <1>4, InListMade DEF Stages, Clients
<1>12. OneServer'
  BY <1>1, <1>2, <1>4, <1>7 DEF OneServer
<1> QED BY <1>6, <1>8, <1>9, <1>10, <1>11, <1>12

LEMMA Direction == ASSUME TablesOK, Players PROVE DirectionIsStable
<1> SUFFICES ASSUME NEW c \in ConnIds, owner[c] # Nobody
             PROVE  socket[c] = playerSocket[owner[c]] <=> owner[c] = c
  BY DEF DirectionIsStable, FromClient
<1>1. owner[c] \in ConnIds
  BY ZenonT(90) DEF TablesOK
<1>2. CASE owner[c] = c
  BY <1>2 DEF Players, Clients
<1>3. CASE owner[c] # c
  <2>1. owner[owner[c]] = owner[c] /\ socket[c] # socket[owner[c]]
    BY <1>3 DEF Players, Servers, Served
  <2>2. playerSocket[owner[c]] = socket[owner[c]]
    BY <1>1, <2>1 DEF Players, Clients
  <2> QED BY <1>3, <2>1, <2>2
<1> QED BY <1>2, <1>3

\* Only the connection of its client can delete a player.
LEMMA PlayersLeave ==
    ASSUME TablesOK, Ordered, Players, NEW c \in ConnIds, RecvZero(c)
    PROVE  Players'
<1>1. /\ \A d : InList(d)' => InList(d)
      /\ UNCHANGED <<made, socket, owner, processing, playerSocket, connectingSocket, named>>
      /\ protocol' = [protocol EXCEPT ![c] = Null] /\ ~InList(c)'
  <2>1. Visiting(c) /\ Erase(c)
    BY DEF RecvZero
  <2>2. \A d : InList(d)' <=> InList(d) /\ d # c
    BY <2>1, Erasing
  <2> QED BY <2>1, <2>2 DEF RecvZero, Erase
<1>2. \A d \in ConnIds : status'[d] = status[d] \/ (owner[d] = d /\ status'[d] = "deleted")
  <2>1. owner[c] = Nobody => status' = status
    BY DEF RecvZero
  <2>2. owner[c] # Nobody =>
            owner[owner[c]] = owner[c] /\ status' = DeletedBy(owner[c], c)
    BY DEF RecvZero, Players, Servers, Served
  <2>3. status \in [ConnIds -> {"none", "live", "deleted"}]
    BY DEF TablesOK
  <2>4. owner[c] # Nobody =>
            status' = status \/ status' = [status EXCEPT ![owner[c]] = "deleted"]
    BY <2>2 DEF DeletedBy
  <2> SUFFICES ASSUME NEW d \in ConnIds, ~(status'[d] = status[d])
               PROVE  owner[d] = d /\ status'[d] = "deleted"
    OBVIOUS
  <2>5. owner[c] # Nobody /\ status' = [status EXCEPT ![owner[c]] = "deleted"]
    BY <2>1, <2>4
  <2>6. d = owner[c] /\ status'[d] = "deleted"
    BY <2>3, <2>5
  <2> QED BY <2>2, <2>5, <2>6
<1>3. c \in 1 .. made /\ ~(c > made)
  BY VisitedInList, InListMade, ListTypes DEF RecvZero
<1>4. protocol \in [ConnIds -> Protocols \cup {Null}]
      /\ owner \in [ConnIds -> ConnIds \cup {Nobody}]
  BY DEF TablesOK
<1> USE DEF Players
<1>5. Unmade'
  BY <1>1, <1>3, <1>4 DEF Unmade
<1>6. Clients'
  BY <1>1, <1>2 DEF Clients
<1>7. Servers'
  BY <1>1, <1>4 DEF Servers, Served
<1>8. Connected' /\ OneServer'
  BY <1>1 DEF Connected, Served, OneServer
<1>9. Stages'
  BY <1>1, <1>4 DEF Stages
<1> QED BY <1>5, <1>6, <1>7, <1>8, <1>9

LEMMA PlayersErase ==
    ASSUME TablesOK, Ordered, Players, NEW c \in ConnIds, SelectError(c) \/ RecvError(c)
    PROVE  Players'
<1>1. /\ \A d : InList(d)' => InList(d)
      /\ UNCHANGED <<made, socket, owner, processing, playerSocket, connectingSocket,
                     named, status>>
      /\ protocol' = [protocol EXCEPT ![c] = Null] /\ ~InList(c)'
  <2>1. Visiting(c) /\ Erase(c)
    BY DEF SelectError, RecvError
  <2>2. \A d : InList(d)' <=> InList(d) /\ d # c
    BY <2>1, Erasing
  <2> QED BY <2>1, <2>2 DEF SelectError, RecvError, Erase, playerVars
<1>2. c \in 1 .. made /\ ~(c > made)
  BY VisitedInList, InListMade, ListTypes DEF SelectError, RecvError
<1>3. protocol \in [ConnIds -> Protocols \cup {Null}]
      /\ owner \in [ConnIds -> ConnIds \cup {Nobody}]
  BY DEF TablesOK
<1> USE DEF Players
<1>4. Unmade'
  BY <1>1, <1>2, <1>3 DEF Unmade
<1>5. Clients' /\ Connected' /\ OneServer'
  BY <1>1 DEF Clients, Connected, Served, OneServer
<1>6. Servers'
  BY <1>1, <1>3 DEF Servers, Served
<1>7. Stages'
  BY <1>1, <1>3 DEF Stages
<1> QED BY <1>4, <1>5, <1>6, <1>7

\* Changes of a field that leave owners and sockets alone.
LEMMA PlayersHandle ==
    ASSUME TablesOK, Players, NEW c \in ConnIds,
           \/ Throw(c) \/ HandshakeStatus(c) \/ LoginStartOnline(c)
           \/ ForwardToClient(c)
    PROVE  Players'
<1>1. /\ InList(c) /\ c \in 1 .. made /\ ~(c > made)
      /\ \A d : InList(d)' <=> InList(d)
  <2>1. Visiting(c) /\ UNCHANGED connections
    BY DEF Throw, HandshakeStatus, LoginStartOnline, ForwardToClient, Handling
  <2> QED BY <2>1, VisitedInList, InListMade, ListTypes, SameList
<1>2. /\ protocol \in [ConnIds -> Protocols \cup {Null}]
      /\ owner \in [ConnIds -> ConnIds \cup {Nobody}]
      /\ processing \in [ConnIds -> BOOLEAN] /\ named \in [ConnIds -> BOOLEAN]
  BY DEF TablesOK
<1>3. UNCHANGED <<made, socket, owner, status, playerSocket, connectingSocket>>
  BY DEF Throw, HandshakeStatus, LoginStartOnline, ForwardToClient, connVars, playerVars
<1> USE DEF Players
<1>4. CASE Throw(c)
  <2>1. processing' = [processing EXCEPT ![c] = TRUE] /\ UNCHANGED <<protocol, named>>
    BY <1>4 DEF Throw, playerVars
  <2>2. Unmade'
    BY <1>1, <1>2, <1>3, <2>1 DEF Unmade
  <2> QED BY <1>1, <1>3, <2>1, <2>2 DEF Clients, Connected, Served, OneServer, Servers, Stages
<1>5. CASE HandshakeStatus(c) \/ ForwardToClient(c)
  <2>1. /\ UNCHANGED <<processing, named>>
        /\ \/ UNCHANGED protocol
           \/ /\ protocol[c] \in {"Handshake", "ServerLogin"}
              /\ protocol' \in {[protocol EXCEPT ![c] = "ClientStatus"],
                                [protocol EXCEPT ![c] = "ServerPlay"]}
    BY <1>5 DEF HandshakeStatus, ForwardToClient, playerVars
  <2>2. Unmade'
    BY <1>1, <1>2, <1>3, <2>1 DEF Unmade
  <2>3. Clients' /\ Connected' /\ OneServer'
    BY <1>3, <2>1 DEF Clients, Connected, Served, OneServer
  <2>4. Servers'
    BY <1>1, <1>2, <1>3, <2>1 DEF Servers, Served
  <2>5. Stages'
    BY <1>1, <1>2, <1>3, <2>1 DEF Stages
  <2> QED BY <2>2, <2>3, <2>4, <2>5
<1>6. CASE LoginStartOnline(c)
  <2>1. owner[c] = c
    BY <1>1, <1>6 DEF LoginStartOnline, Stages
  <2>2. named' = [named EXCEPT ![c] = TRUE] /\ UNCHANGED <<protocol, processing>>
    BY <1>6, <2>1 DEF LoginStartOnline, connVars
  <2>3. Clients'
    BY <1>2, <1>3, <2>1, <2>2 DEF Clients
  <2> QED BY ZenonT(90), <1>1, <1>3, <2>2, <2>3 DEF Unmade, Connected, Served, OneServer, Servers, Stages
<1> QED BY <1>4, <1>5, <1>6

\* A connection that is made and has no owner.
LEMMA PlayersAccept ==
    ASSUME TablesOK, Ordered, Players, Accept
    PROVE  Players'
<1> DEFINE n == made + 1
<1>1. PICK h \in Free : NewConnection(n, h, Nobody)
  BY DEF Accept
<1>2. /\ made' = n /\ \A d : InList(d)' <=> InList(d) \/ d = n
  BY <1>1, Growing
<1>3. n \in ConnIds /\ n > made /\ made \in Nat /\ ConnIds \subseteq Nat
  BY ListTypes, SocketsAssumption DEF Accept, ConnIds
<1>4. /\ socket' = [socket EXCEPT ![n] = h] /\ owner' = [owner EXCEPT ![n] = Nobody]
      /\ UNCHANGED <<protocol, processing, status, playerSocket, connectingSocket, named>>
  BY <1>1 DEF Accept, NewConnection, playerVars
<1>5. /\ socket \in [ConnIds -> Handles \cup {Null}]
      /\ owner \in [ConnIds -> ConnIds \cup {Nobody}]
  BY DEF TablesOK
<1> HIDE DEF n
<1> USE DEF Players
<1>6. owner[n] = Nobody /\ protocol[n] = "Handshake" /\ n # Nobody
  BY <1>3 DEF Unmade, Nobody, ConnIds
<1>7. owner' = owner /\ \A d \in ConnIds : d # n => socket'[d] = socket[d]
  BY <1>4, <1>5, <1>6
<1>8. \A d \in ConnIds : owner[d] # n
  BY <1>3, <1>5, <1>6 DEF Servers, Served
<1>9. Unmade'
  BY <1>2, <1>3, <1>4, <1>7 DEF Unmade, n
<1>10. Clients' /\ OneServer'
  BY <1>4, <1>6, <1>7, <1>8 DEF Clients, OneServer
<1>11. Servers'
  BY <1>2, <1>4, <1>5, <1>6, <1>7, <1>8 DEF Servers, Served
<1>12. Connected'
  BY <1>4, <1>6, <1>7, <1>8 DEF Connected, Served
<1>13. Stages'
  BY <1>2, <1>4, <1>6, <1>7 DEF Stages
<1> QED BY <1>9, <1>10, <1>11, <1>12, <1>13

LEMMA LoginFacts ==
    ASSUME TablesOK, Players, NEW c \in ConnIds, LoginStartOffline(c) \/ EncryptionResponse(c)
    PROVE  /\ InList(c) /\ c \in 1 .. made /\ c # Nobody
           /\ owner[c] = c /\ connectingSocket[c] = Null /\ protocol[c] = "ClientLogin"
           /\ endpoint[socket[c]] \in ConnIds
           /\ named' = [named EXCEPT ![c] = TRUE]
           /\ UNCHANGED <<processing, status, playerSocket, peer, stray, fault>>
<1>1. InList(c) /\ c \in 1 .. made /\ c # Nobody /\ protocol[c] = "ClientLogin"
  BY VisitedInList, InListMade, ListTypes
  DEF LoginStartOffline, EncryptionResponse, Handling, Nobody
<1>2. owner[c] = c /\ connectingSocket[c] = Null
  BY <1>1 DEF Players, Stages
<1>3. endpoint[socket[c]] \in ConnIds
  BY DEF LoginStartOffline, EncryptionResponse, Handling, HasData, Source
<1>4. named' = [named EXCEPT ![c] = TRUE]
  <2>1. CASE LoginStartOffline(c)
    BY <2>1, <1>2 DEF LoginStartOffline
  <2>2. CASE EncryptionResponse(c)
    <3>1. named' = named /\ named[c] = TRUE
      BY <2>2, <1>2 DEF EncryptionResponse, TablesOK
    <3> QED BY <3>1 DEF TablesOK
  <2> QED BY <2>1, <2>2
<1>5. UNCHANGED <<processing, status, playerSocket, peer, stray, fault>>
  BY DEF LoginStartOffline, EncryptionResponse
<1> QED BY <1>1, <1>2, <1>3, <1>4, <1>5

\* A login that succeeds but finds no server.
LEMMA PlayersRefused ==
    ASSUME TablesOK, Players, NEW c \in ConnIds,
           LoginStartOffline(c) \/ EncryptionResponse(c), ConnectFails(c)
    PROVE  Players'
<1>1. /\ InList(c) /\ c \in 1 .. made /\ c # Nobody /\ ~(c > made)
      /\ owner[c] = c /\ connectingSocket[c] = Null
      /\ named' = [named EXCEPT ![c] = TRUE]
      /\ UNCHANGED <<processing, status, playerSocket>>
  BY LoginFacts, ListTypes
<1>2. /\ protocol' = [protocol EXCEPT ![c] = "ClientPlay"]
      /\ UNCHANGED <<made, socket, owner, connectingSocket>>
      /\ \A d : InList(d)' <=> InList(d)
  BY SameList DEF ConnectFails
<1>3. /\ protocol \in [ConnIds -> Protocols \cup {Null}] /\ named \in [ConnIds -> BOOLEAN]
      /\ owner \in [ConnIds -> ConnIds \cup {Nobody}]
  BY DEF TablesOK
<1> USE DEF Players
<1>4. Unmade'
  BY <1>1, <1>2, <1>3 DEF Unmade
<1>5. Clients'
  BY <1>1, <1>2, <1>3 DEF Clients
<1>6. Servers'
  BY <1>1, <1>2, <1>3 DEF Servers, Served
<1>7. Connected' /\ OneServer'
  BY <1>1, <1>2 DEF Connected, OneServer, Served
<1>8. Stages'
  BY <1>1, <1>2, <1>3 DEF Stages
<1> QED BY <1>4, <1>5, <1>6, <1>7, <1>8

\* One that is connected to a server, whose handle is new and so not the
\* client's, which is open.
LEMMA PlayersConnect ==
    ASSUME TablesOK, Ordered, Players, NEW c \in ConnIds,
           LoginStartOffline(c) \/ EncryptionResponse(c), Connect(c)
    PROVE  Players'
<1> DEFINE n == made + 1
<1>1. /\ InList(c) /\ c \in 1 .. made /\ c # Nobody
      /\ owner[c] = c /\ connectingSocket[c] = Null /\ protocol[c] = "ClientLogin"
      /\ endpoint[socket[c]] \in ConnIds
      /\ named' = [named EXCEPT ![c] = TRUE]
      /\ UNCHANGED <<processing, status, playerSocket>>
  BY LoginFacts
<1>2. PICK h \in Free :
          /\ NewConnection(n, h, c)
          /\ connectingSocket' = [connectingSocket EXCEPT ![c] = h]
          /\ protocol' = [protocol EXCEPT ![c] = "ClientPlay", ![n] = "ServerLogin"]
  BY <1>1 DEF Connect
<1>3. made' = n /\ \A d : InList(d)' <=> InList(d) \/ d = n
  BY <1>2, Growing
<1>4. /\ n \in ConnIds /\ n > made /\ made \in Nat /\ ConnIds \subseteq Nat
      /\ c < n /\ ~(c > made)
  BY <1>1, ListTypes, SocketsAssumption DEF Connect, ConnIds
<1>5. socket' = [socket EXCEPT ![n] = h] /\ owner' = [owner EXCEPT ![n] = c]
  BY <1>2 DEF NewConnection
<1>6. /\ socket \in [ConnIds -> Handles \cup {Null}]
      /\ connectingSocket \in [ConnIds -> Handles \cup {Null}]
      /\ owner \in [ConnIds -> ConnIds \cup {Nobody}]
      /\ protocol \in [ConnIds -> Protocols \cup {Null}]
      /\ named \in [ConnIds -> BOOLEAN]
  BY DEF TablesOK
<1>7. h # socket[c] /\ h # Null
  BY <1>1, <1>2, SocketsAssumption DEF Free, Nobody, ConnIds
<1> HIDE DEF n
<1> USE DEF Players
<1>8. owner[n] = Nobody /\ n # Nobody
  BY <1>4 DEF Unmade, Nobody, ConnIds
<1>9. \A d \in ConnIds : owner[d] # n /\ (owner[d] = c => d = c)
  <2> SUFFICES ASSUME NEW d \in ConnIds
               PROVE  owner[d] # n /\ (owner[d] = c => d = c)
    OBVIOUS
  <2>1. owner[d] \notin {Nobody, d} =>
            owner[owner[d]] = owner[d] /\ (InList(owner[d]) => protocol[owner[d]] = "ClientPlay")
    BY DEF Servers, Served
  <2>2. owner[d] # n
    BY <2>1, <1>8
  <2>3. owner[d] = c => d = c
    BY <2>1, <1>1
  <2> QED BY <2>2, <2>3
<1>10. /\ owner'[n] = c /\ socket'[n] = h /\ connectingSocket'[c] = h
       /\ protocol'[c] = "ClientPlay" /\ protocol'[n] = "ServerLogin" /\ named'[c] = TRUE
       /\ \A d \in ConnIds \ {n} : owner'[d] = owner[d] /\ socket'[d] = socket[d]
       /\ \A d \in ConnIds \ {c} :
              connectingSocket'[d] = connectingSocket[d] /\ named'[d] = named[d]
       /\ \A d \in ConnIds \ {c, n} : protocol'[d] = protocol[d]
  BY <1>1, <1>2, <1>4, <1>5, <1>6
<1>11. Unmade'
  BY <1>1, <1>3, <1>4, <1>10 DEF Unmade, n
<1>12. Clients'
  BY <1>1, <1>4, <1>8, <1>9, <1>10 DEF Clients
<1>13. Servers'
  <2> SUFFICES ASSUME NEW d \in ConnIds, NEW p, p = owner'[d], p \notin {Nobody, d}
               PROVE  /\ owner'[p] = p /\ p < d
                      /\ socket'[d] = connectingSocket'[p]
                      /\ socket'[d] # socket'[p]
                      /\ InList(p)' => protocol'[p] = "ClientPlay"
    BY DEF Servers, Served, InList
  <2>1. c \in ConnIds \ {n}
    BY <1>1, <1>4
  <2>2. CASE d = n
    <3>1. p = c
      BY <2>2, <1>10
    <3> QED BY <2>1, <2>2, <3>1, <1>1, <1>4, <1>7, <1>10
  <2>3. CASE d # n
    <3>1. p = owner[d] /\ socket'[d] = socket[d]
      BY <2>3, <1>10
    <3>2. p \in ConnIds \ {n, c}
      BY <2>3, <3>1, <1>1, <1>6, <1>9
    <3>3. /\ owner[p] = p /\ p < d
          /\ socket[d] = connectingSocket[p]
          /\ socket[d] # socket[p]
          /\ InList(p) => protocol[p] = "ClientPlay"
      BY <3>1 DEF Servers, Served
    <3>4. InList(p)' => InList(p)
      BY <3>2, <1>3
    <3> QED BY <3>1, <3>2, <3>3, <3>4, <1>10
  <2> QED BY <2>2, <2>3
<1>14. Connected'
  <2> SUFFICES ASSUME NEW p \in ConnIds, connectingSocket'[p] # Null
               PROVE  \E d \in ConnIds : /\ owner'[d] \notin {Nobody, d} /\ owner'[d] = p
                                         /\ socket'[d] = connectingSocket'[p]
    BY DEF Connected, Served
  <2>1. CASE p = c
    <3>1. c # n /\ c # Nobody
      BY <1>1, <1>4
    <3> QED BY <2>1, <3>1, <1>4, <1>10
  <2>2. CASE p # c
    <3>1. connectingSocket[p] # Null /\ connectingSocket'[p] = connectingSocket[p]
      BY <2>2, <1>10
    <3>2. PICK d \in ConnIds : /\ owner[d] \notin {Nobody, d} /\ owner[d] = p
                               /\ socket[d] = connectingSocket[p]
      BY <3>1 DEF Connected, Served
    <3>3. d # n
      BY <3>2, <1>8
    <3> QED BY <3>1, <3>2, <3>3, <1>10
  <2> QED BY <2>1, <2>2
<1>15. Stages'
  BY <1>1, <1>3, <1>4, <1>10 DEF Stages
<1>16. OneServer'
  <2> SUFFICES ASSUME NEW a \in ConnIds, NEW b \in ConnIds,
                      owner'[a] = owner'[b], owner'[a] \notin {Nobody, a, b}
               PROVE  a = b
    BY DEF OneServer
  <2>1. \A d \in ConnIds \ {n} : owner'[d] = owner[d] /\ (owner[d] = c => d = c)
    BY <1>9, <1>10
  <2>2. CASE a # n /\ b # n
    BY <2>1, <2>2 DEF OneServer
  <2>3. CASE a = n \/ b = n
    BY <2>1, <2>3, <1>10
  <2> QED BY <2>2, <2>3
<1> QED BY <1>11, <1>12, <1>13, <1>14, <1>15, <1>16

LEMMA PlayersStep == TablesOK /\ Ordered /\ Players /\ [TableStep]_tables => Players'
<1> SUFFICES ASSUME TablesOK, Ordered, Players, [TableStep]_tables PROVE Players'
  OBVIOUS
<1>1. CASE AcceptNobody \/ EndOfList \/ UNCHANGED tables
  <2>1. UNCHANGED <<connections, made, owner, protocol, processing, socket, status,
                    playerSocket, connectingSocket, named>>
    BY <1>1 DEF AcceptNobody, EndOfList, tables, connVars, playerVars
  <2> QED BY <2>1, SameList, PlayersShrink
<1>2. ASSUME NEW c \in ConnIds,
             \/ PeerCloses(c) \/ PeerResets(c) \/ Skip(c) \/ UseAfterFree(c)
             \/ ForwardToServer(c)
      PROVE  Players'
  <2>1. UNCHANGED <<connections, made, owner, protocol, processing, socket, status,
                    playerSocket, connectingSocket, named>>
    BY <1>2 DEF PeerCloses, PeerResets, Skip, UseAfterFree, ForwardToServer,
                connVars, playerVars
  <2> QED BY <2>1, SameList, PlayersShrink
<1>3. ASSUME NEW c \in ConnIds, LoginStartOffline(c) \/ EncryptionResponse(c)
      PROVE  Players'
  BY <1>3, PlayersConnect, PlayersRefused DEF LoginStartOffline, EncryptionResponse
<1> QED
  BY <1>1, <1>2, <1>3, PlayersAccept, PlayersLogin, PlayersLeave, PlayersErase,
     PlayersHandle
  DEF TableStep, Turn, Visit

-----------------------------------------------------------------------------
(* What the steps change, pointwise                                         *)

\* A number that is given out leads to e and to nothing else; if a connection
\* was made with it before, it is one that is given out again.
LEMMA Opening ==
    ASSUME TablesOK, HandlesLead, NEW h \in Free, NEW e \in ConnIds \cup {Lost}, Open(h, e)
    PROVE  /\ h \in Handles /\ h # Null /\ endpoint[h] = Nobody /\ endpoint'[h] = e
           /\ \A x \in Handles \ {h} : endpoint'[x] = endpoint[x]
           /\ reissued \subseteq reissued' /\ used \subseteq used' /\ h \in used'
           /\ \A d \in 1 .. made : /\ socket[d] \in Handles /\ socket[d] # Null
                                   /\ socket[d] = h => h \in reissued'
<1>1. endpoint \in [Handles -> ConnIds \cup {Nobody, Lost}] /\ used \subseteq Handles
  BY DEF TablesOK
<1>2. h \in Handles /\ endpoint[h] = Nobody
  BY DEF Free
<1>3. \A d \in 1 .. made : socket[d] \in used
  BY DEF HandlesLead
<1> QED BY <1>1, <1>2, <1>3, SocketsAssumption DEF Open

\* The handle of a connection is a handle.
LEMMA Sockets ==
    ASSUME TablesOK, HandlesLead
    PROVE  \A d \in 1 .. made : socket[d] \in Handles /\ socket[d] # Null /\ d # Nobody
<1>1. used \subseteq Handles /\ made \in Nat
  BY ListTypes DEF TablesOK
<1> QED BY <1>1, SocketsAssumption DEF HandlesLead, Nobody

LEMMA AcceptFacts ==
    ASSUME TablesOK, Ordered, Players, Accept
    PROVE  /\ next = 0
           /\ \E h \in Free, n \in ConnIds :
                  /\ Open(h, n) /\ n # Nobody /\ ~(n \in 1 .. made)
                  /\ made' = n /\ 1 .. made' = (1 .. made) \cup {n}
                  /\ \A d : InList(d)' <=> InList(d) \/ d = n
                  /\ socket'[n] = h /\ owner' = owner /\ owner[n] = Nobody
                  /\ \A d \in ConnIds \ {n} : socket'[d] = socket[d]
           /\ UNCHANGED <<protocol, processing, status, playerSocket, connectingSocket,
                          named, peer, stray, fault>>
<1> DEFINE n == made + 1
<1>1. PICK h \in Free : NewConnection(n, h, Nobody)
  BY DEF Accept
<1>2. made' = n /\ \A d : InList(d)' <=> InList(d) \/ d = n
  BY <1>1, Growing
<1>3. /\ n \in ConnIds /\ n > made /\ n # Nobody /\ ~(n \in 1 .. made)
      /\ 1 .. n = (1 .. made) \cup {n}
  BY ListTypes, SocketsAssumption DEF Accept, ConnIds, Nobody
<1>4. /\ socket' = [socket EXCEPT ![n] = h] /\ owner' = [owner EXCEPT ![n] = Nobody]
      /\ Open(h, n)
  BY <1>1 DEF NewConnection
<1> HIDE DEF n
<1>5. owner[n] = Nobody
  BY <1>3 DEF Players, Unmade
<1>6. owner' = owner /\ socket'[n] = h /\ \A d \in ConnIds \ {n} : socket'[d] = socket[d]
  BY <1>3, <1>4, <1>5 DEF TablesOK
<1>7. /\ next = 0
      /\ UNCHANGED <<protocol, processing, status, playerSocket, connectingSocket,
                     named, peer, stray, fault>>
  BY DEF Accept, playerVars
<1> QED BY <1>2, <1>3, <1>4, <1>5, <1>6, <1>7

\* The steps of a login that lead to Player::connect or past it.
LoginStep(c) == LoginStartOffline(c) \/ EncryptionResponse(c)

LEMMA ConnectFacts ==
    ASSUME TablesOK, Ordered, Players, NEW c \in ConnIds, LoginStep(c), Connect(c)
    PROVE  \E h \in Free, n \in ConnIds :
               /\ Open(h, n) /\ n # Nobody /\ n # c /\ ~(n \in 1 .. made)
               /\ made' = n /\ 1 .. made' = (1 .. made) \cup {n}
               /\ \A d : InList(d)' <=> InList(d) \/ d = n
               /\ \A i \in DOMAIN connections :
                      i \in DOMAIN connections' /\ connections'[i] = connections[i]
               /\ owner[n] = Nobody /\ owner'[n] = c /\ socket'[n] = h
               /\ \A d \in ConnIds \ {n} : owner'[d] = owner[d] /\ socket'[d] = socket[d]
               /\ \A d \in ConnIds \ {c} : connectingSocket'[d] = connectingSocket[d]
               /\ \A d \in ConnIds \ {n} : protocol'[d] = "ClientLogin" =>
                                               protocol[d] = "ClientLogin"
<1> DEFINE n == made + 1
<1>1. /\ c \in 1 .. made /\ owner[c] = c
  BY LoginFacts DEF LoginStep
<1>2. PICK h \in Free :
          /\ NewConnection(n, h, c)
          /\ connectingSocket' = [connectingSocket EXCEPT ![c] = h]
          /\ protocol' = [protocol EXCEPT ![c] = "ClientPlay", ![n] = "ServerLogin"]
  BY <1>1 DEF Connect
<1>3. /\ made' = n /\ \A d : InList(d)' <=> InList(d) \/ d = n
      /\ \A i \in DOMAIN connections :
             i \in DOMAIN connections' /\ connections'[i] = connections[i]
  BY <1>2, Growing
<1>4. /\ n \in ConnIds /\ n > made /\ n # Nobody /\ n # c /\ ~(n \in 1 .. made)
      /\ 1 .. n = (1 .. made) \cup {n}
  BY <1>1, ListTypes, SocketsAssumption DEF Connect, ConnIds, Nobody
<1>5. /\ socket' = [socket EXCEPT ![n] = h] /\ owner' = [owner EXCEPT ![n] = c]
      /\ Open(h, n)
  BY <1>2 DEF NewConnection
<1> HIDE DEF n
<1>6. owner[n] = Nobody
  BY <1>4 DEF Players, Unmade
<1>7. /\ owner'[n] = c /\ socket'[n] = h
      /\ \A d \in ConnIds \ {n} : owner'[d] = owner[d] /\ socket'[d] = socket[d]
      /\ \A d \in ConnIds \ {c} : connectingSocket'[d] = connectingSocket[d]
      /\ \A d \in ConnIds \ {n} : protocol'[d] = "ClientLogin" => protocol[d] = "ClientLogin"
  BY <1>2, <1>4, <1>5 DEF TablesOK
<1> QED BY <1>3, <1>4, <1>5, <1>6, <1>7

LEMMA RefuseFacts ==
    ASSUME TablesOK, NEW c \in ConnIds, ConnectFails(c)
    PROVE  /\ \/ UNCHANGED <<endpoint, used, reissued>>
              \/ \E h \in Free : Open(h, Lost)
           /\ UNCHANGED <<connections, made, socket, owner, connectingSocket>>
           /\ \A d : InList(d)' <=> InList(d)
           /\ protocol'[c] = "ClientPlay"
           /\ \A d \in ConnIds : protocol'[d] = "ClientLogin" => protocol[d] = "ClientLogin"
  BY SameList DEF ConnectFails, TablesOK

LEMMA LeaveFacts ==
    ASSUME TablesOK, Ordered, Players, HandlesLead, NEW c \in ConnIds, RecvZero(c)
    PROVE  /\ InList(c) /\ c \in 1 .. made
           /\ \A d : InList(d)' <=> InList(d) /\ d # c
           /\ \A d : Ahead(d) /\ d # c => Ahead(d)'
           /\ \A d \in ConnIds : InList(d) /\ c < d => Ahead(d)'
           /\ \A d \in ConnIds : status'[d] = status[d]
                  \/ (d = c /\ owner[c] = c /\ status'[d] = "deleted")
           /\ \A x \in Handles : endpoint'[x] \in {endpoint[x], Nobody}
           /\ owner[c] # Nobody /\ connectingSocket[owner[c]] # Null =>
                  endpoint'[connectingSocket[owner[c]]] = Nobody
           /\ peer[Source(c)] = "closed"
           /\ \A d \in ConnIds \ {c} : protocol'[d] = protocol[d]
           /\ UNCHANGED <<made, socket, owner, processing, playerSocket, connectingSocket,
                          named, peer, used, reissued, stray, fault>>
<1>1. Visiting(c) /\ Erase(c)
  BY DEF RecvZero
<1>2. /\ InList(c) /\ c \in 1 .. made
      /\ \A d : InList(d)' <=> InList(d) /\ d # c
      /\ \A d : Ahead(d) /\ d # c => Ahead(d)'
      /\ \A d \in ConnIds : InList(d) /\ c < d => Ahead(d)'
  BY <1>1, Erasing, InListMade
<1>3. \A d \in ConnIds : status'[d] = status[d]
          \/ (d = c /\ owner[c] = c /\ status'[d] = "deleted")
  <2> SUFFICES ASSUME NEW d \in ConnIds, ~(status'[d] = status[d])
               PROVE  d = c /\ owner[c] = c /\ status'[d] = "deleted"
    OBVIOUS
  <2>1. owner[c] # Nobody /\ status' = DeletedBy(owner[c], c)
    BY DEF RecvZero
  <2>2. /\ playerSocket[owner[c]] = socket[c]
        /\ status' = [status EXCEPT ![owner[c]] = "deleted"]
    BY <2>1 DEF DeletedBy
  <2>3. owner[c] = c
    BY <2>1, <2>2, Direction DEF DirectionIsStable, FromClient
  <2> QED BY <2>2, <2>3 DEF TablesOK
<1>4. /\ \A x \in Handles : endpoint'[x] \in {endpoint[x], Nobody}
      /\ owner[c] # Nobody /\ connectingSocket[owner[c]] # Null =>
             endpoint'[connectingSocket[owner[c]]] = Nobody
  <2>1. CASE owner[c] = Nobody
    BY <2>1 DEF RecvZero
  <2>2. CASE owner[c] # Nobody
    <3>1. endpoint' = Closed(connectingSocket[owner[c]])
      BY <2>2 DEF RecvZero
    <3>2. /\ owner[c] \in ConnIds
          /\ connectingSocket[owner[c]] \in Handles \cup {Null}
      BY ZenonT(90), <2>2 DEF TablesOK
    <3> QED BY <2>2, <3>1, <3>2 DEF Closed, TablesOK
  <2> QED BY <2>1, <2>2
<1>5. /\ peer[Source(c)] = "closed"
      /\ UNCHANGED <<made, socket, owner, processing, playerSocket, connectingSocket,
                     named, peer, used, reissued, stray, fault>>
  BY DEF RecvZero, history
<1>6. \A d \in ConnIds \ {c} : protocol'[d] = protocol[d]
  BY <1>1 DEF Erase, TablesOK
<1> QED BY <1>2, <1>3, <1>4, <1>5, <1>6

LEMMA EraseFacts ==
    ASSUME TablesOK, Ordered, NEW c \in ConnIds, SelectError(c) \/ RecvError(c)
    PROVE  /\ InList(c) /\ c \in 1 .. made
           /\ \A d : InList(d)' <=> InList(d) /\ d # c
           /\ \A d : Ahead(d) /\ d # c => Ahead(d)'
           /\ Source(c) = Nobody \/ peer[Source(c)] = "reset"
           /\ \A d \in ConnIds \ {c} : protocol'[d] = protocol[d]
           /\ UNCHANGED <<made, socket, owner, processing, status, playerSocket,
                          connectingSocket, named, endpoint, peer, used, reissued,
                          stray, fault>>
<1>1. Visiting(c) /\ Erase(c)
  BY DEF SelectError, RecvError
<1>2. /\ InList(c) /\ c \in 1 .. made
      /\ \A d : InList(d)' <=> InList(d) /\ d # c
      /\ \A d : Ahead(d) /\ d # c => Ahead(d)'
  BY <1>1, Erasing, InListMade
<1>3. \A d \in ConnIds \ {c} : protocol'[d] = protocol[d]
  BY <1>1 DEF Erase, TablesOK
<1>4. /\ Source(c) = Nobody \/ peer[Source(c)] = "reset"
      /\ UNCHANGED <<made, socket, owner, processing, status, playerSocket,
                     connectingSocket, named, endpoint, peer, used, reissued,
                     stray, fault>>
  BY DEF SelectError, RecvError, playerVars, history
<1> QED BY <1>2, <1>3, <1>4

\* The visits that leave the list, the handles and the players as they are.
Rest(c) ==
    \/ Skip(c) \/ Throw(c) \/ HandshakeStatus(c) \/ LoginStartOnline(c)
    \/ ForwardToServer(c) \/ ForwardToClient(c)

LEMMA RestFacts ==
    ASSUME TablesOK, Players, NEW c \in ConnIds, Rest(c)
    PROVE  /\ Visiting(c) /\ next' \in {next, next + 1}
           /\ UNCHANGED <<connections, made, socket, owner, status, playerSocket,
                          connectingSocket, endpoint, peer, used, reissued, fault>>
           /\ \A d : InList(d)' <=> InList(d)
           /\ \A d \in ConnIds : /\ processing[d] => processing'[d]
                                 /\ named[d] => named'[d]
                                 /\ protocol'[d] = "ClientLogin" =>
                                        protocol[d] = "ClientLogin"
           /\ Dangling(c) => processing[c] \/ endpoint[socket[c]] # Nobody
           /\ stray' = stray \/ ForwardToServer(c) \/ ForwardToClient(c)
<1>1. Visiting(c)
  BY DEF Rest, Skip, Throw, HandshakeStatus, LoginStartOnline, ForwardToServer,
         ForwardToClient, Handling
<1>2. next' \in {next, next + 1}
  <2>1. CASE Skip(c) \/ Throw(c)
    BY <2>1 DEF Skip, Throw, Advance
  <2>2. CASE HandshakeStatus(c) \/ LoginStartOnline(c)
    BY <2>2 DEF HandshakeStatus, LoginStartOnline, AdvanceOrStay
  <2>3. CASE ForwardToServer(c) \/ ForwardToClient(c)
    BY <2>3 DEF ForwardToServer, ForwardToClient, Advance
  <2> QED BY <2>1, <2>2, <2>3 DEF Rest
<1>3. /\ UNCHANGED <<connections, made, socket, owner, status, playerSocket,
                     connectingSocket, endpoint, peer, used, reissued, fault>>
      /\ stray' = stray \/ ForwardToServer(c) \/ ForwardToClient(c)
  BY DEF Rest, Skip, Throw, HandshakeStatus, LoginStartOnline, ForwardToServer,
         ForwardToClient, connVars, playerVars, history
<1>4. \A d : InList(d)' <=> InList(d)
  BY <1>3, SameList
<1>5. ASSUME NEW d \in ConnIds
      PROVE  /\ processing[d] => processing'[d]
             /\ named[d] => named'[d]
             /\ protocol'[d] = "ClientLogin" => protocol[d] = "ClientLogin"
  <2>1. CASE Skip(c) \/ ForwardToServer(c)
    BY <2>1 DEF Skip, ForwardToServer, connVars, playerVars
  <2>2. CASE Throw(c)
    BY <2>2 DEF Throw, TablesOK, playerVars
  <2>3. CASE HandshakeStatus(c)
    BY <2>3 DEF HandshakeStatus, TablesOK, playerVars
  <2>4. CASE LoginStartOnline(c)
    BY <2>4 DEF LoginStartOnline, TablesOK, connVars
  <2>5. CASE ForwardToClient(c)
    BY <2>5 DEF ForwardToClient, TablesOK, playerVars
  <2> QED BY <2>1, <2>2, <2>3, <2>4, <2>5 DEF Rest
<1>6. Dangling(c) => processing[c] \/ endpoint[socket[c]] # Nobody
  BY DEF Rest, Skip, Throw, HandshakeStatus, LoginStartOnline, ForwardToServer,
         ForwardToClient, Handling, HasData, Source, Nobody, Lost, ConnIds
<1> QED BY <1>1, <1>2, <1>3, <1>4, <1>5, <1>6

LEMMA HandshakeFacts ==
    ASSUME TablesOK, Players, NEW c \in ConnIds, HandshakeLogin(c)
    PROVE  /\ Visiting(c) /\ next' \in {next, next + 1} /\ InList(c) /\ ~Dangling(c)
           /\ owner[c] = Nobody /\ status[c] = "none"
           /\ owner'[c] = c /\ status'[c] = "live"
           /\ \A d \in ConnIds \ {c} : /\ owner'[d] = owner[d] /\ status'[d] = status[d]
                                       /\ protocol'[d] = protocol[d]
           /\ \A d \in ConnIds : owner[d] # c
           /\ \A d : InList(d)' <=> InList(d)
           /\ UNCHANGED <<connections, made, socket, processing, connectingSocket, named,
                          endpoint, peer, used, reissued, stray, fault>>
<1>1. /\ Visiting(c) /\ next' \in {next, next + 1} /\ ~Dangling(c)
      /\ protocol[c] = "Handshake"
      /\ owner' = [owner EXCEPT ![c] = c]
      /\ status' = [status EXCEPT ![c] = "live"]
      /\ protocol' = [protocol EXCEPT ![c] = "ClientLogin"]
      /\ UNCHANGED <<connections, made, socket, processing, connectingSocket, named,
                     endpoint, peer, used, reissued, stray, fault>>
  BY DEF HandshakeLogin, NewPlayer, Handling, AdvanceOrStay, history
<1>2. InList(c) /\ c # Nobody
  BY <1>1, VisitedInList DEF ConnIds, Nobody
<1>3. owner[c] = Nobody
  BY <1>1, <1>2 DEF Players, Stages
<1>4. status[c] = "none"
  BY <1>2, <1>3 DEF Players, Clients
<1>5. \A d \in ConnIds : owner[d] # c
  BY <1>2, <1>3 DEF Players, Servers, Served
<1>6. \A d : InList(d)' <=> InList(d)
  BY <1>1, SameList
<1>7. /\ owner'[c] = c /\ status'[c] = "live"
      /\ \A d \in ConnIds \ {c} : /\ owner'[d] = owner[d] /\ status'[d] = status[d]
                                  /\ protocol'[d] = protocol[d]
  BY <1>1 DEF TablesOK
<1> QED BY <1>1, <1>2, <1>3, <1>4, <1>5, <1>6, <1>7

\* What happens outside the loop, and the ends of a scan.
Still ==
    /\ UNCHANGED <<connections, made, connVars, playerVars, endpoint, used, reissued, stray>>
    /\ next' = next \/ next = 0 \/ next > Len(connections)

LEMMA Steps ==
    ASSUME TablesOK, [TableStep]_tables
    PROVE  \/ Accept
           \/ Still /\ UNCHANGED <<peer, fault>>
           \/ \E c \in ConnIds :
                  \/ SelectError(c) \/ RecvError(c) \/ RecvZero(c) \/ HandshakeLogin(c)
                  \/ LoginStep(c) /\ (Connect(c) \/ ConnectFails(c))
                  \/ Rest(c)
                  \/ UseAfterFree(c) /\ Still
                  \/ (PeerCloses(c) \/ PeerResets(c)) /\ Still
<1>1. CASE AcceptNobody \/ EndOfList \/ UNCHANGED tables
  BY <1>1 DEF AcceptNobody, EndOfList, tables, connVars, playerVars, history, Still
<1>2. \A c \in ConnIds : PeerCloses(c) \/ PeerResets(c) \/ UseAfterFree(c) => Still
  BY DEF PeerCloses, PeerResets, UseAfterFree, history, Still
<1>3. \A c \in ConnIds : LoginStartOffline(c) \/ EncryptionResponse(c) =>
                             LoginStep(c) /\ (Connect(c) \/ ConnectFails(c))
  BY DEF LoginStep, LoginStartOffline, EncryptionResponse
<1> QED BY <1>1, <1>2, <1>3 DEF TableStep, Turn, Visit, Rest

-----------------------------------------------------------------------------
(* Clients keep their players                                               *)

LEMMA KeepStep ==
    ASSUME TablesOK, Ordered, Players, HandlesLead, ClientKeepsPlayer, [TableStep]_tables
    PROVE  ClientKeepsPlayer'
<1> SUFFICES ASSUME NEW d \in ConnIds, InList(d)', owner'[d] = d
             PROVE  status'[d] = "live"
  BY DEF ClientKeepsPlayer, InList
<1>1. InList(d) /\ owner[d] = d => status[d] = "live"
  BY DEF ClientKeepsPlayer
<1>2. CASE Accept
  BY <1>1, <1>2, AcceptFacts DEF Nobody, ConnIds
<1>3. CASE Still
  BY <1>1, <1>3, SameList DEF Still, connVars, playerVars
<1>4. ASSUME NEW c \in ConnIds, SelectError(c) \/ RecvError(c) PROVE status'[d] = "live"
  BY <1>1, <1>4, EraseFacts
<1>5. ASSUME NEW c \in ConnIds, RecvZero(c) PROVE status'[d] = "live"
  <2>1. /\ InList(d) /\ d # c /\ owner' = owner
        /\ status'[d] = status[d] \/ (d = c /\ owner[c] = c /\ status'[d] = "deleted")
    BY <1>5, LeaveFacts
  <2> QED BY <2>1, <1>1
<1>6. ASSUME NEW c \in ConnIds, HandshakeLogin(c) PROVE status'[d] = "live"
  <2>1. CASE d = c
    BY <1>6, <2>1, HandshakeFacts
  <2>2. CASE d # c
    BY <1>1, <1>6, <2>2, HandshakeFacts
  <2> QED BY <2>1, <2>2
<1>7. ASSUME NEW c \in ConnIds, LoginStep(c), Connect(c) PROVE status'[d] = "live"
  <2>1. PICK n \in ConnIds : /\ n # c /\ owner'[n] = c
                             /\ InList(d)' <=> InList(d) \/ d = n
                             /\ \A e \in ConnIds \ {n} : owner'[e] = owner[e]
    BY <1>7, ConnectFacts
  <2>2. status' = status
    BY <1>7, LoginFacts DEF LoginStep
  <2> QED BY <1>1, <2>1, <2>2
<1>8. ASSUME NEW c \in ConnIds, LoginStep(c), ConnectFails(c) PROVE status'[d] = "live"
  <2>1. (InList(d)' <=> InList(d)) /\ owner' = owner
    BY <1>8, RefuseFacts
  <2>2. status' = status
    BY <1>8, LoginFacts DEF LoginStep
  <2> QED BY <1>1, <2>1, <2>2
<1>9. ASSUME NEW c \in ConnIds, Rest(c) PROVE status'[d] = "live"
  BY <1>1, <1>9, RestFacts
<1> QED BY <1>2, <1>3, <1>4, <1>5, <1>6, <1>7, <1>8, <1>9, Steps

-----------------------------------------------------------------------------
(* Handles                                                                  *)

\* A number that was given out again stays one.
LEMMA ReissuedGrows ==
    ASSUME TablesOK, Ordered, Players, HandlesLead, [TableStep]_tables
    PROVE  reissued \subseteq reissued'
<1>1. CASE Accept
  BY <1>1, AcceptFacts, Opening
<1>2. CASE Still
  BY <1>2 DEF Still
<1>3. ASSUME NEW c \in ConnIds, SelectError(c) \/ RecvError(c) PROVE reissued' = reissued
  BY <1>3, EraseFacts
<1>4. ASSUME NEW c \in ConnIds, RecvZero(c) PROVE reissued' = reissued
  BY <1>4, LeaveFacts
<1>5. ASSUME NEW c \in ConnIds, HandshakeLogin(c) PROVE reissued' = reissued
  BY <1>5, HandshakeFacts
<1>6. ASSUME NEW c \in ConnIds, LoginStep(c), Connect(c)
      PROVE  reissued \subseteq reissued'
  BY <1>6, ConnectFacts, Opening
<1>7. ASSUME NEW c \in ConnIds, ConnectFails(c) PROVE reissued \subseteq reissued'
  BY <1>7, RefuseFacts, Opening
<1>8. ASSUME NEW c \in ConnIds, Rest(c) PROVE reissued' = reissued
  BY <1>8, RestFacts
<1> QED BY <1>1, <1>2, <1>3, <1>4, <1>5, <1>6, <1>7, <1>8, Steps

\* A new connection and its handle.
LEMMA HandlesOpen ==
    ASSUME TablesOK, HandlesLead, NEW h \in Free, NEW n \in ConnIds, Open(h, n),
           ~(n \in 1 .. made), 1 .. made' = (1 .. made) \cup {n},
           socket'[n] = h, \A d \in ConnIds \ {n} : socket'[d] = socket[d]
    PROVE  HandlesLead'
<1> SUFFICES ASSUME NEW d \in 1 .. made'
             PROVE  /\ socket'[d] \in used'
                    /\ socket'[d] \in reissued' \/ endpoint'[socket'[d]] \in {d, Nobody}
  BY DEF HandlesLead
<1>1. CASE d = n
  BY <1>1, Opening
<1>2. CASE d # n
  <2>1. d \in 1 .. made /\ d \in ConnIds
    BY <1>2, ListTypes, SocketsAssumption DEF ConnIds
  <2>2. /\ socket'[d] = socket[d] /\ socket[d] \in used
        /\ socket[d] \in reissued \/ endpoint[socket[d]] \in {d, Nobody}
    BY <1>2, <2>1 DEF HandlesLead
  <2> QED BY <2>1, <2>2, Opening
<1> QED BY <1>1, <1>2

LEMMA HandlesStay ==
    ASSUME HandlesLead, TablesOK, UNCHANGED <<made, socket, used, reissued>>,
           \A x \in Handles : endpoint'[x] \in {endpoint[x], Nobody}
    PROVE  HandlesLead'
<1> SUFFICES ASSUME NEW d \in 1 .. made
             PROVE  /\ socket[d] \in used
                    /\ socket[d] \in reissued \/ endpoint'[socket[d]] \in {d, Nobody}
  BY DEF HandlesLead
<1> QED BY Sockets DEF HandlesLead

LEMMA HandlesStep ==
    ASSUME TablesOK, Ordered, Players, HandlesLead, [TableStep]_tables
    PROVE  HandlesLead'
<1>1. CASE Accept
  BY <1>1, AcceptFacts, HandlesOpen
<1>2. CASE Still
  BY <1>2, HandlesStay DEF Still, connVars
<1>3. ASSUME NEW c \in ConnIds, SelectError(c) \/ RecvError(c) PROVE HandlesLead'
  BY <1>3, EraseFacts, HandlesStay
<1>4. ASSUME NEW c \in ConnIds, RecvZero(c) PROVE HandlesLead'
  BY <1>4, LeaveFacts, HandlesStay
<1>5. ASSUME NEW c \in ConnIds, HandshakeLogin(c) PROVE HandlesLead'
  BY <1>5, HandshakeFacts, HandlesStay
<1>6. ASSUME NEW c \in ConnIds, LoginStep(c), Connect(c) PROVE HandlesLead'
  BY <1>6, ConnectFacts, HandlesOpen
<1>7. ASSUME NEW c \in ConnIds, ConnectFails(c) PROVE HandlesLead'
  <2>1. UNCHANGED <<made, socket>>
    BY <1>7, RefuseFacts
  <2>2. CASE UNCHANGED <<endpoint, used, reissued>>
    BY <2>1, <2>2, HandlesStay
  <2>3. ASSUME NEW h \in Free, Open(h, Lost) PROVE HandlesLead'
    <3> SUFFICES ASSUME NEW d \in 1 .. made
                 PROVE  /\ socket[d] \in used'
                        /\ socket[d] \in reissued' \/ endpoint'[socket[d]] \in {d, Nobody}
      BY <2>1 DEF HandlesLead
    <3>1. /\ socket[d] \in used
          /\ socket[d] \in reissued \/ endpoint[socket[d]] \in {d, Nobody}
      BY DEF HandlesLead
    <3> QED BY <2>3, <3>1, Opening
  <2> QED BY <1>7, <2>2, <2>3, RefuseFacts
<1>8. ASSUME NEW c \in ConnIds, Rest(c) PROVE HandlesLead'
  BY <1>8, RestFacts, HandlesStay
<1> QED BY <1>1, <1>2, <1>3, <1>4, <1>5, <1>6, <1>7, <1>8, Steps

-----------------------------------------------------------------------------
(* Orphans                                                                  *)

\* When the loop goes on, only the connection it has visited is passed over.
LEMMA AheadStays ==
    ASSUME TablesOK, NEW c, Visiting(c), next' \in {next, next + 1},
           \A i \in DOMAIN connections :
               i \in DOMAIN connections' /\ connections'[i] = connections[i]
    PROVE  \A d : Ahead(d) /\ d # c => Ahead(d)'
<1> SUFFICES ASSUME NEW d, Ahead(d), d # c PROVE Ahead(d)'
  OBVIOUS
<1>1. PICK i \in DOMAIN connections : i >= next /\ connections[i] = d
  BY DEF Ahead
<1>2. i # next /\ next >= 1 /\ next \in Nat /\ i \in Nat
  BY <1>1, ListTypes DEF Visiting
<1>3. next' >= 1 /\ i >= next' /\ i \in DOMAIN connections' /\ connections'[i] = d
  BY <1>1, <1>2
<1> QED BY <1>3 DEF Ahead

\* At the end of a scan nothing is ahead.
LEMMA NoneAhead == ASSUME TablesOK, next = 0 \/ next > Len(connections), NEW d PROVE ~Ahead(d)
<1>1. next \in Nat
  <2>1. next \in 0 .. Len(connections) + 1
    BY DEF TablesOK
  <2>2. Len(connections) \in Nat
    BY ListTypes
  <2> QED BY <2>1, <2>2
<1>2. next >= 1 => \A i \in DOMAIN connections : ~(i >= next)
  BY <1>1, ListTypes
<1> QED BY <1>2 DEF Ahead

LEMMA OrphansStep ==
    ASSUME TablesOK, Ordered, Players, ClientKeepsPlayer, HandlesLead, OrphansAhead,
           [TableStep]_tables
    PROVE  OrphansAhead'
<1> DEFINE Orphan(d) == owner[d] # Nobody /\ status[owner[d]] = "deleted"
           Waits(d) == \/ processing[d] \/ socket[d] \in reissued
                       \/ endpoint[socket[d]] = Nobody /\ Ahead(d)
<1> SUFFICES ASSUME NEW d \in ConnIds, InList(d)', owner'[d] # Nobody,
                    NEW p, p = owner'[d], status'[p] = "deleted"
             PROVE  \/ processing'[d] \/ socket'[d] \in reissued'
                    \/ endpoint'[socket'[d]] = Nobody /\ Ahead(d)'
  BY DEF OrphansAhead, Dangling, InList, Ahead
<1>1. InList(d) /\ owner[d] # Nobody /\ status[owner[d]] = "deleted" =>
          \/ processing[d] \/ socket[d] \in reissued
          \/ endpoint[socket[d]] = Nobody /\ Ahead(d)
  BY DEF OrphansAhead, Dangling
<1>2. InList(d) => d \in 1 .. made /\ socket[d] \in Handles
  BY InListMade, Sockets
<1>3. CASE Accept
  <2>1. PICK h \in Free, n \in ConnIds :
            /\ Open(h, n)
            /\ InList(d)' <=> InList(d) \/ d = n
            /\ owner' = owner /\ owner[n] = Nobody
            /\ \A e \in ConnIds \ {n} : socket'[e] = socket[e]
    BY <1>3, AcceptFacts
  <2>2. UNCHANGED <<processing, status>> /\ ~Ahead(d)
    BY <1>3, AcceptFacts, NoneAhead
  <2>3. InList(d) /\ socket'[d] = socket[d]
    BY <2>1
  <2> QED BY <1>1, <2>1, <2>2, <2>3, Opening
<1>4. CASE Still
  <2>1. UNCHANGED <<connections, processing, owner, status, endpoint, socket, reissued>>
    BY <1>4 DEF Still, connVars, playerVars
  <2>2. InList(d)
    BY <2>1, SameList
  <2>3. Ahead(d) => Ahead(d)'
    <3>1. CASE next' = next
      BY <2>1, <3>1 DEF Ahead
    <3>2. CASE next = 0 \/ next > Len(connections)
      BY <3>2, NoneAhead
    <3> QED BY <1>4, <3>1, <3>2 DEF Still
  <2> QED BY <1>1, <2>1, <2>2, <2>3
<1>5. ASSUME NEW c \in ConnIds, SelectError(c) \/ RecvError(c)
      PROVE  \/ processing'[d] \/ socket'[d] \in reissued'
             \/ endpoint'[socket'[d]] = Nobody /\ Ahead(d)'
  <2>1. /\ InList(d) /\ d # c
        /\ Ahead(d) => Ahead(d)'
        /\ UNCHANGED <<processing, owner, status, endpoint, socket, reissued>>
    BY <1>5, EraseFacts
  <2> QED BY <1>1, <2>1
<1>6. ASSUME NEW c \in ConnIds, RecvZero(c)
      PROVE  \/ processing'[d] \/ socket'[d] \in reissued'
             \/ endpoint'[socket'[d]] = Nobody /\ Ahead(d)'
  <2>1. /\ InList(d) /\ d # c
        /\ Ahead(d) => Ahead(d)'
        /\ c < d => Ahead(d)'
        /\ UNCHANGED <<processing, owner, socket, reissued, connectingSocket>>
        /\ \A e \in ConnIds : status'[e] = status[e]
               \/ (e = c /\ owner[c] = c /\ status'[e] = "deleted")
        /\ \A x \in Handles : endpoint'[x] \in {endpoint[x], Nobody}
        /\ owner[c] # Nobody /\ connectingSocket[owner[c]] # Null =>
               endpoint'[connectingSocket[owner[c]]] = Nobody
    BY <1>6, LeaveFacts
  <2>2. p \in ConnIds
    BY ZenonT(90), <2>1 DEF TablesOK
  <2>3. CASE status[p] = "deleted"
    <3>1. \/ processing[d] \/ socket[d] \in reissued
          \/ endpoint[socket[d]] = Nobody /\ Ahead(d)
      BY <1>1, <2>1, <2>3
    <3>2. socket[d] \in Handles
      BY <1>2, <2>1
    <3> QED BY <2>1, <3>1, <3>2
  <2>4. CASE status[p] # "deleted"
    <3>1. p = c /\ owner[c] = c /\ c # Nobody
      BY <2>1, <2>2, <2>4
    <3>2. c < d /\ socket[d] = connectingSocket[c]
      BY <2>1, <3>1 DEF Players, Servers, Served
    <3>3. socket[d] # Null
      BY <1>2, <2>1, SocketsAssumption
    <3> QED BY <2>1, <3>1, <3>2, <3>3
  <2> QED BY <2>3, <2>4
<1>7. ASSUME NEW c \in ConnIds, HandshakeLogin(c)
      PROVE  \/ processing'[d] \/ socket'[d] \in reissued'
             \/ endpoint'[socket'[d]] = Nobody /\ Ahead(d)'
  <2>1. d # c
    BY <1>7, HandshakeFacts
  <2>2. /\ InList(d) /\ owner'[d] = owner[d] /\ p # c
        /\ UNCHANGED <<connections, processing, socket, reissued, endpoint>>
        /\ Visiting(c) /\ next' \in {next, next + 1}
    BY <1>7, <2>1, HandshakeFacts
  <2>3. p \in ConnIds \ {c}
    BY <2>2 DEF TablesOK
  <2>4. status[p] = "deleted"
    BY <1>7, <2>3, HandshakeFacts
  <2>5. Ahead(d) => Ahead(d)'
    BY <2>1, <2>2, AheadStays
  <2> QED BY <1>1, <2>2, <2>4, <2>5
<1>8. ASSUME NEW c \in ConnIds, LoginStep(c)
      PROVE  Visiting(c) /\ next' \in {next, next + 1} /\ ~Dangling(c) /\ UNCHANGED processing
  BY <1>8 DEF LoginStep, LoginStartOffline, EncryptionResponse, Handling, AdvanceOrStay
<1>9. ASSUME NEW c \in ConnIds, LoginStep(c), Connect(c)
      PROVE  \/ processing'[d] \/ socket'[d] \in reissued'
             \/ endpoint'[socket'[d]] = Nobody /\ Ahead(d)'
  <2>1. InList(c) /\ owner[c] = c /\ status' = status
    BY <1>9, LoginFacts DEF LoginStep
  <2>2. status[c] = "live"
    BY <2>1 DEF ClientKeepsPlayer
  <2>3. PICK h \in Free, n \in ConnIds :
            /\ Open(h, n)
            /\ InList(d)' <=> InList(d) \/ d = n
            /\ \A i \in DOMAIN connections :
                   i \in DOMAIN connections' /\ connections'[i] = connections[i]
            /\ owner'[n] = c
            /\ \A e \in ConnIds \ {n} : owner'[e] = owner[e] /\ socket'[e] = socket[e]
    BY <1>9, ConnectFacts
  <2>4. d # n
    BY <2>1, <2>2, <2>3
  <2>5. InList(d) /\ owner'[d] = owner[d] /\ socket'[d] = socket[d]
    BY <2>3, <2>4
  <2>6. Ahead(d) /\ d # c => Ahead(d)'
    BY <1>8, <1>9, <2>3, AheadStays
  <2>7. d # c
    BY <2>1, <2>2, <2>5
  <2>8. \/ processing[d] \/ socket[d] \in reissued
        \/ endpoint[socket[d]] = Nobody /\ Ahead(d)
    BY <1>1, <2>1, <2>5
  <2> QED BY <1>2, <1>8, <1>9, <2>3, <2>5, <2>6, <2>7, <2>8, Opening
<1>10. ASSUME NEW c \in ConnIds, LoginStep(c), ConnectFails(c)
      PROVE  \/ processing'[d] \/ socket'[d] \in reissued'
             \/ endpoint'[socket'[d]] = Nobody /\ Ahead(d)'
  <2>1. InList(c) /\ owner[c] = c /\ status' = status
    BY <1>10, LoginFacts DEF LoginStep
  <2>2. status[c] = "live"
    BY <2>1 DEF ClientKeepsPlayer
  <2>3. /\ InList(d) /\ UNCHANGED <<connections, owner, socket>>
        /\ \/ UNCHANGED <<endpoint, used, reissued>>
           \/ \E h \in Free : Open(h, Lost)
    BY <1>10, RefuseFacts
  <2>4. d # c
    BY <2>1, <2>2, <2>3
  <2>5. Ahead(d) => Ahead(d)'
    BY <1>8, <1>10, <2>3, <2>4, AheadStays
  <2>6. \/ processing[d] \/ socket[d] \in reissued
        \/ endpoint[socket[d]] = Nobody /\ Ahead(d)
    BY <1>1, <2>1, <2>3
  <2> QED BY <1>2, <1>8, <1>10, <2>3, <2>5, <2>6, Opening
<1>11. ASSUME NEW c \in ConnIds, Rest(c)
      PROVE  \/ processing'[d] \/ socket'[d] \in reissued'
             \/ endpoint'[socket'[d]] = Nobody /\ Ahead(d)'
  <2>1. /\ Visiting(c) /\ next' \in {next, next + 1}
        /\ UNCHANGED <<connections, owner, status, socket, endpoint, reissued>>
        /\ InList(d)
        /\ processing[d] => processing'[d]
        /\ Dangling(c) => processing[c] \/ endpoint[socket[c]] # Nobody
    BY <1>11, RestFacts
  <2>2. \/ processing[d] \/ socket[d] \in reissued
        \/ endpoint[socket[d]] = Nobody /\ Ahead(d)
    BY <1>1, <2>1
  <2>3. Ahead(d) /\ d # c => Ahead(d)'
    BY <2>1, AheadStays
  <2>4. d = c => processing[d] \/ endpoint[socket[d]] # Nobody
    BY <2>1 DEF Dangling
  <2> QED BY <2>1, <2>2, <2>3, <2>4
<1> QED BY <1>3, <1>4, <1>5, <1>6, <1>7, <1>9, <1>10, <1>11, Steps

\* Between two scans nothing is ahead: what OrphansAhead leaves is OrphansSwept.
LEMMA Swept == ASSUME TablesOK, OrphansAhead PROVE OrphansSwept
  BY NoneAhead DEF OrphansAhead, OrphansSwept

-----------------------------------------------------------------------------
(* Packets                                                                  *)

\* Where handles lead as long as none has been given out twice.
LEMMA Leads ==
    ASSUME TablesOK, Players, HandlesLead, reissued = {}, NEW c \in ConnIds,
           InList(c) \/ owner[c] # Nobody, endpoint[socket[c]] \in ConnIds
    PROVE  endpoint[socket[c]] = c
<1>1. c \in 1 .. made
  <2>1. CASE InList(c)
    BY <2>1, InListMade
  <2>2. CASE owner[c] # Nobody
    BY <2>2, ListTypes DEF Players, Unmade, ConnIds
  <2> QED BY <2>1, <2>2
<1> QED BY <1>1 DEF HandlesLead, ConnIds, Nobody

LEMMA MisdirectStep ==
    ASSUME TablesOK, Ordered, Players, HandlesLead, OrphansAhead, OnlyReuseMisdirects,
           [TableStep]_tables
    PROVE  OnlyReuseMisdirects'
<1> SUFFICES ASSUME reissued' = {} PROVE ~stray' /\ fault' = "none"
  BY DEF OnlyReuseMisdirects
<1>1. reissued = {} /\ ~stray /\ fault = "none"
  BY ReissuedGrows DEF OnlyReuseMisdirects
<1>2. CASE Accept
  BY <1>1, <1>2, AcceptFacts
<1>3. CASE Still /\ UNCHANGED fault
  BY <1>1, <1>3 DEF Still
<1>4. ASSUME NEW c \in ConnIds, SelectError(c) \/ RecvError(c) PROVE ~stray' /\ fault' = "none"
  BY <1>1, <1>4, EraseFacts
<1>5. ASSUME NEW c \in ConnIds, RecvZero(c) PROVE ~stray' /\ fault' = "none"
  BY <1>1, <1>5, LeaveFacts
<1>6. ASSUME NEW c \in ConnIds, HandshakeLogin(c) PROVE ~stray' /\ fault' = "none"
  BY <1>1, <1>6, HandshakeFacts
<1>7. ASSUME NEW c \in ConnIds, LoginStep(c) PROVE ~stray' /\ fault' = "none"
  BY <1>1, <1>7, LoginFacts DEF LoginStep
<1>8. ASSUME NEW c \in ConnIds, UseAfterFree(c) PROVE FALSE
  <2>1. InList(c) /\ Dangling(c) /\ ~processing[c] /\ endpoint[socket[c]] \in ConnIds
    BY <1>8, VisitedInList DEF UseAfterFree, Source
  <2> QED BY <1>1, <2>1 DEF OrphansAhead, ConnIds, Nobody
<1>9. ASSUME NEW c \in ConnIds, PeerCloses(c) \/ PeerResets(c) PROVE UNCHANGED <<stray, fault>>
  BY <1>9 DEF PeerCloses, PeerResets, history
<1>10. ASSUME NEW c \in ConnIds, Handling(c) PROVE InList(c) /\ Source(c) = c
  <2>1. InList(c) /\ endpoint[socket[c]] \in ConnIds
    BY <1>10, VisitedInList DEF Handling, HasData, Source
  <2> QED BY <2>1, <1>1, Leads DEF Source
<1>11. ASSUME NEW c \in ConnIds, ForwardToServer(c) PROVE ~stray'
  <2> DEFINE h == connectingSocket[c]
  <2>1. owner[c] = c /\ c # Nobody
    BY <1>11, Direction DEF ForwardToServer, DirectionIsStable
  <2>2. h # Null /\ Send(c, h) /\ Source(c) = c
    BY <1>10, <1>11, <2>1 DEF ForwardToServer
  <2>3. PICK d \in ConnIds : owner[d] \notin {Nobody, d} /\ owner[d] = c /\ socket[d] = h
    BY <2>2 DEF Players, Connected, Served
  <2>4. endpoint[h] \in ConnIds => endpoint[h] = d
    BY <2>3, <1>1, Leads
  <2>5. Pair(c, d)
    BY <2>1, <2>3 DEF Pair
  <2> HIDE DEF h
  <2> QED BY <1>1, <2>2, <2>4, <2>5 DEF Send
<1>12. ASSUME NEW c \in ConnIds, ForwardToClient(c) PROVE ~stray'
  <2>1. owner[c] \in ConnIds /\ owner[c] \notin {Nobody, c}
    <3>1. owner[c] # Nobody /\ ~FromClient(c)
      BY <1>12 DEF ForwardToClient, FromClient
    <3>2. owner[c] # c
      BY <3>1, Direction DEF DirectionIsStable
    <3>3. owner[c] \in ConnIds \cup {Nobody}
      BY DEF TablesOK
    <3> QED BY <3>1, <3>2, <3>3
  <2>2. PICK p \in ConnIds : p = owner[c] /\ owner[p] = p /\ p # Nobody /\ p # c
    BY <2>1 DEF Players, Servers, Served
  <2>3. playerSocket[p] = socket[p]
    BY <2>2 DEF Players, Clients
  <2>4. Send(c, socket[p]) /\ Source(c) = c
    BY <1>10, <1>12, <2>2, <2>3 DEF ForwardToClient
  <2>5. endpoint[socket[p]] \in ConnIds => endpoint[socket[p]] = p
    BY <2>2, <1>1, Leads
  <2>6. Pair(c, p)
    BY <2>2 DEF Pair
  <2> QED BY <1>1, <2>4, <2>5, <2>6 DEF Send
<1>13. ASSUME NEW c \in ConnIds, Rest(c) PROVE ~stray' /\ fault' = "none"
  BY <1>1, <1>11, <1>12, <1>13, RestFacts
<1> QED
  BY <1>1, <1>2, <1>3, <1>4, <1>5, <1>6, <1>7, <1>8, <1>9, <1>13, Steps

-----------------------------------------------------------------------------
(* Handles that nothing will close                                          *)

LEMMA LeakStep ==
    ASSUME TablesOK, Ordered, Players, HandlesLead, OnlyLeaversLeak, [TableStep]_tables
    PROVE  OnlyLeaversLeak'
<1> SUFFICES ASSUME NEW d \in ConnIds, d <= made', ~InList(d)', endpoint'[socket'[d]] = d,
                    peer'[d] # "reset"
             PROVE  peer'[d] = "closed" /\ owner'[d] \in {Nobody, d}
  BY DEF OnlyLeaversLeak, Leaked, Source, InList
<1>1. d <= made /\ ~InList(d) /\ endpoint[socket[d]] = d =>
          peer[d] = "reset" \/ (peer[d] = "closed" /\ owner[d] \in {Nobody, d})
  BY DEF OnlyLeaversLeak, Leaked, Source
<1>2. /\ made \in Nat /\ d \in Nat /\ d # Nobody /\ d # Lost
      /\ d <= made <=> d \in 1 .. made
      /\ d \in 1 .. made => socket[d] \in Handles
  BY ListTypes, Sockets DEF ConnIds, Nobody, Lost
<1>3. CASE Accept
  <2>1. PICK h \in Free, n \in ConnIds :
            /\ Open(h, n) /\ 1 .. made' = (1 .. made) \cup {n} /\ made' = n
            /\ InList(d)' <=> InList(d) \/ d = n
            /\ owner' = owner
            /\ \A e \in ConnIds \ {n} : socket'[e] = socket[e]
    BY <1>3, AcceptFacts
  <2>2. peer' = peer
    BY <1>3, AcceptFacts
  <2>3. d # n /\ ~InList(d) /\ socket'[d] = socket[d]
    BY <2>1
  <2>4. d \in 1 .. made
    BY <2>1, <2>3 DEF ConnIds
  <2>5. endpoint[socket[d]] = d
    BY <1>2, <2>1, <2>3, <2>4, Opening
  <2> QED BY <1>1, <1>2, <2>1, <2>2, <2>3, <2>4, <2>5
<1>4. CASE Still /\ UNCHANGED peer
  BY <1>1, <1>4, SameList DEF Still, connVars
<1>5. ASSUME NEW c \in ConnIds, Still, PeerCloses(c) \/ PeerResets(c)
      PROVE  peer'[d] = "closed" /\ owner'[d] \in {Nobody, d}
  <2>1. UNCHANGED <<made, socket, owner, endpoint>> /\ ~InList(d)
    BY <1>5, SameList DEF Still, connVars
  <2>2. peer[d] = "reset" \/ (peer[d] = "closed" /\ owner[d] \in {Nobody, d})
    BY <1>1, <2>1
  <2>3. peer[c] = "open" /\ \A e \in ConnIds \ {c} : peer'[e] = peer[e]
    BY <1>5 DEF PeerCloses, PeerResets, TablesOK
  <2> QED BY <2>1, <2>2, <2>3
<1>6. ASSUME NEW c \in ConnIds, SelectError(c) \/ RecvError(c)
      PROVE  peer'[d] = "closed" /\ owner'[d] \in {Nobody, d}
  <2>1. /\ InList(d)' <=> InList(d) /\ d # c
        /\ endpoint[socket[c]] = Nobody \/ peer[endpoint[socket[c]]] = "reset"
        /\ UNCHANGED <<made, socket, owner, endpoint, peer>>
    BY <1>6, EraseFacts DEF Source
  <2>2. d # c
    BY <1>2, <2>1
  <2> QED BY <1>1, <2>1, <2>2
<1>7. ASSUME NEW c \in ConnIds, RecvZero(c)
      PROVE  peer'[d] = "closed" /\ owner'[d] \in {Nobody, d}
  <2>1. /\ InList(d)' <=> InList(d) /\ d # c
        /\ \A x \in Handles : endpoint'[x] \in {endpoint[x], Nobody}
        /\ owner[c] # Nobody /\ connectingSocket[owner[c]] # Null =>
               endpoint'[connectingSocket[owner[c]]] = Nobody
        /\ peer[endpoint[socket[c]]] = "closed"
        /\ UNCHANGED <<made, socket, owner, peer>>
    BY <1>7, LeaveFacts DEF Source
  <2>2. endpoint[socket[d]] = d
    BY <1>2, <2>1
  <2>3. CASE d # c
    BY <1>1, <2>1, <2>2, <2>3
  <2>4. CASE d = c
    <3>1. peer[c] = "closed"
      BY <2>1, <2>2, <2>4
    <3>2. ASSUME owner[c] \notin {Nobody, c} PROVE FALSE
      <4>1. socket[c] = connectingSocket[owner[c]]
        BY <3>2 DEF Players, Servers, Served
      <4>2. socket[c] # Null
        BY <1>2, <2>1, <2>4, SocketsAssumption
      <4> QED BY <1>2, <2>1, <2>4, <3>2, <4>1, <4>2
    <3> QED BY <2>1, <2>4, <3>1, <3>2
  <2> QED BY <2>3, <2>4
<1>8. ASSUME NEW c \in ConnIds, HandshakeLogin(c)
      PROVE  peer'[d] = "closed" /\ owner'[d] \in {Nobody, d}
  <2>1. d # c
    BY <1>8, HandshakeFacts
  <2> QED BY <1>1, <1>8, <2>1, HandshakeFacts
<1>9. ASSUME NEW c \in ConnIds, LoginStep(c), Connect(c)
      PROVE  peer'[d] = "closed" /\ owner'[d] \in {Nobody, d}
  <2>1. PICK h \in Free, n \in ConnIds :
            /\ Open(h, n) /\ 1 .. made' = (1 .. made) \cup {n} /\ made' = n
            /\ InList(d)' <=> InList(d) \/ d = n
            /\ \A e \in ConnIds \ {n} : owner'[e] = owner[e] /\ socket'[e] = socket[e]
    BY <1>9, ConnectFacts
  <2>2. peer' = peer
    BY <1>9, LoginFacts DEF LoginStep
  <2>3. d # n /\ ~InList(d) /\ socket'[d] = socket[d] /\ owner'[d] = owner[d]
    BY <2>1
  <2>4. d \in 1 .. made
    BY <2>1, <2>3 DEF ConnIds
  <2>5. endpoint[socket[d]] = d
    BY <1>2, <2>1, <2>3, <2>4, Opening
  <2> QED BY <1>1, <1>2, <2>2, <2>3, <2>4, <2>5
<1>10. ASSUME NEW c \in ConnIds, LoginStep(c), ConnectFails(c)
      PROVE  peer'[d] = "closed" /\ owner'[d] \in {Nobody, d}
  <2>1. /\ ~InList(d) /\ UNCHANGED <<made, owner, socket>>
        /\ \/ UNCHANGED <<endpoint, used, reissued>>
           \/ \E h \in Free : Open(h, Lost)
    BY <1>10, RefuseFacts
  <2>2. peer' = peer
    BY <1>10, LoginFacts DEF LoginStep
  <2>3. d \in 1 .. made /\ endpoint'[socket[d]] = d
    BY <1>2, <2>1
  <2>4. endpoint[socket[d]] = d
    BY <1>2, <2>1, <2>3, Opening
  <2> QED BY <1>1, <2>1, <2>2, <2>4
<1>11. ASSUME NEW c \in ConnIds, Rest(c)
      PROVE  peer'[d] = "closed" /\ owner'[d] \in {Nobody, d}
  BY <1>1, <1>11, RestFacts
<1>12. \A c \in ConnIds : UseAfterFree(c) => UNCHANGED peer
  BY DEF UseAfterFree
<1> QED
  BY <1>3, <1>4, <1>5, <1>6, <1>7, <1>8, <1>9, <1>10, <1>11, <1>12, Steps

-----------------------------------------------------------------------------
(* Handles that are lost                                                    *)

LEMMA GivenUpFinite == ASSUME MaxConns \in Nat PROVE IsFiniteSet(ConnIds)
  BY FS_Interval DEF ConnIds

\* Nobody gives up being given up, and as many handles are lost at most.
LEMMA LossesKept ==
    ASSUME LossesCounted,
           LostHandles' \subseteq LostHandles, GivenUp \subseteq GivenUp'
    PROVE  LossesCounted'
<1>1. /\ IsFiniteSet(LostHandles) /\ IsFiniteSet(GivenUp)
      /\ Cardinality(LostHandles) <= Cardinality(GivenUp)
  BY DEF LossesCounted
<1>2. IsFiniteSet(ConnIds) /\ GivenUp' \subseteq ConnIds
  BY GivenUpFinite, SocketsAssumption DEF GivenUp
<1>3. IsFiniteSet(GivenUp')
  BY <1>2, FS_Subset
<1>4. IsFiniteSet(LostHandles') /\ Cardinality(LostHandles') <= Cardinality(LostHandles)
  BY <1>1, FS_Subset
<1>5. Cardinality(GivenUp) <= Cardinality(GivenUp')
  BY <1>3, FS_Subset
<1>6. /\ Cardinality(LostHandles') \in Nat /\ Cardinality(LostHandles) \in Nat
      /\ Cardinality(GivenUp') \in Nat /\ Cardinality(GivenUp) \in Nat
  BY <1>1, <1>3, <1>4, FS_CardinalityType
<1> QED BY <1>1, <1>3, <1>4, <1>5, <1>6 DEF LossesCounted

\* One handle more is made up for by one player more.
LEMMA LossesGrow ==
    ASSUME LossesCounted, NEW h, NEW c,
           LostHandles' \subseteq LostHandles \cup {h},
           GivenUp \cup {c} \subseteq GivenUp', c \notin GivenUp
    PROVE  LossesCounted'
<1>1. /\ IsFiniteSet(LostHandles) /\ IsFiniteSet(GivenUp)
      /\ Cardinality(LostHandles) <= Cardinality(GivenUp)
      /\ Cardinality(LostHandles) \in Nat /\ Cardinality(GivenUp) \in Nat
  BY FS_CardinalityType DEF LossesCounted
<1>2. IsFiniteSet(ConnIds) /\ GivenUp' \subseteq ConnIds
  BY GivenUpFinite, SocketsAssumption DEF GivenUp
<1>3. IsFiniteSet(GivenUp')
  BY <1>2, FS_Subset
<1>4. /\ IsFiniteSet(LostHandles \cup {h})
      /\ Cardinality(LostHandles \cup {h}) <= Cardinality(LostHandles) + 1
  <2>1. /\ IsFiniteSet(LostHandles \cup {h})
        /\ \/ Cardinality(LostHandles \cup {h}) = Cardinality(LostHandles)
           \/ Cardinality(LostHandles \cup {h}) = Cardinality(LostHandles) + 1
    BY <1>1, FS_AddElement
  <2> QED BY <1>1, <2>1
<1>5. /\ IsFiniteSet(LostHandles')
      /\ Cardinality(LostHandles') <= Cardinality(LostHandles \cup {h})
  BY <1>4, FS_Subset
<1>6. Cardinality(GivenUp \cup {c}) = Cardinality(GivenUp) + 1
  BY <1>1, FS_AddElement
<1>7. Cardinality(GivenUp \cup {c}) <= Cardinality(GivenUp')
  BY <1>3, FS_Subset
<1>8. /\ Cardinality(LostHandles') \in Nat /\ Cardinality(GivenUp') \in Nat
      /\ Cardinality(LostHandles \cup {h}) \in Nat
  BY <1>3, <1>4, <1>5, FS_CardinalityType
<1> QED BY <1>1, <1>3, <1>4, <1>5, <1>6, <1>7, <1>8 DEF LossesCounted

\* When a player is given up for good.
LEMMA GivenUpStays ==
    ASSUME TablesOK, NEW p \in ConnIds, p \in GivenUp,
           status'[p] # "none", named'[p], connectingSocket'[p] = Null,
           InList(p)' /\ protocol'[p] = "ClientLogin" => InList(p) /\ protocol[p] = "ClientLogin"
    PROVE  p \in GivenUp'
  BY DEF GivenUp, Unserved, InList

LEMMA GivenUpFacts ==
    ASSUME Players, NEW p \in GivenUp
    PROVE  /\ p \in ConnIds /\ status[p] # "none" /\ named[p] /\ connectingSocket[p] = Null
           /\ ~(InList(p) /\ protocol[p] = "ClientLogin")
           /\ owner[p] = p
  BY DEF GivenUp, Unserved, Players, Clients

LEMMA LossStep ==
    ASSUME TablesOK, Ordered, Players, HandlesLead, LossesCounted, [TableStep]_tables
    PROVE  LossesCounted'
<1>1. CASE Accept
  <2>1. PICK h \in Free, n \in ConnIds :
            /\ Open(h, n) /\ owner[n] = Nobody /\ n # Nobody
            /\ \A d : InList(d)' <=> InList(d) \/ d = n
    BY <1>1, AcceptFacts
  <2>2. UNCHANGED <<protocol, status, connectingSocket, named>>
    BY <1>1, AcceptFacts
  <2>3. LostHandles' \subseteq LostHandles
    BY <2>1, Opening DEF LostHandles, Lost, ConnIds
  <2>4. GivenUp \subseteq GivenUp'
    <3> SUFFICES ASSUME NEW p \in GivenUp PROVE p \in GivenUp'
      OBVIOUS
    <3>1. p \in ConnIds /\ p # n
      BY <2>1, GivenUpFacts
    <3> QED BY <2>1, <2>2, <3>1, GivenUpFacts, GivenUpStays
  <2> QED BY <2>3, <2>4, LossesKept
<1>2. ASSUME UNCHANGED <<status, connectingSocket, endpoint>>,
             \A d \in ConnIds : /\ named[d] => named'[d]
                                /\ InList(d)' /\ protocol'[d] = "ClientLogin" =>
                                       InList(d) /\ protocol[d] = "ClientLogin"
      PROVE  LossesCounted'
  <2>1. LostHandles' = LostHandles
    BY <1>2 DEF LostHandles
  <2>2. GivenUp \subseteq GivenUp'
    BY <1>2, GivenUpFacts, GivenUpStays
  <2> QED BY <2>1, <2>2, LossesKept
<1>3. CASE Still
  BY <1>2, <1>3, SameList DEF Still, connVars, playerVars
<1>4. ASSUME NEW c \in ConnIds, SelectError(c) \/ RecvError(c) PROVE LossesCounted'
  BY <1>2, <1>4, EraseFacts
<1>5. ASSUME NEW c \in ConnIds, RecvZero(c) PROVE LossesCounted'
  <2>1. /\ \A d : InList(d)' <=> InList(d) /\ d # c
        /\ \A d \in ConnIds : status'[d] = status[d]
               \/ (d = c /\ owner[c] = c /\ status'[d] = "deleted")
        /\ \A x \in Handles : endpoint'[x] \in {endpoint[x], Nobody}
        /\ \A d \in ConnIds \ {c} : protocol'[d] = protocol[d]
        /\ UNCHANGED <<named, connectingSocket>>
    BY <1>5, LeaveFacts
  <2>2. LostHandles' \subseteq LostHandles
    BY <2>1 DEF LostHandles, Lost, Nobody
  <2>3. GivenUp \subseteq GivenUp'
    <3> SUFFICES ASSUME NEW p \in GivenUp PROVE p \in GivenUp'
      OBVIOUS
    <3>1. p \in ConnIds /\ status[p] # "none" /\ named[p] /\ connectingSocket[p] = Null
      BY GivenUpFacts
    <3>2. status'[p] # "none"
      BY <2>1, <3>1
    <3> QED BY <2>1, <3>1, <3>2, GivenUpStays
  <2> QED BY <2>2, <2>3, LossesKept
<1>6. ASSUME NEW c \in ConnIds, HandshakeLogin(c) PROVE LossesCounted'
  <2>1. /\ status[c] = "none" /\ \A d : InList(d)' <=> InList(d)
        /\ \A d \in ConnIds \ {c} : status'[d] = status[d] /\ protocol'[d] = protocol[d]
        /\ UNCHANGED <<connectingSocket, named, endpoint>>
    BY <1>6, HandshakeFacts
  <2>2. LostHandles' = LostHandles
    BY <2>1 DEF LostHandles
  <2>3. GivenUp \subseteq GivenUp'
    <3> SUFFICES ASSUME NEW p \in GivenUp PROVE p \in GivenUp'
      OBVIOUS
    <3>1. p \in ConnIds \ {c}
      BY <2>1, GivenUpFacts
    <3> QED BY <2>1, <3>1, GivenUpFacts, GivenUpStays
  <2> QED BY <2>2, <2>3, LossesKept
<1>7. ASSUME NEW c \in ConnIds, LoginStep(c), Connect(c) PROVE LossesCounted'
  <2>1. /\ InList(c) /\ protocol[c] = "ClientLogin" /\ status' = status
        /\ named' = [named EXCEPT ![c] = TRUE]
    BY <1>7, LoginFacts DEF LoginStep
  <2>2. PICK h \in Free, n \in ConnIds :
            /\ Open(h, n) /\ owner[n] = Nobody /\ n # Nobody
            /\ \A d : InList(d)' <=> InList(d) \/ d = n
            /\ \A d \in ConnIds \ {c} : connectingSocket'[d] = connectingSocket[d]
            /\ \A d \in ConnIds \ {n} : protocol'[d] = "ClientLogin" =>
                                            protocol[d] = "ClientLogin"
    BY <1>7, ConnectFacts
  <2>3. LostHandles' \subseteq LostHandles
    BY <2>2, Opening DEF LostHandles, Lost, ConnIds
  <2>4. GivenUp \subseteq GivenUp'
    <3> SUFFICES ASSUME NEW p \in GivenUp PROVE p \in GivenUp'
      OBVIOUS
    <3>1. p \in ConnIds \ {c, n}
      BY <2>1, <2>2, GivenUpFacts
    <3>2. named'[p] = named[p]
      BY <2>1, <3>1 DEF TablesOK
    <3> QED BY <2>1, <2>2, <3>1, <3>2, GivenUpFacts, GivenUpStays
  <2> QED BY <2>3, <2>4, LossesKept
<1>8. ASSUME NEW c \in ConnIds, LoginStep(c), ConnectFails(c) PROVE LossesCounted'
  <2>1. /\ InList(c) /\ protocol[c] = "ClientLogin" /\ status' = status
        /\ owner[c] = c /\ connectingSocket[c] = Null
        /\ named' = [named EXCEPT ![c] = TRUE]
    BY <1>8, LoginFacts DEF LoginStep
  <2>2. /\ \/ UNCHANGED <<endpoint, used, reissued>>
           \/ \E h \in Free : Open(h, Lost)
        /\ UNCHANGED connectingSocket
        /\ \A d : InList(d)' <=> InList(d)
        /\ protocol'[c] = "ClientPlay"
        /\ \A d \in ConnIds : protocol'[d] = "ClientLogin" => protocol[d] = "ClientLogin"
    BY <1>8, RefuseFacts
  <2>3. named'[c] /\ \A p \in ConnIds : named[p] => named'[p]
    BY <2>1 DEF TablesOK
  <2>4. status[c] # "none"
    BY <2>1 DEF Players, Clients
  <2>5. c \notin GivenUp /\ c \in GivenUp'
    BY <2>1, <2>2, <2>3, <2>4 DEF GivenUp, Unserved, InList
  <2>6. GivenUp \subseteq GivenUp'
    <3> SUFFICES ASSUME NEW p \in GivenUp PROVE p \in GivenUp'
      OBVIOUS
    <3> QED BY <2>1, <2>2, <2>3, GivenUpFacts, GivenUpStays
  <2>7. CASE UNCHANGED endpoint
    <3>1. LostHandles' = LostHandles
      BY <2>7 DEF LostHandles
    <3> QED BY <2>6, <3>1, LossesKept
  <2>8. ASSUME NEW h \in Free, Open(h, Lost) PROVE LossesCounted'
    <3>1. LostHandles' \subseteq LostHandles \cup {h}
      BY <2>8, Opening DEF LostHandles
    <3> QED BY <2>5, <2>6, <3>1, LossesGrow
  <2> QED BY <2>2, <2>7, <2>8
<1>9. ASSUME NEW c \in ConnIds, Rest(c) PROVE LossesCounted'
  BY <1>2, <1>9, RestFacts
<1> QED BY <1>1, <1>3, <1>4, <1>5, <1>6, <1>7, <1>8, <1>9, Steps

LEMMA Losses == ASSUME LossesCounted PROVE OneLossPerLogin
<1> DEFINE all == {p \in ConnIds : Unserved(p)}
<1>1. GivenUp \subseteq all /\ IsFiniteSet(all)
  BY GivenUpFinite, SocketsAssumption, FS_Subset DEF GivenUp
<1>2. Cardinality(GivenUp) <= Cardinality(all)
  BY <1>1, FS_Subset
<1>3. /\ IsFiniteSet(LostHandles) /\ IsFiniteSet(GivenUp)
      /\ Cardinality(LostHandles) <= Cardinality(GivenUp)
  BY DEF LossesCounted
<1>4. /\ Cardinality(LostHandles) \in Nat /\ Cardinality(GivenUp) \in Nat
      /\ Cardinality(all) \in Nat
  BY <1>1, <1>3, FS_CardinalityType
<1>5. Cardinality(LostHandles) <= Cardinality(all)
  BY <1>2, <1>3, <1>4
<1> QED BY <1>5 DEF OneLossPerLogin, LostHandles

-----------------------------------------------------------------------------
(* The theorems                                                             *)

LEMMA InitInv == Init => IInv
<1> SUFFICES ASSUME Init PROVE IInv
  OBVIOUS
<1>1. connections = << >> /\ Len(connections) = 0 /\ DOMAIN connections = {}
  BY DEF Init
<1>2. \A d : ~InList(d)
  BY <1>1 DEF InList
<1>3. TablesOK
  <2>1. connections \in Seq(1 .. made)
    BY <1>1, EmptySeq
  <2>2. made \in 0 .. MaxConns /\ next \in 0 .. Len(connections) + 1
    BY <1>1, SocketsAssumption DEF Init
  <2>3. FieldTypes
    BY DEF Init, FieldTypes, Protocols
  <2> QED BY <2>1, <2>2, <2>3 DEF TablesOK, FieldTypes
<1>4. Ordered /\ ClientKeepsPlayer /\ OrphansAhead
  BY <1>1, <1>2 DEF Ordered, ClientKeepsPlayer, OrphansAhead
<1>5. Players
  BY <1>2 DEF Init, Players, Unmade, Clients, Servers, Connected, Stages, OneServer,
              Served, ConnIds, Nobody
<1>6. HandlesLead /\ OnlyLeaversLeak
  BY DEF Init, HandlesLead, OnlyLeaversLeak, Leaked, ConnIds
<1>7. OnlyReuseMisdirects
  BY DEF Init, OnlyReuseMisdirects
<1>8. LossesCounted
  <2>1. LostHandles = {} /\ GivenUp = {}
    BY DEF Init, LostHandles, Lost, Nobody, GivenUp, Unserved
  <2> QED BY <2>1, FS_EmptySet DEF LossesCounted
<1> QED BY <1>3, <1>4, <1>5, <1>6, <1>7, <1>8 DEF IInv, Core

LEMMA TablesInv == IInv /\ [TableStep]_tables => IInv'
<1> SUFFICES ASSUME IInv, [TableStep]_tables PROVE IInv'
  OBVIOUS
<1>1. /\ TablesOK /\ Ordered /\ Players /\ ClientKeepsPlayer /\ HandlesLead
      /\ OrphansAhead /\ OnlyReuseMisdirects /\ OnlyLeaversLeak /\ LossesCounted
  BY DEF IInv, Core
<1>2. TablesOK' /\ Ordered' /\ Players'
  BY <1>1, TypeStep, PlayersStep
<1>3. ClientKeepsPlayer' /\ HandlesLead'
  BY <1>1, KeepStep, HandlesStep
<1>4. OrphansAhead' /\ OnlyReuseMisdirects' /\ OnlyLeaversLeak' /\ LossesCounted'
  BY <1>1, OrphansStep, MisdirectStep, LeakStep, LossStep
<1> QED BY <1>2, <1>3, <1>4 DEF IInv, Core

\* Every step is a step of the tables, or leaves them as they are.
LEMMA StepOfTables == [Next]_vars => [TableStep]_tables
<1> SUFFICES ASSUME [Next]_vars PROVE [TableStep]_tables
  OBVIOUS
<1>1. CASE Loop
  BY <1>1 DEF Loop, TableStep
<1>2. ASSUME NEW c \in ConnIds, SendWaits(c) PROVE TableStep
  BY <1>2 DEF SendWaits, TableStep, Turn, Visit
<1>3. ASSUME NEW c \in ConnIds, HandleSpins(c) PROVE UNCHANGED tables
  BY <1>3 DEF HandleSpins
<1>4. CASE SendReturns
  BY <1>4 DEF SendReturns
<1>5. CASE Peers
  BY <1>5 DEF Peers, TableStep
<1>6. CASE Undefined \/ UNCHANGED vars
  BY <1>6 DEF Undefined, vars
<1> QED
  BY <1>1, <1>2, <1>3, <1>4, <1>5, <1>6 DEF Next

HandleTyped == handle \in {"returned", "sending", "endless"}

LEMMA HandleStep == HandleTyped /\ [Next]_vars => HandleTyped'
<1> SUFFICES ASSUME HandleTyped, [Next]_vars PROVE HandleTyped'
  OBVIOUS
<1>1. handle' = handle \/ handle' \in {"returned", "sending", "endless"}
  BY DEF Next, Loop, SendWaits, HandleSpins, SendReturns, Peers, Undefined, vars
<1> QED
  BY <1>1 DEF HandleTyped

LEMMA Invariance == Spec => []IInv
<1>1. IInv /\ [Next]_vars => IInv'
  BY StepOfTables, TablesInv
<1> QED
  BY <1>1, InitInv, PTL DEF Spec

\* The fields of connections and players, the list and the handle table keep
\* their types through every step of WinSockTCP::start and of the handlers.
THEOREM SocketsTypes == Spec => []TypeOK
<1>1. Init => HandleTyped
  BY DEF Init, HandleTyped
<1>2. Spec => []HandleTyped
  BY <1>1, HandleStep, PTL DEF Spec
<1>3. IInv /\ HandleTyped => TypeOK
  BY DEF IInv, Core, HandleTyped, TypeOK
<1> QED BY <1>2, <1>3, Invariance, PTL

\* handle takes a packet for the client's exactly when it comes from the
\* client's own connection, whatever handle numbers the system gives out again.
THEOREM DirectionStable == Spec => []DirectionIsStable
<1>1. IInv => DirectionIsStable
  BY Direction DEF IInv, Core
<1> QED BY <1>1, Invariance, PTL

\* disconnect deletes a player only together with its client's connection.
THEOREM ClientsKeepPlayers == Spec => []ClientKeepsPlayer
<1>1. IInv => ClientKeepsPlayer
  BY DEF IInv, Core
<1> QED BY <1>1, Invariance, PTL

\* Player::connect is reached once for a player: it never has two servers.
THEOREM OneServerEach == Spec => []OneServer
<1>1. IInv => OneServer
  BY DEF IInv, Core, Players
<1> QED BY <1>1, Invariance, PTL

\* The scan that deletes a player erases the connection of its server too,
\* unless that one is wedged or its handle number was given out again.
THEOREM OrphansAreSwept == Spec => []OrphansSwept
<1>1. IInv => OrphansSwept
  BY Swept DEF IInv, Core
<1> QED BY <1>1, Invariance, PTL

\* As long as no handle number is given out twice, send reaches the other end
\* of the packet's own pair and no deleted player is used.
THEOREM ReuseAloneMisdirects == Spec => []OnlyReuseMisdirects
<1>1. IInv => OnlyReuseMisdirects
  BY DEF IInv
<1> QED BY <1>1, Invariance, PTL

\* The only open handles the loop has no use for are those of peers that left:
\* of clients, and of servers that were reset.
THEOREM LeaversAloneLeak == Spec => []OnlyLeaversLeak
<1>1. IInv => OnlyLeaversLeak
  BY DEF IInv
<1> QED BY <1>1, Invariance, PTL

\* A connect that fails forgets a handle; a player's login does so once at most.
THEOREM LossesAreBounded == Spec => []OneLossPerLogin
<1>1. IInv => OneLossPerLogin
  BY Losses DEF IInv
<1> QED BY <1>1, Invariance, PTL

=============================================================================
