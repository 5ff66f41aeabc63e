-------------------------- MODULE BufferPoolProofs --------------------------
(***************************************************************************)
(* Proofs about BufferPool for all sizes and any number of buffers: types,  *)
(* that only a buffer released too early gets a second user, and that the   *)
(* pool grows by what is lost and by nothing else.                          *)
(***************************************************************************)
EXTENDS BufferPool, SequenceTheorems, FiniteSetTheorems, TLAPS

-----------------------------------------------------------------------------
(* The inductive invariant                                                  *)

JavaPurposes == {"reply", "first", "client", "server"}
BedrockPurposes == Purposes \ JavaPurposes

Asking(t) == pc[t] \in {"lock", "scan", "take"}

\* Where each thread is; the walk over the list is that of the lock's owner.
Control ==
    /\ pc["java"] \in JavaLocations /\ pc["bedrock"] \in BedrockLocations
    /\ \A t \in Threads : pc[t] \in {"scan", "take"} <=> lock = t
    /\ Asking("java") => why["java"] \in JavaPurposes
    /\ Asking("bedrock") => why["bedrock"] \in BedrockPurposes
    /\ \A t \in Threads :
           /\ Asking(t) => want[t] \in Sizes
           /\ pc[t] = "scan" => at[t] \in 1 .. Len(pool) + 1
           /\ pc[t] = "take" => at[t] \in 1 .. Len(pool)

\* While packets are handled their buffers are held, or are among those that
\* were released early; the innermost is not when it is about to be forgotten.
Working ==
    \/ pc["bedrock"] \in BedrockLocations \ {"idle", "lock", "scan", "take", "drop"}
    \/ Asking("bedrock") /\ why["bedrock"] # "packet"

Forgetting == pc["bedrock"] = "drop"

Carried ==
    /\ Working \/ Forgetting <=> packets # << >>
    /\ \A i \in 1 .. Len(packets) :
           i # Len(packets) \/ Working =>
               packets[i] \in held["bedrock packet"] \cup early
    /\ pc["java"] \in {"first", "again", "second"} => login \in 1 .. Len(pool)
    /\ pc["java"] = "second" => login \in early

\* A buffer in use is not marked released, has one user, and is not the one a
\* search has found, unless it was released early.
Unmarked ==
    \A r \in Roles : \A b \in held[r] : b \in early \/ ~pool[b].released

Found ==
    \A t \in Threads :
        pc[t] = "take" =>
            \/ at[t] \in early
            \/ pool[at[t]].released /\ \A r \in Roles : at[t] \notin held[r]

Owned == Unmarked /\ OnlyEarlyReleaseShares /\ Found

IInv == TypeOK /\ Control /\ Carried /\ Owned

-----------------------------------------------------------------------------
(* The pool and its changes                                                 *)

LEMMA RoleTypes ==
    \A p \in Purposes :
        /\ RoleFor(p) \in Roles
        /\ p \in {"packet", "whole"} <=> RoleFor(p) = "bedrock packet"
  BY ZenonT(90) DEF Purposes, RoleFor, Roles

LEMMA PoolFields ==
    ASSUME TypeOK
    PROVE  /\ Len(pool) \in Nat
           /\ DOMAIN pool = 1 .. Len(pool)
           /\ \A b \in 1 .. Len(pool) : pool[b] \in Buffer
  BY LenProperties, ElementOfSeq DEF TypeOK

\* The packets in hand are buffers of the pool, the innermost is the last.
LEMMA PacketFields ==
    ASSUME TypeOK
    PROVE  /\ packets \in Seq(1 .. Len(pool)) /\ Len(packets) \in Nat
           /\ DOMAIN packets = 1 .. Len(packets)
           /\ \A i \in 1 .. Len(packets) : packets[i] \in 1 .. Len(pool)
           /\ packets # << >> => /\ Len(packets) \in 1 .. Len(packets)
                                 /\ packet \in 1 .. Len(pool)
<1>1. packets \in Seq(1 .. Len(pool))
  BY PoolFields DEF TypeOK, Buffers
<1>2. /\ Len(packets) \in Nat /\ DOMAIN packets = 1 .. Len(packets)
      /\ \A i \in 1 .. Len(packets) : packets[i] \in 1 .. Len(pool)
  BY <1>1, LenProperties, ElementOfSeq
<1>3. packets # << >> => Len(packets) # 0
  BY <1>1, EmptySeq
<1>4. packets # << >> => Len(packets) \in 1 .. Len(packets)
  BY <1>2, <1>3
<1> QED
  BY <1>1, <1>2, <1>4 DEF packet

\* A step that leaves the packets and their buffers alone.
LEMMA CarriedStays ==
    ASSUME IInv, packets' = packets, login' = login, early \subseteq early',
           Len(pool') = Len(pool),
           held'["bedrock packet"] = held["bedrock packet"],
           Working' => Working, Working' \/ Forgetting' <=> Working \/ Forgetting,
           pc'["java"] \in {"first", "again", "second"} => login \in 1 .. Len(pool),
           pc'["java"] = "second" => login \in early'
    PROVE  Carried'
  BY DEF IInv, Carried

\* release() marks one buffer and changes nothing about the others.
LEMMA ReleasedPool ==
    ASSUME TypeOK, NEW b \in 1 .. Len(pool), Released(b)
    PROVE  /\ pool' \in Seq(Buffer) /\ Len(pool') = Len(pool)
           /\ pool'[b].released
           /\ \A i \in 1 .. Len(pool) : i # b => pool'[i] = pool[i]
<1>1. PICK c \in {n \in Sizes : n >= pool[b].cap} :
          pool' = [pool EXCEPT ![b] = [@ EXCEPT !.cap = c, !.released = TRUE]]
  BY DEF Released
<1> DEFINE e == [pool[b] EXCEPT !.cap = c, !.released = TRUE]
<1>2. pool[b] \in Buffer /\ b \in DOMAIN pool
  BY PoolFields
<1>3. c \in Nat
  BY PoolAssumption
<1>4. e \in Buffer /\ e.released
  BY <1>2, <1>3 DEF Buffer
<1>5. pool' = [pool EXCEPT ![b] = e]
  BY <1>1, <1>2
<1>6. pool \in Seq(Buffer)
  BY DEF TypeOK
<1> HIDE DEF e
<1>7. /\ pool' \in Seq(Buffer) /\ Len(pool') = Len(pool)
      /\ \A j \in 1 .. Len(pool) : pool'[j] = IF j = b THEN e ELSE pool[j]
  BY <1>4, <1>5, <1>6, ExceptSeq
<1> QED
  BY <1>4, <1>7

\* use() takes the mark away from one buffer.
LEMMA UsedPool ==
    ASSUME TypeOK, NEW b \in 1 .. Len(pool),
           pool' = [pool EXCEPT ![b].released = FALSE]
    PROVE  /\ pool' \in Seq(Buffer) /\ Len(pool') = Len(pool)
           /\ ~pool'[b].released
           /\ \A i \in 1 .. Len(pool) : i # b => pool'[i] = pool[i]
<1> DEFINE e == [pool[b] EXCEPT !.released = FALSE]
<1>1. pool[b] \in Buffer /\ b \in DOMAIN pool
  BY PoolFields
<1>2. e \in Buffer /\ ~e.released
  BY <1>1 DEF Buffer
<1>3. pool' = [pool EXCEPT ![b] = e]
  BY <1>1
<1>4. pool \in Seq(Buffer)
  BY DEF TypeOK
<1> HIDE DEF e
<1> DEFINE changed == [pool EXCEPT ![b] = e]
<1>5. /\ changed \in Seq(Buffer) /\ Len(changed) = Len(pool)
      /\ \A j \in 1 .. Len(pool) : changed[j] = IF j = b THEN e ELSE pool[j]
  BY <1>2, <1>4, ExceptSeq
<1>6. pool' = changed
  BY <1>3
<1> HIDE DEF changed
<1> QED
  BY <1>2, <1>5, <1>6

-----------------------------------------------------------------------------
(* Steps that leave the pool alone                                          *)

Purpose(t) == IF t = "java" THEN JavaPurposes ELSE BedrockPurposes
Location(t) == IF t = "java" THEN JavaLocations ELSE BedrockLocations

\* A thread begins to look for a buffer.
LEMMA AskKeeps ==
    ASSUME IInv, NEW t \in Threads, NEW p \in Purpose(t), ~Asking(t),
           t = "bedrock" /\ p # "packet" => Working,
           t = "bedrock" /\ p = "packet" => pc["bedrock"] = "idle",
           Ask(t, p), UNCHANGED <<held, login, packets, framed, early>>
    PROVE  IInv'
<1> USE DEF IInv
<1>1. PICK n \in Asked[p] : want' = [want EXCEPT ![t] = n]
  BY DEF Ask
<1>2. p \in Purposes /\ n \in Sizes
  BY <1>1, PoolAssumption DEF Purpose, BedrockPurposes, JavaPurposes, Purposes
<1>3. /\ pc' = [pc EXCEPT ![t] = "lock"] /\ why' = [why EXCEPT ![t] = p]
      /\ UNCHANGED <<pool, lock, at>>
  BY DEF Ask
<1>4. TypeOK'
  BY <1>1, <1>2, <1>3 DEF TypeOK, Buffers, Threads, JavaLocations, BedrockLocations
<1>5. Control'
  BY ZenonT(90), <1>1, <1>2, <1>3
  DEF TypeOK, Control, Asking, Threads, JavaLocations, BedrockLocations,
      Purpose
<1>6. Carried'
  <2>1. /\ pc'[t] = "lock" /\ why'[t] = p
        /\ \A u \in Threads : u # t => pc'[u] = pc[u] /\ why'[u] = why[u]
    BY <1>3 DEF TypeOK
  <2>2. CASE t = "java"
    BY <2>1, <2>2 DEF Carried, Working, Forgetting, Asking, Threads
  <2>3. CASE t = "bedrock" /\ p = "packet"
    <3>1. ~Working /\ ~Forgetting /\ ~Working' /\ ~Forgetting'
      BY <2>1, <2>3 DEF Working, Forgetting, Asking
    <3>2. pc'["java"] = pc["java"]
      BY <2>1, <2>3 DEF Threads
    <3> QED
      BY <1>3, <3>1, <3>2 DEF Carried
  <2>4. CASE t = "bedrock" /\ p # "packet"
    <3>1. Working /\ Working'
      BY <2>1, <2>4 DEF Working, Asking
    <3>2. pc'["java"] = pc["java"]
      BY <2>1, <2>4 DEF Threads
    <3> QED
      BY <1>3, <3>1, <3>2 DEF Carried
  <2> QED
    BY <2>2, <2>3, <2>4 DEF Threads
<1>7. Owned'
  BY <1>3 DEF TypeOK, Owned, Unmarked, Found, OnlyEarlyReleaseShares, Threads
<1> QED
  BY <1>4, <1>5, <1>6, <1>7

\* The Bedrock thread goes on without touching a buffer.
LEMMA MoveKeeps ==
    ASSUME IInv, ~Asking("bedrock"),
           NEW l \in BedrockLocations \ {"lock", "scan", "take", "idle"},
           Working,
           pc' = [pc EXCEPT !["bedrock"] = l], framed' \in BOOLEAN,
           UNCHANGED <<pool, lock, allocation, held, login, packets, early>>
    PROVE  IInv'
<1> USE DEF IInv, allocation
<1>1. TypeOK'
  BY DEF TypeOK, Buffers, Threads
<1>2. Control'
  BY DEF TypeOK, Control, Asking, Threads, JavaLocations
<1>3. Carried'
  <2>1. pc'["bedrock"] = l /\ pc'["java"] = pc["java"]
    BY DEF TypeOK, Threads
  <2>2. Working' \/ Forgetting'
    BY <2>1 DEF Working, Forgetting
  <2> QED
    BY <2>1, <2>2 DEF Carried
<1>4. Owned'
  BY DEF TypeOK, Owned, Unmarked, Found, OnlyEarlyReleaseShares, Threads
<1> QED
  BY <1>1, <1>2, <1>3, <1>4

-----------------------------------------------------------------------------
(* Steps that mark a buffer                                                 *)

\* Marking b does no harm when its only user gives it up, or when it counts
\* as released early from now on.
LEMMA MarkKeeps ==
    ASSUME IInv, NEW b \in 1 .. Len(pool), Released(b),
           held' \in [Roles -> SUBSET (1 .. Len(pool))],
           \A r \in Roles : held'[r] \subseteq held[r],
           early' \subseteq 1 .. Len(pool), early \subseteq early',
           \A r \in Roles : b \in held'[r] => b \in early',
           \A t \in Threads : pc'[t] = "take" => pc[t] = "take",
           at' = at, packets' = packets
    PROVE  Owned'
<1> USE DEF IInv
<1>1. /\ pool' \in Seq(Buffer) /\ Len(pool') = Len(pool)
      /\ pool'[b].released
      /\ \A i \in 1 .. Len(pool) : i # b => pool'[i] = pool[i]
  BY ReleasedPool
<1>2. Unmarked'
  BY <1>1 DEF Owned, Unmarked
<1>3. OnlyEarlyReleaseShares'
  BY DEF Owned, OnlyEarlyReleaseShares
<1>4. Found'
  <2> SUFFICES ASSUME NEW t \in Threads, pc[t] = "take", at[t] \notin early
               PROVE  pool'[at[t]].released /\ \A r \in Roles : at[t] \notin held'[r]
    BY DEF Found
  <2>1. at[t] \in 1 .. Len(pool)
    BY DEF Control
  <2>2. pool[at[t]].released /\ \A r \in Roles : at[t] \notin held[r]
    BY DEF Owned, Found
  <2> QED
    BY <1>1, <2>1, <2>2
<1> QED
  BY <1>2, <1>3, <1>4 DEF Owned

LEMMA ReleaseKeeps ==
    ASSUME IInv, NEW t \in Threads, ~Asking(t),
           NEW role \in Roles \ {"bedrock packet"},
           NEW l \in Location(t) \ {"lock", "scan", "take"},
           t = "bedrock" => Working /\ l # "idle",
           t = "java" => l \notin {"first", "second"},
           t = "java" /\ l = "again" => login \in 1 .. Len(pool),
           Release(t, role, l)
    PROVE  IInv'
<1> USE DEF IInv
<1>1. PICK b \in held[role] : Released(b)
  BY DEF Release
<1>2. /\ held' = [held EXCEPT ![role] = {}] /\ pc' = [pc EXCEPT ![t] = l]
      /\ UNCHANGED <<lock, want, at, why, login, packets, framed, early>>
  BY DEF Release, allocation
<1>3. Len(pool) \in Nat /\ Buffers = 1 .. Len(pool)
  BY PoolFields DEF Buffers
<1>4. b \in 1 .. Len(pool) /\ held \in [Roles -> SUBSET (1 .. Len(pool))]
      /\ early \subseteq 1 .. Len(pool)
  BY <1>1, <1>3 DEF TypeOK
<1>5. pool' \in Seq(Buffer) /\ Len(pool') = Len(pool)
  BY <1>1, <1>4, ReleasedPool
<1>6. Buffers' = 1 .. Len(pool)
  BY <1>5, LenProperties DEF Buffers
<1>7. TypeOK'
  BY <1>2, <1>3, <1>4, <1>5, <1>6 DEF TypeOK, Threads, Location
<1>8. Control'
  BY <1>2, <1>5 DEF TypeOK, Control, Asking, Threads, Location
<1>9. Carried'
  <2>1. held'["bedrock packet"] = held["bedrock packet"]
    BY <1>2, <1>4 DEF Roles
  <2>2. /\ pc'[t] = l
        /\ \A u \in Threads : u # t => pc'[u] = pc[u]
    BY <1>2 DEF TypeOK
  <2>3. pc'["java"] = "second" => login \in early
    BY <2>2 DEF Threads, Carried
  <2>4. pc'["java"] \in {"first", "again", "second"} => login \in 1 .. Len(pool)
    BY <2>2 DEF Threads, Carried
  <2>7. /\ packets' = packets /\ login' = login /\ early \subseteq early'
        /\ Len(pool') = Len(pool)
    BY <1>2, <1>5
  <2>5. CASE t = "java"
    <3>1. (Working' <=> Working) /\ (Forgetting' <=> Forgetting)
      BY <1>2, <2>2, <2>5 DEF Working, Forgetting, Asking, Threads
    <3> QED
      BY <2>1, <2>3, <2>4, <2>7, <3>1, CarriedStays
  <2>6. CASE t = "bedrock"
    <3>1. Working' \/ Forgetting'
      BY <2>2, <2>6 DEF Working, Forgetting, Location
    <3> QED
      BY <2>1, <2>3, <2>4, <2>6, <2>7, <3>1, CarriedStays
  <2> QED
    BY <2>5, <2>6 DEF Threads
<1>10. \A r \in Roles : b \in held'[r] => b \in early
  BY <1>1, <1>2, <1>4 DEF Owned, OnlyEarlyReleaseShares
<1>11. \A r \in Roles : held'[r] \subseteq held[r]
  BY <1>2, <1>4
<1>12. held' \in [Roles -> SUBSET (1 .. Len(pool))]
  BY <1>2, <1>4
<1>13. \A u \in Threads : pc'[u] = "take" => pc[u] = "take"
  BY <1>2 DEF TypeOK
<1>14. Owned'
  BY <1>1, <1>2, <1>4, <1>10, <1>11, <1>12, <1>13, MarkKeeps
<1> QED
  BY <1>7, <1>8, <1>9, <1>14

-----------------------------------------------------------------------------
(* The steps of allocateBuffer                                              *)

LEMMA LockKeeps ==
    ASSUME IInv, NEW t \in Threads, Lock(t)
    PROVE  IInv'
<1> USE DEF IInv, Lock
<1>1. Len(pool) \in Nat /\ Buffers = 1 .. Len(pool)
  BY PoolFields DEF Buffers
<1>a. 1 \in 0 .. Len(pool) + 1 /\ 1 \in 1 .. Len(pool) + 1
  BY <1>1
<1>b. Buffers' = Buffers
  BY DEF Buffers
<1>2. TypeOK'
  BY <1>a, <1>b DEF TypeOK, Threads, JavaLocations, BedrockLocations
<1>3. Control'
  <2>1. \A u \in Threads : pc'[u] \in {"scan", "take"} <=> lock' = u
    BY DEF TypeOK, Control, Threads, Nobody
  <2>2. \A u \in Threads :
            /\ Asking(u)' => want'[u] \in Sizes
            /\ pc'[u] = "scan" => at'[u] \in 1 .. Len(pool') + 1
            /\ pc'[u] = "take" => at'[u] \in 1 .. Len(pool')
    BY <1>a DEF TypeOK, Control, Asking, Threads
  <2> QED
    BY <2>1, <2>2 DEF TypeOK, Control, Asking, Threads, JavaLocations, BedrockLocations
<1>4. Carried'
  <2>1. pc'[t] = "scan" /\ \A u \in Threads : u # t => pc'[u] = pc[u]
    BY DEF TypeOK
  <2>2. Working' = Working /\ Forgetting' = Forgetting
    BY <2>1 DEF Working, Forgetting, Asking, Threads
  <2> QED
    BY <2>1, <2>2 DEF Carried, Threads
<1>5. Owned'
  BY DEF TypeOK, Owned, Unmarked, Found, OnlyEarlyReleaseShares, Threads
<1> QED
  BY <1>2, <1>3, <1>4, <1>5

\* What the search finds has no user: users clear the mark, and only a buffer
\* released early can have both a user and the mark.
LEMMA ScanKeeps ==
    ASSUME IInv, NEW t \in Threads, Scan(t)
    PROVE  IInv'
<1> USE DEF IInv
<1>1. Len(pool) \in Nat /\ Buffers = 1 .. Len(pool)
  BY PoolFields DEF Buffers
<1>2. /\ pc[t] = "scan" /\ at[t] \in 1 .. Len(pool)
      /\ UNCHANGED <<pool, lock, want, why, held, login, packets, framed, early>>
  BY <1>1 DEF Scan
<1>3. CASE Fits(at[t], want[t])
  <2>1. pc' = [pc EXCEPT ![t] = "take"] /\ UNCHANGED at
    BY <1>3 DEF Scan
  <2>2. TypeOK'
    BY <1>2, <2>1 DEF TypeOK, Buffers, Threads, JavaLocations, BedrockLocations
  <2>3. Control'
    BY ZenonT(90), <1>2, <2>1 DEF TypeOK, Control, Asking, Threads, JavaLocations, BedrockLocations
  <2>4. Carried'
    <3>1. pc'[t] = "take" /\ \A u \in Threads : u # t => pc'[u] = pc[u]
      BY <2>1 DEF TypeOK
    <3>2. Working' = Working /\ Forgetting' = Forgetting
      BY <1>2, <3>1 DEF Working, Forgetting, Asking, Threads
    <3> QED
      BY <1>2, <3>1, <3>2 DEF Carried, Threads
  <2>5. at[t] \in early \/ (pool[at[t]].released /\ \A r \in Roles : at[t] \notin held[r])
    BY <1>3 DEF Fits, Owned, Unmarked
  <2>6. Owned'
    BY <1>2, <2>1, <2>5 DEF TypeOK, Owned, Unmarked, Found, OnlyEarlyReleaseShares, Threads
  <2> QED
    BY <2>2, <2>3, <2>4, <2>6
<1>4. CASE ~Fits(at[t], want[t])
  <2>1. at' = [at EXCEPT ![t] = @ + 1] /\ UNCHANGED pc
    BY <1>4 DEF Scan
  <2>2. at[t] + 1 \in 0 .. Len(pool) + 1 /\ at[t] + 1 \in 1 .. Len(pool) + 1
    BY <1>1, <1>2
  <2>3. TypeOK'
    BY <1>2, <2>1, <2>2 DEF TypeOK, Buffers, Threads
  <2>4. Control'
    BY <1>2, <2>1, <2>2 DEF TypeOK, Control, Asking, Threads
  <2>5. Carried'
    BY <1>2, <2>1 DEF Carried, Working, Forgetting, Asking
  <2>6. Owned'
    BY <1>2, <2>1 DEF TypeOK, Owned, Unmarked, Found, OnlyEarlyReleaseShares, Threads, Control
  <2> QED
    BY <2>3, <2>4, <2>5, <2>6
<1> QED
  BY <1>3, <1>4

\* allocateBuffer may return a buffer without a mark that nobody uses, or one
\* that was released early.
LEMMA ReturnKeeps ==
    ASSUME IInv, NEW t \in Threads, pc[t] \in {"scan", "take"},
           pool' \in Seq(Buffer), Len(pool') >= Len(pool),
           NEW b \in 1 .. Len(pool'), ~pool'[b].released,
           \A i \in 1 .. Len(pool) : i # b => pool'[i] = pool[i],
           b \in early \/ \A r \in Roles : b \notin held[r],
           Return(t, b)
    PROVE  IInv'
<1> USE DEF IInv
<1> DEFINE p == why[t]
           next == IF p = "client" THEN "idle" ELSE p
<1>1. /\ lock' = Nobody /\ pc' = [pc EXCEPT ![t] = next]
      /\ held' = [held EXCEPT ![RoleFor(p)] = @ \cup {b}]
      /\ login' = (IF p = "first" THEN b ELSE login)
      /\ packets' = (IF p \in {"packet", "whole"} THEN Append(packets, b) ELSE packets)
      /\ framed' = (framed /\ p # "whole")
      /\ want' = [want EXCEPT ![t] = 0] /\ at' = [at EXCEPT ![t] = 0]
      /\ why' = [why EXCEPT ![t] = "none"]
      /\ UNCHANGED early
  BY DEF Return
<1>2. /\ Len(pool) \in Nat /\ Buffers = 1 .. Len(pool)
      /\ Len(pool') \in Nat /\ Buffers' = 1 .. Len(pool')
  BY PoolFields, LenProperties DEF Buffers
<1>3. 1 .. Len(pool) \subseteq 1 .. Len(pool')
      /\ 0 .. Len(pool) + 1 \subseteq 0 .. Len(pool') + 1
      /\ 1 .. Len(pool) + 1 \subseteq 1 .. Len(pool') + 1
      /\ 0 \in 0 .. Len(pool') + 1
  BY <1>2
<1>4. /\ p \in Purpose(t) /\ p \in Purposes
      /\ next \in Location(t) \ {"lock", "scan", "take"}
      /\ RoleFor(p) \in Roles
      /\ p \in {"packet", "whole"} <=> RoleFor(p) = "bedrock packet"
  <2>1. p \in Purpose(t)
    BY DEF Control, Asking, Threads, Purpose
  <2>2. p \in Purposes
    BY <2>1 DEF Purpose, JavaPurposes, BedrockPurposes, Purposes
  <2>3. next \in Location(t) \ {"lock", "scan", "take"}
    BY <2>1 DEF Purpose, Location, JavaPurposes, BedrockPurposes, Purposes,
                JavaLocations, BedrockLocations
  <2> QED
    BY <2>1, <2>2, <2>3, RoleTypes
<1> HIDE DEF next
<1>a. /\ packets \in Seq(1 .. Len(pool')) /\ Len(packets) \in Nat
      /\ \A i \in 1 .. Len(packets) : packets[i] \in 1 .. Len(pool)
  <2>1. /\ packets \in Seq(1 .. Len(pool)) /\ Len(packets) \in Nat
        /\ \A i \in 1 .. Len(packets) : packets[i] \in 1 .. Len(pool)
    BY PacketFields
  <2> QED
    BY <1>3, <2>1, SeqMonotonic
<1>b. /\ packets' \in Seq(1 .. Len(pool'))
      /\ p \in {"packet", "whole"} =>
             /\ Len(packets') = Len(packets) + 1 /\ packets'[Len(packets) + 1] = b
             /\ \A i \in 1 .. Len(packets) : packets'[i] = packets[i]
             /\ packets' # << >>
  <2>1. CASE p \in {"packet", "whole"}
    <3>1. packets' = Append(packets, b)
      BY <1>1, <2>1
    <3>2. /\ packets' \in Seq(1 .. Len(pool')) /\ packets' # << >>
          /\ Len(packets') = Len(packets) + 1 /\ packets'[Len(packets) + 1] = b
          /\ \A i \in 1 .. Len(packets) : packets'[i] = packets[i]
      BY <1>a, <3>1, AppendProperties
    <3> QED
      BY <3>2
  <2>2. CASE p \notin {"packet", "whole"}
    BY <1>1, <1>a, <2>2
  <2> QED
    BY <2>1, <2>2
<1>5. TypeOK'
  <2>1. held' \in [Roles -> SUBSET Buffers']
    BY <1>1, <1>2, <1>3, <1>4 DEF TypeOK
  <2>2. login' \in Buffers' \cup {0} /\ early' \subseteq Buffers'
    BY <1>1, <1>2, <1>3 DEF TypeOK
  <2>5. framed' \in BOOLEAN
    BY ZenonT(90), <1>1
  <2>6. packets' \in Seq(Buffers')
    BY <1>2, <1>b
  <2>3. at' \in [Threads -> 0 .. Len(pool') + 1]
    BY <1>1, <1>3 DEF TypeOK
  <2>4. pc' \in [Threads -> JavaLocations \cup BedrockLocations]
    BY <1>1, <1>4 DEF TypeOK, Location
  <2> QED
    BY <1>1, <2>1, <2>2, <2>3, <2>4, <2>5, <2>6 DEF TypeOK
<1>6. lock = t /\ \A u \in Threads : pc'[u] \notin {"scan", "take"}
  <2>1. lock = t
    BY DEF Control
  <2> QED
    BY <1>1, <1>4, <2>1 DEF TypeOK, Control, Threads
<1>7. Control'
  <2>1. pc'["java"] \in JavaLocations /\ pc'["bedrock"] \in BedrockLocations
    BY <1>1, <1>4 DEF TypeOK, Control, Location, Threads
  <2>2. \A u \in Threads : Asking(u)' => u # t /\ Asking(u)
    BY <1>1, <1>4 DEF TypeOK, Asking
  <2>3. \A u \in Threads : u # t => why'[u] = why[u] /\ want'[u] = want[u]
    BY <1>1 DEF TypeOK
  <2>4. \A u \in Threads : lock' # u
    BY <1>1 DEF Threads, Nobody
  <2>5. Asking("java")' => why'["java"] \in JavaPurposes
    BY <2>2, <2>3 DEF Control, Threads
  <2>6. Asking("bedrock")' => why'["bedrock"] \in BedrockPurposes
    BY <2>2, <2>3 DEF Control, Threads
  <2>7. \A u \in Threads : Asking(u)' => want'[u] \in Sizes
    BY <2>2, <2>3 DEF Control
  <2> QED
    BY <1>6, <2>1, <2>4, <2>5, <2>6, <2>7 DEF Control
<1>c. /\ pc'[t] = next /\ \A u \in Threads : u # t => pc'[u] = pc[u] /\ why'[u] = why[u]
  BY <1>1 DEF TypeOK
<1>8. Carried'
  <2>0. pc'["java"] \in {"first", "again", "second"} =>
            login' \in 1 .. Len(pool') /\ (pc'["java"] = "second" => login' \in early')
    <3>1. CASE t = "java"
      <4>1. pc'["java"] \in {"first", "again", "second"} => pc'["java"] = "first" /\ p = "first"
        BY <1>4, <1>c, <3>1 DEF Purpose, JavaPurposes, next
      <4> QED
        BY <1>1, <4>1
    <3>2. CASE t = "bedrock"
      <4>1. login' = login /\ pc'["java"] = pc["java"]
        BY <1>1, <1>4, <1>c, <3>2 DEF Purpose, JavaPurposes, BedrockPurposes, Threads
      <4> QED
        BY <1>1, <1>3, <4>1 DEF Carried
    <3> QED
      BY <3>1, <3>2 DEF Threads
  <2>1. CASE t = "java"
    <3>0. p \notin {"packet", "whole"} /\ RoleFor(p) # "bedrock packet"
      BY <1>4, <2>1 DEF Purpose, JavaPurposes
    <3>1. held'["bedrock packet"] = held["bedrock packet"] /\ packets' = packets
      BY <1>1, <1>4, <3>0 DEF TypeOK, Roles
    <3>2. Working' = Working /\ Forgetting' = Forgetting
      BY <1>c, <2>1 DEF Working, Forgetting, Asking, Threads
    <3> QED
      BY <1>1, <2>0, <3>1, <3>2 DEF Carried
  <2>2. CASE t = "bedrock"
    <3>1. Working'
      BY <1>4, <1>c, <2>2 DEF Working, next, Location, Purpose, BedrockPurposes,
                              Purposes, JavaPurposes, BedrockLocations
    <3>2. CASE p \in {"packet", "whole"}
      <4>1. /\ held["bedrock packet"] \subseteq held'["bedrock packet"]
            /\ b \in held'["bedrock packet"]
        BY <1>1, <1>4, <3>2 DEF TypeOK
      <4>2. \A i \in 1 .. Len(packets) : packets[i] \in held["bedrock packet"] \cup early
        <5>1. CASE p = "whole"
          <6>1. Working
            BY <2>2, <5>1 DEF Working, Asking
          <6> QED
            BY <6>1 DEF Carried
        <5>2. CASE p = "packet"
          <6>1. ~Working /\ ~Forgetting
            BY <2>2, <5>2 DEF Working, Forgetting, Asking
          <6>2. packets = << >>
            BY <6>1 DEF Carried
          <6>3. Len(packets) = 0
            BY <6>2, EmptySeq
          <6>4. \A i : i \notin 1 .. Len(packets)
            BY <6>3
          <6> QED
            BY <6>4
        <5> QED
          BY <3>2, <5>1, <5>2
      <4>3. ASSUME NEW i \in 1 .. Len(packets')
            PROVE  packets'[i] \in held'["bedrock packet"] \cup early
        <5>1. CASE i = Len(packets) + 1
          BY <1>b, <3>2, <4>1, <5>1
        <5>2. CASE i # Len(packets) + 1
          <6>1. i \in 1 .. Len(packets)
            BY <1>a, <1>b, <3>2, <5>2
          <6> QED
            BY <1>b, <3>2, <4>1, <4>2, <6>1
        <5> QED
          BY <5>1, <5>2
      <4> QED
        BY <1>1, <1>b, <2>0, <3>1, <3>2, <4>3 DEF Carried
    <3>3. CASE p \notin {"packet", "whole"}
      <4>1. Working
        BY <2>2, <3>3 DEF Working, Asking
      <4>2. packets' = packets /\ held'["bedrock packet"] = held["bedrock packet"]
        BY <1>1, <1>4, <3>3 DEF TypeOK, Roles
      <4> QED
        BY <1>1, <2>0, <3>1, <4>1, <4>2 DEF Carried
    <3> QED
      BY <3>2, <3>3
  <2> QED
    BY <2>1, <2>2 DEF Threads
<1>9. Unmarked'
  <2> SUFFICES ASSUME NEW r \in Roles, NEW i \in held'[r], i \notin early, i # b
               PROVE  ~pool'[i].released
    BY <1>1 DEF Unmarked
  <2>1. i \in held[r] /\ i \in 1 .. Len(pool)
    BY <1>1, <1>2, <1>4 DEF TypeOK
  <2> QED
    BY <2>1 DEF Owned, Unmarked
<1>d. ASSUME NEW i \in DOMAIN packets', NEW j \in DOMAIN packets', i # j,
             packets'[i] = packets'[j]
      PROVE  packets'[i] \in early
  <2>1. CASE p \in {"packet", "whole"}
    <3>1. DOMAIN packets' = 1 .. Len(packets')
      BY <1>b, LenProperties
    <3>2. /\ i \in 1 .. Len(packets) \/ i = Len(packets) + 1
          /\ j \in 1 .. Len(packets) \/ j = Len(packets) + 1
      <4>1. i \in 1 .. Len(packets) + 1 /\ j \in 1 .. Len(packets) + 1
        BY <1>b, <2>1, <3>1
      <4> QED
        BY <1>a, <4>1
    <3>3. \A k \in 1 .. Len(packets) : packets'[k] = b => b \in early
      <4> SUFFICES ASSUME NEW k \in 1 .. Len(packets), packets[k] = b
                   PROVE  b \in early
        BY <1>b, <2>1
      <4>1. Working
        <5>1. packets # << >>
          BY EmptySeq
        <5>2. t = "bedrock"
          BY <1>4, <2>1 DEF Purpose, JavaPurposes, Threads
        <5>3. CASE p = "packet"
          <6>1. ~Working /\ ~Forgetting
            BY <5>2, <5>3 DEF Working, Forgetting, Asking
          <6> QED
            BY <5>1, <6>1 DEF Carried
        <5>4. CASE p = "whole"
          BY <5>2, <5>4 DEF Working, Asking
        <5> QED
          BY <2>1, <5>3, <5>4
      <4>2. packets[k] \in held["bedrock packet"] \cup early
        BY <4>1 DEF Carried
      <4> QED
        BY <4>2 DEF Roles
    <3>4. CASE i \in 1 .. Len(packets) /\ j \in 1 .. Len(packets)
      BY <1>b, <1>d, <2>1, <3>4, PacketFields DEF Owned, OnlyEarlyReleaseShares
    <3>5. CASE i = Len(packets) + 1
      <4>1. j \in 1 .. Len(packets)
        BY <1>d, <3>2, <3>5
      <4> QED
        BY <1>b, <1>d, <2>1, <3>3, <3>5, <4>1
    <3>6. CASE j = Len(packets) + 1
      <4>1. i \in 1 .. Len(packets)
        BY <1>d, <3>2, <3>6
      <4> QED
        BY <1>b, <1>d, <2>1, <3>3, <3>6, <4>1
    <3> QED
      BY <3>2, <3>4, <3>5, <3>6
  <2>2. CASE p \notin {"packet", "whole"}
    BY <1>1, <1>d, <2>2 DEF Owned, OnlyEarlyReleaseShares
  <2> QED
    BY <2>1, <2>2
<1>10. OnlyEarlyReleaseShares'
  <2> SUFFICES ASSUME NEW r \in Roles, NEW s \in Roles, r # s,
                      NEW i \in held'[r] \cap held'[s], i \notin early
               PROVE  FALSE
    BY <1>1, <1>d DEF OnlyEarlyReleaseShares
  <2>1. CASE i = b
    BY <1>1, <1>4, <2>1 DEF TypeOK
  <2>2. CASE i # b
    BY <1>1, <1>4, <2>2 DEF TypeOK, Owned, OnlyEarlyReleaseShares
  <2> QED
    BY <2>1, <2>2
<1>11. Found'
  BY <1>6 DEF Found
<1> QED
  BY <1>5, <1>7, <1>8, <1>9, <1>10, <1>11 DEF Owned

LEMMA TakeKeeps ==
    ASSUME IInv, NEW t \in Threads, Take(t)
    PROVE  IInv'
<1>1. TypeOK /\ pc[t] = "take" /\ Return(t, at[t])
      /\ pool' = [pool EXCEPT ![at[t]].released = FALSE]
  BY DEF IInv, Take
<1>2. at[t] \in 1 .. Len(pool)
  BY <1>1 DEF IInv, Control
<1>3. /\ pool' \in Seq(Buffer) /\ Len(pool') = Len(pool)
      /\ ~pool'[at[t]].released
      /\ \A i \in 1 .. Len(pool) : i # at[t] => pool'[i] = pool[i]
  BY <1>1, <1>2, UsedPool
<1>4. at[t] \in early \/ \A r \in Roles : at[t] \notin held[r]
  BY <1>1 DEF IInv, Owned, Found
<1>5. Len(pool') >= Len(pool) /\ at[t] \in 1 .. Len(pool')
  BY <1>1, <1>2, <1>3, PoolFields
<1> QED
  BY <1>1, <1>3, <1>4, <1>5, ReturnKeeps

LEMMA CreateKeeps ==
    ASSUME IInv, NEW t \in Threads, Create(t)
    PROVE  IInv'
<1> DEFINE e == [cap |-> want[t], born |-> want[t], released |-> FALSE]
           b == Len(pool) + 1
<1>1. TypeOK /\ pc[t] = "scan" /\ Return(t, b) /\ pool' = Append(pool, e)
  BY DEF IInv, Create
<1>2. pool \in Seq(Buffer) /\ Len(pool) \in Nat
  BY <1>1, PoolFields DEF TypeOK
<1>3. e \in Buffer
  <2>1. want[t] \in Nat
    BY <1>1, PoolAssumption DEF IInv, Control, Asking
  <2> QED
    BY <2>1 DEF Buffer
<1> HIDE DEF e
<1>4. /\ pool' \in Seq(Buffer) /\ Len(pool') = Len(pool) + 1
      /\ \A i \in 1 .. Len(pool) : pool'[i] = pool[i]
      /\ pool'[b] = e
  BY <1>1, <1>2, <1>3, AppendProperties
<1>5. ~pool'[b].released
  BY <1>4 DEF e
<1>6. \A r \in Roles : b \notin held[r]
  <2>1. Buffers = 1 .. Len(pool)
    BY <1>1, PoolFields DEF Buffers
  <2> QED
    BY <1>1, <1>2, <2>1 DEF TypeOK
<1>7. b \in 1 .. Len(pool') /\ Len(pool') >= Len(pool)
  BY <1>2, <1>4
<1> HIDE DEF b
<1> QED
  BY <1>1, <1>4, <1>5, <1>6, <1>7, ReturnKeeps

-----------------------------------------------------------------------------
(* The other steps that touch a buffer                                      *)

\* What Player::connect takes back counts as released early from now on.
LEMMA UseAgainKeeps ==
    ASSUME IInv, UseAgain
    PROVE  IInv'
<1> USE DEF IInv
<1>1. /\ pc["java"] = "again"
      /\ pool' = [pool EXCEPT ![login].released = FALSE]
      /\ held' = [held EXCEPT !["java local"] = {login}]
      /\ early' = early \cup {login}
      /\ pc' = [pc EXCEPT !["java"] = "second"]
      /\ UNCHANGED <<lock, want, at, why, login, packets, framed>>
  BY DEF UseAgain, allocation
<1>2. login \in 1 .. Len(pool)
  BY <1>1 DEF Carried
<1>3. /\ pool' \in Seq(Buffer) /\ Len(pool') = Len(pool)
      /\ ~pool'[login].released
      /\ \A i \in 1 .. Len(pool) : i # login => pool'[i] = pool[i]
  BY <1>1, <1>2, UsedPool
<1>4. Buffers = 1 .. Len(pool) /\ Buffers' = 1 .. Len(pool)
  BY <1>3, PoolFields, LenProperties DEF Buffers
<1>5. TypeOK'
  BY <1>1, <1>2, <1>3, <1>4 DEF TypeOK, Threads, JavaLocations
<1>6. Control'
  BY <1>1, <1>3 DEF TypeOK, Control, Asking, Threads, JavaLocations
<1>7. Carried'
  <2>1. held'["bedrock packet"] = held["bedrock packet"]
    BY <1>1 DEF TypeOK, Roles
  <2>2. Working' = Working /\ Forgetting' = Forgetting
    BY <1>1 DEF TypeOK, Working, Forgetting, Asking, Threads
  <2> QED
    BY <1>1, <1>2, <1>3, <2>1, <2>2 DEF Carried
<1>8. \A r \in Roles : held'[r] \subseteq held[r] \cup {login}
  BY <1>1 DEF TypeOK
<1>9. \A r \in Roles : held[r] \subseteq 1 .. Len(pool)
  BY <1>4 DEF TypeOK
<1>10. Unmarked'
  BY <1>1, <1>3, <1>8, <1>9 DEF Owned, Unmarked
<1>11. OnlyEarlyReleaseShares'
  BY <1>1, <1>8 DEF Owned, OnlyEarlyReleaseShares
<1>12. Found'
  <2> SUFFICES ASSUME NEW t \in Threads, pc'[t] = "take", at[t] \notin early'
               PROVE  pool'[at[t]].released /\ \A r \in Roles : at[t] \notin held'[r]
    BY <1>1 DEF Found
  <2>1. pc[t] = "take"
    BY <1>1 DEF TypeOK
  <2>2. at[t] \in 1 .. Len(pool) /\ at[t] # login /\ at[t] \notin early
    BY <1>1, <2>1 DEF Control
  <2>3. pool[at[t]].released /\ \A r \in Roles : at[t] \notin held[r]
    BY <2>1, <2>2 DEF Owned, Found
  <2> QED
    BY <1>3, <1>8, <2>2, <2>3
<1> QED
  BY <1>5, <1>6, <1>7, <1>10, <1>11, <1>12 DEF Owned

LEMMA ReleaseSecondKeeps ==
    ASSUME IInv, ReleaseSecond
    PROVE  IInv'
<1> USE DEF IInv
<1>1. /\ pc["java"] = "second" /\ Released(login)
      /\ held' = [held EXCEPT !["java local"] = {}] /\ login' = 0
      /\ pc' = [pc EXCEPT !["java"] = "idle"]
      /\ UNCHANGED <<lock, want, at, why, packets, framed, early>>
  BY DEF ReleaseSecond, allocation
<1>2. login \in 1 .. Len(pool) /\ login \in early
  BY <1>1 DEF Carried
<1>3. pool' \in Seq(Buffer) /\ Len(pool') = Len(pool)
  BY <1>1, <1>2, ReleasedPool
<1>4. Buffers = 1 .. Len(pool) /\ Buffers' = 1 .. Len(pool)
  BY <1>3, PoolFields, LenProperties DEF Buffers
<1>5. TypeOK'
  BY <1>1, <1>3, <1>4 DEF TypeOK, Threads, JavaLocations
<1>6. Control'
  BY <1>1, <1>3 DEF TypeOK, Control, Asking, Threads, JavaLocations
<1>7. Carried'
  <2>1. held'["bedrock packet"] = held["bedrock packet"]
    BY <1>1 DEF TypeOK, Roles
  <2>2. Working' = Working /\ Forgetting' = Forgetting
    BY <1>1 DEF TypeOK, Working, Forgetting, Asking, Threads
  <2>3. pc'["java"] = "idle"
    BY <1>1 DEF TypeOK, Threads
  <2> QED
    BY <1>1, <1>3, <2>1, <2>2, <2>3 DEF Carried
<1>8. /\ held' \in [Roles -> SUBSET (1 .. Len(pool))]
      /\ \A r \in Roles : held'[r] \subseteq held[r]
  BY <1>1, <1>4 DEF TypeOK
<1>9. \A t \in Threads : pc'[t] = "take" => pc[t] = "take"
  BY <1>1 DEF TypeOK
<1>10. early \subseteq 1 .. Len(pool)
  BY <1>4 DEF TypeOK
<1>11. Owned'
  BY <1>1, <1>2, <1>8, <1>9, <1>10, MarkKeeps
<1> QED
  BY <1>5, <1>6, <1>7, <1>11

\* The packet of a datagram is released: it has one user, or has been released
\* early already.
LEMMA ReleasePacketKeeps ==
    ASSUME IInv, ReleasePacket
    PROVE  IInv'
<1> USE DEF IInv
<1> DEFINE l == IF framed THEN "loop" ELSE "drop"
<1>1. /\ pc["bedrock"] = "inflate end" /\ Released(packet)
      /\ held' = [held EXCEPT !["bedrock packet"] = @ \ {packet}]
      /\ early' = (IF framed THEN early \cup {packet} ELSE early)
      /\ pc' = [pc EXCEPT !["bedrock"] = l]
      /\ UNCHANGED <<lock, want, at, why, login, packets, framed>>
  BY DEF ReleasePacket, allocation, Returned
<1>2. /\ Working /\ packets # << >> /\ packet \in 1 .. Len(pool)
      /\ \A i \in 1 .. Len(packets) : packets[i] \in held["bedrock packet"] \cup early
      /\ packet \in held["bedrock packet"] \cup early
  <2>1. Working
    BY <1>1 DEF Working, BedrockLocations
  <2>2. packets # << >> /\ \A i \in 1 .. Len(packets) :
            packets[i] \in held["bedrock packet"] \cup early
    BY <2>1 DEF Carried
  <2> QED
    BY <2>1, <2>2, PacketFields DEF packet
<1>3. pool' \in Seq(Buffer) /\ Len(pool') = Len(pool)
  BY <1>1, <1>2, ReleasedPool
<1>4. Buffers = 1 .. Len(pool) /\ Buffers' = 1 .. Len(pool)
  BY <1>3, PoolFields, LenProperties DEF Buffers
<1>5. /\ held' \in [Roles -> SUBSET (1 .. Len(pool))]
      /\ \A r \in Roles : held'[r] \subseteq held[r]
      /\ early' \subseteq 1 .. Len(pool) /\ early \subseteq early'
  BY <1>1, <1>2, <1>4 DEF TypeOK
<1>6. TypeOK'
  BY <1>1, <1>3, <1>4, <1>5 DEF TypeOK, Threads, BedrockLocations
<1>7. Control'
  BY <1>1, <1>3 DEF TypeOK, Control, Asking, Threads, BedrockLocations
<1>8. Carried'
  <2>1. /\ pc'["bedrock"] = l /\ pc'["java"] = pc["java"]
    BY <1>1 DEF TypeOK, Threads
  <2>2. Working' \/ Forgetting'
    BY <2>1 DEF Working, Forgetting, BedrockLocations
  <2>3. Working' => framed
    BY <2>1 DEF Working, Asking
  <2>4. held'["bedrock packet"] = held["bedrock packet"] \ {packet}
    BY <1>1 DEF TypeOK, Roles
  <2>5. ASSUME NEW i \in 1 .. Len(packets), i # Len(packets) \/ Working'
        PROVE  packets[i] \in held'["bedrock packet"] \cup early'
    <3>1. CASE packets[i] # packet
      BY <1>1, <1>2, <2>4, <3>1
    <3>2. CASE packets[i] = packet /\ i # Len(packets)
      <4>1. i \in DOMAIN packets /\ Len(packets) \in DOMAIN packets
        BY <1>2, PacketFields
      <4>2. packets[i] \in early
        BY <3>2, <4>1 DEF packet, Owned, OnlyEarlyReleaseShares
      <4> QED
        BY <1>1, <4>2
    <3>3. CASE packets[i] = packet /\ i = Len(packets)
      BY <1>1, <2>3, <2>5, <3>3
    <3> QED
      BY <3>1, <3>2, <3>3
  <2> HIDE DEF l
  <2> QED
    BY <1>1, <1>2, <1>3, <2>1, <2>2, <2>5 DEF Carried
<1>9. \A r \in Roles : packet \in held'[r] => packet \in early'
  BY <1>1, <1>2 DEF TypeOK, Owned, OnlyEarlyReleaseShares, Roles
<1>10. \A t \in Threads : pc'[t] = "take" => pc[t] = "take"
  BY <1>1 DEF TypeOK
<1>11. Owned'
  BY <1>1, <1>2, <1>5, <1>9, <1>10, MarkKeeps
<1> QED
  BY <1>6, <1>7, <1>8, <1>11

\* Buffers go from one role to another without being touched.
LEMMA HandOver ==
    ASSUME IInv, NEW from \in Roles, NEW to \in Roles, from # to,
           NEW S, S \subseteq held[from],
           held' = [held EXCEPT ![to] = @ \cup S, ![from] = @ \ S],
           NEW l, l \notin {"lock", "scan", "take"}, pc' = [pc EXCEPT !["bedrock"] = l],
           \A i, j \in DOMAIN packets' :
               i # j /\ packets'[i] = packets'[j] => packets'[i] \in early,
           UNCHANGED <<pool, at, early>>
    PROVE  Owned' /\ held' \in [Roles -> SUBSET Buffers]
<1> USE DEF IInv
<1>1. /\ held'[to] = held[to] \cup S /\ held'[from] = held[from] \ S
      /\ \A r \in Roles : r # from /\ r # to => held'[r] = held[r]
      /\ held' \in [Roles -> SUBSET Buffers]
  BY DEF TypeOK
<1>2. \A r \in Roles : \A b \in held'[r] : \E s \in Roles : b \in held[s]
  BY <1>1
<1>3. Unmarked'
  BY <1>2 DEF Owned, Unmarked
<1>4. OnlyEarlyReleaseShares'
  <2> SUFFICES ASSUME NEW r \in Roles, NEW s \in Roles, r # s,
                      NEW b \in held'[r] \cap held'[s]
               PROVE  b \in early
    BY DEF OnlyEarlyReleaseShares
  <2>1. \A u, v \in Roles : u # v => (b \in held[u] /\ b \in held[v] => b \in early)
    BY DEF Owned, OnlyEarlyReleaseShares
  <2>2. CASE r = to
    BY <1>1, <2>1, <2>2
  <2>3. CASE s = to
    BY <1>1, <2>1, <2>3
  <2>4. CASE r # to /\ s # to
    BY <1>1, <2>1, <2>4
  <2> QED
    BY <2>2, <2>3, <2>4
<1>5. Found'
  <2> SUFFICES ASSUME NEW t \in Threads, pc'[t] = "take", at[t] \notin early
               PROVE  pool[at[t]].released /\ \A r \in Roles : at[t] \notin held'[r]
    BY DEF Found
  <2>1. pc[t] = "take"
    BY DEF TypeOK, Threads
  <2>2. pool[at[t]].released /\ \A r \in Roles : at[t] \notin held[r]
    BY <2>1 DEF Owned, Found
  <2> QED
    BY <1>2, <2>2
<1> QED
  BY <1>1, <1>3, <1>4, <1>5 DEF Owned

LEMMA StorePartKeeps ==
    ASSUME IInv, StorePart
    PROVE  IInv'
<1> USE DEF IInv
<1>1. /\ pc["bedrock"] = "part"
      /\ held' = [held EXCEPT !["bedrock parts"] = @ \cup held["bedrock local"],
                              !["bedrock local"] = {}]
      /\ pc' = [pc EXCEPT !["bedrock"] = "loop"]
      /\ UNCHANGED <<pool, lock, want, at, why, login, packets, framed, early>>
  BY DEF StorePart, allocation
<1>2. held' = [held EXCEPT !["bedrock parts"] = @ \cup held["bedrock local"],
                           !["bedrock local"] = @ \ held["bedrock local"]]
  BY <1>1
<1>3. Buffers' = Buffers
  BY <1>1 DEF Buffers
<1>4. \A i, j \in DOMAIN packets' :
          i # j /\ packets'[i] = packets'[j] => packets'[i] \in early
  BY <1>1 DEF Owned, OnlyEarlyReleaseShares
<1>a. "loop" \notin {"lock", "scan", "take"} /\ held["bedrock local"] \subseteq held["bedrock local"]
      /\ "bedrock local" \in Roles /\ "bedrock parts" \in Roles /\ "bedrock local" # "bedrock parts"
  BY DEF Roles
<1>5. Owned' /\ held' \in [Roles -> SUBSET Buffers]
  BY <1>1, <1>2, <1>4, <1>a, HandOver
<1>6. TypeOK'
  BY <1>1, <1>3, <1>5 DEF TypeOK, Threads, BedrockLocations
<1>7. Control'
  BY <1>1 DEF TypeOK, Control, Asking, Threads, BedrockLocations
<1>8. Carried'
  <2>1. held'["bedrock packet"] = held["bedrock packet"]
    BY <1>1 DEF TypeOK, Roles
  <2>2. pc'["bedrock"] = "loop" /\ pc'["java"] = pc["java"]
    BY <1>1 DEF TypeOK, Threads
  <2>3. Working /\ Working'
    BY <1>1, <2>2 DEF Working, BedrockLocations
  <2> QED
    BY <1>1, <2>1, <2>2, <2>3 DEF Carried
<1> QED
  BY <1>5, <1>6, <1>7, <1>8

\* A part of the reassembled packet is released: it has one user.
LEMMA ReleasePartKeeps ==
    ASSUME IInv, ReleasePart
    PROVE  IInv'
<1> USE DEF IInv
<1>1. PICK b \in held["bedrock parts"] :
          /\ Released(b)
          /\ held' = [held EXCEPT !["bedrock parts"] = @ \ {b}]
  BY DEF ReleasePart
<1>2. UNCHANGED <<lock, pc, want, at, why, login, packets, framed, early>>
  BY DEF ReleasePart, allocation
<1>3. Buffers = 1 .. Len(pool) /\ Len(pool) \in Nat
  BY PoolFields DEF Buffers
<1>4. b \in 1 .. Len(pool)
  BY <1>1, <1>3 DEF TypeOK, Roles
<1>5. pool' \in Seq(Buffer) /\ Len(pool') = Len(pool)
  BY <1>1, <1>4, ReleasedPool
<1>6. Buffers' = Buffers
  BY <1>3, <1>5, LenProperties DEF Buffers
<1>7. /\ held' \in [Roles -> SUBSET (1 .. Len(pool))]
      /\ \A r \in Roles : held'[r] \subseteq held[r]
      /\ held'["bedrock packet"] = held["bedrock packet"]
      /\ early \subseteq 1 .. Len(pool)
  BY <1>1, <1>3 DEF TypeOK, Roles
<1>8. TypeOK'
  BY <1>2, <1>3, <1>5, <1>6, <1>7 DEF TypeOK
<1>9. Control'
  BY <1>2, <1>5 DEF Control, Asking
<1>10. Carried'
  BY <1>2, <1>5, <1>7 DEF Carried, Working, Forgetting, Asking
<1>11. \A r \in Roles : b \in held'[r] => b \in early
  BY <1>1, <1>7 DEF TypeOK, Owned, OnlyEarlyReleaseShares, Roles
<1>12. Owned'
  BY <1>1, <1>2, <1>4, <1>7, <1>11, MarkKeeps
<1> QED
  BY <1>8, <1>9, <1>10, <1>12

\* The innermost packet is forgotten; its buffer, if handle has not released
\* it, is kept for good.
LEMMA DropKeeps ==
    ASSUME IInv, Drop
    PROVE  IInv'
<1> USE DEF IInv
<1> DEFINE n == Len(packets)
           l == IF n > 1 THEN "loop" ELSE "idle"
           S == {packet} \cap held["bedrock packet"]
<1>1. /\ pc["bedrock"] = "drop"
      /\ held' = [held EXCEPT !["bedrock kept"] = @ \cup S,
                              !["bedrock packet"] = @ \ {packet}]
      /\ packets' = SubSeq(packets, 1, n - 1) /\ framed' = (n > 1)
      /\ pc' = [pc EXCEPT !["bedrock"] = l]
      /\ UNCHANGED <<pool, lock, want, at, why, login, early>>
  BY DEF Drop, allocation
<1>2. /\ packets # << >> /\ n \in Nat \ {0} /\ packet = packets[n]
      /\ packets \in Seq(1 .. Len(pool)) /\ DOMAIN packets = 1 .. n
  <2>1. packets # << >>
    BY <1>1 DEF Carried, Forgetting
  <2> QED
    BY <2>1, PacketFields DEF packet
<1>3. held["bedrock packet"] \ {packet} = held["bedrock packet"] \ S
  OBVIOUS
<1>4. held' = [held EXCEPT !["bedrock kept"] = @ \cup S, !["bedrock packet"] = @ \ S]
  BY <1>1, <1>3
<1>5. /\ packets' \in Seq(1 .. Len(pool)) /\ Len(packets') = n - 1
      /\ DOMAIN packets' = 1 .. n - 1
      /\ \A i \in 1 .. n - 1 : packets'[i] = packets[i]
  <2>1. /\ SubSeq(packets, 1, n - 1) \in Seq(1 .. Len(pool))
        /\ Len(SubSeq(packets, 1, n - 1)) = n - 1
        /\ \A i \in 1 .. n - 1 : SubSeq(packets, 1, n - 1)[i] = packets[i]
    BY <1>2, SubSeqProperties
  <2> QED
    BY <1>1, <2>1, LenProperties
<1>6. Buffers' = Buffers /\ Buffers = 1 .. Len(pool)
  BY <1>1, PoolFields DEF Buffers
<1>7. \A i, j \in 1 .. n : i # j /\ packets[i] = packets[j] => packets[i] \in early
  BY <1>2 DEF Owned, OnlyEarlyReleaseShares
<1> HIDE DEF S
<1>8. Owned' /\ held' \in [Roles -> SUBSET Buffers]
  <2>1. l \notin {"lock", "scan", "take"}
    OBVIOUS
  <2>2. \A i, j \in DOMAIN packets' :
            i # j /\ packets'[i] = packets'[j] => packets'[i] \in early
    <3> SUFFICES ASSUME NEW i \in 1 .. n - 1, NEW j \in 1 .. n - 1, i # j,
                        packets[i] = packets[j]
                 PROVE  packets[i] \in early
      BY <1>5
    <3>1. i \in 1 .. n /\ j \in 1 .. n
      BY <1>2
    <3> QED
      BY <1>7, <3>1
  <2>3. S \subseteq held["bedrock packet"]
    BY DEF S
  <2> HIDE DEF l
  <2> QED
    BY <1>1, <1>4, <2>1, <2>2, <2>3, HandOver DEF Roles
<1>9. pc'["bedrock"] = l /\ pc'["java"] = pc["java"] /\ l \in {"loop", "idle"}
  BY <1>1 DEF TypeOK, Threads
<1>a. framed' \in BOOLEAN
  <2>1. framed' = (n > 1)
    BY <1>1
  <2> HIDE DEF n
  <2>2. n \in Nat
    BY <1>2
  <2>3. framed' = TRUE \/ framed' = FALSE
    BY <2>1, <2>2
  <2> QED
    BY <2>3
<1>10. TypeOK'
  <2>1. l \in JavaLocations \cup BedrockLocations
    BY <1>9 DEF JavaLocations, BedrockLocations
  <2> HIDE DEF l
  <2> QED
    BY <1>1, <1>5, <1>6, <1>8, <1>a, <2>1 DEF TypeOK
<1>11. Control'
  <2> HIDE DEF l
  <2> QED
    BY <1>1, <1>9 DEF TypeOK, Control, Asking, Threads, BedrockLocations
<1>12. Carried'
  <2>1. /\ Working' <=> n > 1
        /\ ~Forgetting'
    BY <1>9 DEF Working, Forgetting, Asking, BedrockLocations
  <2>2. packets' # << >> <=> n > 1
    <3>1. packets' = << >> <=> Len(packets') = 0
      BY <1>5, EmptySeq
    <3> QED
      BY <1>2, <1>5, <3>1
  <2>3. held'["bedrock packet"] = held["bedrock packet"] \ {packet}
    BY <1>1 DEF TypeOK, Roles
  <2>4. ASSUME NEW i \in 1 .. n - 1
        PROVE  packets'[i] \in held'["bedrock packet"] \cup early
    <3>0. packets'[i] = packets[i]
      BY <1>5
    <3>1. i \in 1 .. n /\ i # n /\ n \in 1 .. n /\ packets'[i] = packets[i]
      <4>1. n \in Nat \ {0}
        BY <1>2
      <4>2. i \in 1 .. n /\ i # n /\ n \in 1 .. n
        <5> HIDE DEF n
        <5> QED
          BY <4>1
      <4> QED
        BY <3>0, <4>2
    <3>2. packets[i] \in held["bedrock packet"] \cup early
      BY <3>1 DEF Carried
    <3>3. packets[i] = packet => packets[i] \in early
      BY <1>2, <1>7, <3>1
    <3> QED
      BY <2>3, <3>1, <3>2, <3>3
  <2> HIDE DEF n, l
  <2> QED
    BY <1>1, <1>5, <1>9, <2>1, <2>2, <2>4 DEF Carried
<1> QED
  BY <1>8, <1>10, <1>11, <1>12

-----------------------------------------------------------------------------
(* The whole specification                                                  *)

LEMMA StartsOwned == Init => IInv
<1> SUFFICES ASSUME Init PROVE IInv
  OBVIOUS
<1> USE DEF Init
<1>1. << >> \in Seq(Buffer) /\ Len(<< >>) = 0
  BY EmptySeq
<1>2. TypeOK
  <2>1. 0 \in 0 .. Len(pool) + 1
    BY <1>1
  <2>2. pool \in Seq(Buffer)
    BY <1>1
  <2>3. packets \in Seq(Buffers)
    BY EmptySeq
  <2> QED
    BY <2>1, <2>2, <2>3 DEF TypeOK, Threads, JavaLocations
<1>3. Control
  BY DEF Control, Asking, Threads, Nobody, JavaLocations, BedrockLocations
<1>4. Carried
  <2>1. pc["bedrock"] = "idle" /\ pc["java"] = "idle" /\ packets = << >> /\ Len(packets) = 0
    BY <1>1 DEF Threads
  <2>2. \A i : i \notin 1 .. Len(packets)
    BY <2>1
  <2>3. ~Working /\ ~Forgetting
    BY <2>1 DEF Working, Forgetting, Asking
  <2> QED
    BY <2>1, <2>2, <2>3 DEF Carried
<1>5. Owned
  BY DEF Owned, Unmarked, Found, OnlyEarlyReleaseShares, Threads
<1> QED
  BY <1>2, <1>3, <1>4, <1>5 DEF IInv

LEMMA AllocateKeeps ==
    ASSUME IInv, NEW t \in Threads, Allocate(t)
    PROVE  IInv'
  BY LockKeeps, ScanKeeps, TakeKeeps, CreateKeeps DEF Allocate

LEMMA JavaKeepsOwned == IInv /\ Java => IInv'
<1> SUFFICES ASSUME IInv, Java PROVE IInv'
  OBVIOUS
<1> DEFINE t == "java"
<1>0. t \in Threads /\ t # "bedrock" /\ Purpose(t) = JavaPurposes
      /\ Location(t) = JavaLocations
  BY DEF Threads, Purpose, Location
<1>1. CASE Allocate(t)
  BY <1>0, <1>1, AllocateKeeps
<1>2. CASE JavaReplies \/ JavaKeeps \/ Connect
  <2>1. PICK p \in JavaPurposes : Ask(t, p)
    BY <1>2 DEF JavaReplies, JavaKeeps, Connect, JavaPurposes
  <2>2. ~Asking(t) /\ UNCHANGED <<held, login, packets, framed, early>>
    BY <1>2 DEF JavaReplies, JavaKeeps, Connect, Asking
  <2> HIDE DEF t
  <2> QED
    BY <1>0, <2>1, <2>2, AskKeeps
<1>3. CASE JavaReplied
  <2>1. pc[t] = "reply" /\ Release(t, "java local", "idle")
    BY <1>3 DEF JavaReplied
  <2>2. ~Asking(t) /\ "java local" \in Roles \ {"bedrock packet"}
        /\ "idle" \in JavaLocations \ {"lock", "scan", "take"}
    BY <2>1 DEF Asking, Roles, JavaLocations
  <2> HIDE DEF t
  <2> QED
    BY <1>0, <2>1, <2>2, ReleaseKeeps
<1>4. CASE ReleaseFirst
  <2>1. pc[t] = "first" /\ Release(t, "java local", "again")
    BY <1>4 DEF ReleaseFirst
  <2>2. ~Asking(t) /\ "java local" \in Roles \ {"bedrock packet"}
        /\ "again" \in JavaLocations \ {"lock", "scan", "take"}
    BY <2>1 DEF Asking, Roles, JavaLocations
  <2>3. login \in 1 .. Len(pool)
    BY <2>1 DEF IInv, Carried
  <2> HIDE DEF t
  <2> QED
    BY <1>0, <2>1, <2>2, <2>3, ReleaseKeeps
<1> QED
  BY <1>1, <1>2, <1>3, <1>4, UseAgainKeeps, ReleaseSecondKeeps DEF Java

LEMMA BedrockKeepsOwned == IInv /\ Bedrock => IInv'
<1> SUFFICES ASSUME IInv, Bedrock PROVE IInv'
  OBVIOUS
<1> DEFINE t == "bedrock"
<1>0. t \in Threads /\ t # "java" /\ Purpose(t) = BedrockPurposes
      /\ Location(t) = BedrockLocations
  BY DEF Threads, Purpose, Location
<1>1. CASE Allocate(t)
  BY <1>0, <1>1, AllocateKeeps
<1>2. CASE \E p \in BedrockPurposes :
               Ask(t, p) /\ UNCHANGED <<held, login, packets, framed, early>>
               /\ ~Asking(t) /\ (IF p = "packet" THEN pc[t] = "idle" ELSE Working)
  <2> HIDE DEF t
  <2> QED
    BY <1>0, <1>2, AskKeeps
<1>3. CASE \E l \in BedrockLocations \ {"lock", "scan", "take", "idle"} :
               /\ pc' = [pc EXCEPT ![t] = l] /\ framed' \in BOOLEAN
               /\ UNCHANGED <<pool, lock, allocation, held, login, packets, early>>
               /\ ~Asking(t) /\ Working
  BY <1>3, MoveKeeps
<1>4. CASE \E role \in Roles \ {"bedrock packet"},
              l \in BedrockLocations \ {"lock", "scan", "take", "idle"} :
               Release(t, role, l) /\ ~Asking(t) /\ Working
  <2> HIDE DEF t
  <2> QED
    BY <1>0, <1>4, ReleaseKeeps
<1> DEFINE Asks == \E p \in BedrockPurposes :
                       Ask(t, p) /\ UNCHANGED <<held, login, packets, framed, early>>
                       /\ ~Asking(t) /\ (IF p = "packet" THEN pc[t] = "idle" ELSE Working)
           Moves == \E l \in BedrockLocations \ {"lock", "scan", "take", "idle"} :
                       /\ pc' = [pc EXCEPT ![t] = l] /\ framed' \in BOOLEAN
                       /\ UNCHANGED <<pool, lock, allocation, held, login, packets, early>>
                       /\ ~Asking(t) /\ Working
           Releases == \E role \in Roles \ {"bedrock packet"},
                          l \in BedrockLocations \ {"lock", "scan", "take", "idle"} :
                           Release(t, role, l) /\ ~Asking(t) /\ Working
<1>5. Returned \in BedrockLocations \ {"lock", "scan", "take", "idle"}
  BY DEF Returned, BedrockLocations
<1>6. \A p \in {"packet", "answer", "refusal", "request", "wrap", "inflated", "kick",
             "encap", "ack", "part", "whole"} :
          p \in BedrockPurposes
  BY DEF BedrockPurposes, Purposes, JavaPurposes
<1>7. framed \in BOOLEAN
  BY DEF IInv, TypeOK
<1>8. CASE ReceiveDatagram \/ Answer \/ Request \/ Inflate \/ Kick \/ Part \/ Whole
  <2>1. Asks
    BY <1>6, <1>8 DEF ReceiveDatagram, Answer, Request, Inflate, Kick, Part, Whole,
                      Handling, Asking, Working, BedrockLocations
  <2> QED
    BY <1>2, <2>1
<1>9. CASE Frame
  <2>1. pc[t] = "frame" /\ ~Asking(t) /\ Working
    BY <1>9 DEF Frame, Asking, Working, BedrockLocations
  <2>2. Asks \/ Moves
    BY <1>6, <1>7, <1>9, <2>1 DEF Frame, BedrockLocations
  <2> QED
    BY <1>2, <1>3, <2>2
<1>10. CASE Ignore
  <2>1. Moves
    BY <1>5, <1>7, <1>10 DEF Ignore, Handling, Asking, Working, BedrockLocations
  <2> QED
    BY <1>3, <2>1
<1>11. CASE FrameSet \/ NextFrame
  <2>1. Moves
    BY <1>7, <1>11 DEF FrameSet, NextFrame, Handling, Asking, Working, BedrockLocations
  <2> QED
    BY <1>3, <2>1
<1>12. CASE Answered
  <2>1. pc[t] \in {"answer", "refusal"} /\ ~Asking(t) /\ Working
    BY <1>12 DEF Answered, Asking, Working, BedrockLocations
  <2>2. Releases \/ Moves
    BY <1>5, <1>7, <1>12, <2>1 DEF Answered, Roles
  <2> QED
    BY <1>3, <1>4, <2>2
<1>13. CASE Requested \/ Kicked \/ ReleaseInflated \/ Acknowledged \/ HandleWhole
  <2>1. pc[t] \in {"wrap", "wrapped", "encap", "inflated", "played", "ack", "whole"} /\ ~Asking(t) /\ Working
    BY <1>13 DEF Requested, Kicked, ReleaseInflated, Acknowledged, HandleWhole, Asking,
                       Working, BedrockLocations
  <2>2. Releases
    BY <1>5, <1>13, <2>1 DEF Requested, Kicked, ReleaseInflated, Acknowledged,
                                 HandleWhole, Roles, BedrockLocations
  <2> QED
    BY <1>4, <2>2
<1> QED
  BY <1>1, <1>8, <1>9, <1>10, <1>11, <1>12, <1>13, ReleasePacketKeeps,
     StorePartKeeps, ReleasePartKeeps, DropKeeps
  DEF Bedrock

LEMMA StepsKeepOwned == IInv /\ [Next]_vars => IInv'
<1> SUFFICES ASSUME IInv, [Next]_vars PROVE IInv'
  OBVIOUS
<1>1. CASE Next
  BY <1>1, JavaKeepsOwned, BedrockKeepsOwned DEF Next
<1>2. CASE UNCHANGED vars
  <2>1. UNCHANGED <<pool, lock, pc, want, at, why, held, login, packets, framed, early>>
    BY <1>2 DEF vars, allocation
  <2>2. TypeOK' /\ Control'
    BY ZenonT(60), <2>1 DEF IInv, TypeOK, Buffers, Control, Asking
  <2>3. Carried'
    BY ZenonT(60), <2>1 DEF IInv, Carried, Working, Forgetting, Asking
  <2>4. Owned'
    BY ZenonT(60), <2>1 DEF IInv, Owned, Unmarked, Found, OnlyEarlyReleaseShares
  <2> QED
    BY <2>2, <2>3, <2>4 DEF IInv
<1> QED
  BY <1>1, <1>2

LEMMA Invariance == Spec => []IInv
  BY StartsOwned, StepsKeepOwned, PTL DEF Spec

\* Every pointer to a buffer leads into the pool: the loop of allocateBuffer
\* and the unlocked release and use never leave the list.
THEOREM PoolTypes == Spec => []TypeOK
<1>1. IInv => TypeOK
  BY DEF IInv
<1> QED
  BY <1>1, Invariance, PTL

\* allocateBuffer never gives a buffer in use to a second user, whatever the
\* sizes and however the unlocked release and use fall into its search, unless
\* the buffer was once released before its user had finished with it.
THEOREM PoolIsExclusive == Spec => []OnlyEarlyReleaseShares
<1>1. IInv => OnlyEarlyReleaseShares
  BY DEF IInv, Owned
<1> QED
  BY <1>1, Invariance, PTL

-----------------------------------------------------------------------------
(* How much the pool grows                                                  *)

\* The buffers of a thread that nobody else should release, and how many a
\* thread may have at a time.
Mine(t) ==
    IF t = "java"
    THEN held["java local"] \cup (IF pc["java"] = "again" THEN {login} ELSE {})
    ELSE held["bedrock local"] \cup held["bedrock packet"]
            \cup held["bedrock message"] \cup held["bedrock parts"]

Share(t) == IF t = "java" THEN 1 ELSE 3 + MaxNested + MaxParts
\* The buffers made for one size that are not lost.
Limit == 4 + MaxNested + MaxParts

LEMMA Limits ==
    /\ Limit \in Nat
    /\ \A t \in Threads : Share(t) \in Nat
    /\ Share("java") = 1 /\ Share("bedrock") = Limit - 1
<1>1. MaxNested \in Nat /\ MaxParts \in Nat
  BY PoolAssumption
<1> QED BY <1>1 DEF Limit, Share, Threads

Other(t) == IF t = "java" THEN "bedrock" ELSE "java"

AtMostOne(S) == \A a, b \in S : a = b

\* Which buffers a thread has where.
Hands ==
    /\ \A r \in {"java local", "bedrock local", "bedrock message"} : AtMostOne(held[r])
    /\ held["java local"] # {} => pc["java"] \in {"reply", "first", "second"}
    /\ pc["java"] \in {"first", "second"} => held["java local"] \subseteq {login}
    /\ held["bedrock local"] # {} =>
           \/ pc["bedrock"] \in {"answer", "wrap", "encap", "ack", "part", "whole"}
           \/ pc["bedrock"] \in {"lock", "scan", "take"} /\ why["bedrock"] = "whole"
    /\ held["bedrock message"] # {} =>
           \/ pc["bedrock"] \in {"request", "wrap", "wrapped", "inflated", "kick",
                                 "encap", "played"}
           \/ pc["bedrock"] \in {"lock", "scan", "take"}
              /\ why["bedrock"] \in {"wrap", "kick", "encap"}

\* The packets handled within each other, and the fragments that wait.
Nesting ==
    /\ held["bedrock packet"] \subseteq {packets[i] : i \in 1 .. Len(packets)}
    /\ Len(packets) <= 1 + MaxNested
    /\ pc["bedrock"] \in {"lock", "scan", "take"} /\ why["bedrock"] = "whole" =>
           Len(packets) <= MaxNested
    /\ Cardinality(held["bedrock parts"]) <= MaxParts

\* A buffer that is not marked released is somebody's, and none is smaller
\* than it was made.
Accounted ==
    \A b \in 1 .. Len(pool) :
        /\ pool[b].released \/ b \in Mine("java") \cup Mine("bedrock") \cup Kept
        /\ pool[b].cap >= pool[b].born

\* The buffers of the size that t wants which its search has passed.
Passed(t) == {b \in Buffers \ Kept : b < at[t] /\ pool[b].born = want[t]}

\* Those that t has not in hand itself were the other thread's when the search
\* passed them.  That thread may have given them back since, but it cannot
\* have taken any.
Counts ==
    \A t \in Threads :
        pc[t] = "scan" =>
            Cardinality((Passed(t) \ Mine(t)) \cup Mine(Other(t))) <= Share(Other(t))

Growth == Hands /\ Nesting /\ Accounted /\ Counts /\ PoolGrowsByLossOnly

-----------------------------------------------------------------------------
(* Counting                                                                 *)

LEMMA Single ==
    ASSUME NEW S, AtMostOne(S)
    PROVE  IsFiniteSet(S) /\ Cardinality(S) \in Nat /\ Cardinality(S) <= 1
<1>1. CASE S = {}
  BY <1>1, FS_EmptySet
<1>2. CASE S # {}
  <2>1. PICK x : x \in S
    BY <1>2
  <2>2. S = {x}
    BY <2>1 DEF AtMostOne
  <2>3. IsFiniteSet({x}) /\ Cardinality({x}) = 1
    BY FS_Singleton
  <2> QED BY <2>2, <2>3
<1> QED BY <1>1, <1>2

LEMMA Join ==
    ASSUME NEW S, IsFiniteSet(S), NEW T, IsFiniteSet(T)
    PROVE  /\ IsFiniteSet(S \cup T) /\ Cardinality(S) \in Nat /\ Cardinality(T) \in Nat
           /\ Cardinality(S \cup T) \in Nat
           /\ Cardinality(S \cup T) <= Cardinality(S) + Cardinality(T)
<1>1. S \cap T \in SUBSET S
  OBVIOUS
<1>2. IsFiniteSet(S \cap T)
  BY <1>1, FS_Subset
<1>3. Cardinality(S \cap T) \in Nat /\ Cardinality(S) \in Nat /\ Cardinality(T) \in Nat
  BY <1>2, FS_CardinalityType
<1>4. /\ IsFiniteSet(S \cup T)
      /\ Cardinality(S \cup T) = Cardinality(S) + Cardinality(T) - Cardinality(S \cap T)
  BY FS_Union
<1>5. Cardinality(S \cup T) \in Nat
  BY <1>4, FS_CardinalityType
<1> QED BY <1>3, <1>4, <1>5

LEMMA AtMost ==
    ASSUME NEW a \in Nat, NEW b \in Nat, NEW c \in Nat, a <= b, b <= c
    PROVE  a <= c
  OBVIOUS

LEMMA OneMore ==
    ASSUME NEW n \in Nat, NEW m, m = n + 1
    PROVE  n + 1 \in 1 .. m /\ \A i \in 1 .. n : i \in 1 .. m
  OBVIOUS

LEMMA OneLess ==
    ASSUME NEW n \in Nat, NEW i \in 1 .. n, i # n
    PROVE  i \in 1 .. n - 1
  OBVIOUS

LEMMA FrontProperties ==
    ASSUME NEW S, NEW s \in Seq(S), NEW n \in Nat \ {0}, n = Len(s)
    PROVE  /\ Len(SubSeq(s, 1, n - 1)) = n - 1
           /\ \A i \in 1 .. n - 1 : SubSeq(s, 1, n - 1)[i] = s[i]
<1>1. 1 \in Int /\ n - 1 \in Int
  OBVIOUS
<1>2. \A i \in 1 .. n - 1 : s[i] \in S
  BY ElementOfSeq
<1>3. /\ Len(SubSeq(s, 1, n - 1)) = IF 1 <= n - 1 THEN n - 1 - 1 + 1 ELSE 0
      /\ \A i \in 1 .. n - 1 - 1 + 1 : SubSeq(s, 1, n - 1)[i] = s[1 + i - 1]
  BY <1>1, <1>2, SubSeqProperties
<1>4. n - 1 - 1 + 1 = n - 1 /\ \A i \in 1 .. n - 1 : 1 + i - 1 = i
  OBVIOUS
<1> QED BY <1>3, <1>4

\* A list has at least as many places as elements.
LEMMA CardinalityOfList ==
    ASSUME NEW s, Len(s) \in Nat, NEW S, S \subseteq {s[i] : i \in 1 .. Len(s)}
    PROVE  IsFiniteSet(S) /\ Cardinality(S) \in Nat /\ Cardinality(S) <= Len(s)
<1> DEFINE n == Len(s)
           T == {s[i] : i \in 1 .. n}
           f == [i \in 1 .. n |-> s[i]]
<1>1. f \in Surjection(1 .. n, T)
  BY DEF Surjection
<1>2. n \in Nat
  OBVIOUS
<1> HIDE DEF n, f
<1>3. IsFiniteSet(1 .. n) /\ Cardinality(1 .. n) = n
  <2>1. /\ IsFiniteSet(1 .. n)
        /\ Cardinality(1 .. n) = IF 1 > n THEN 0 ELSE n - 1 + 1
    BY <1>2, FS_Interval
  <2> QED BY <1>2, <2>1
<1> HIDE DEF T
<1>4. IsFiniteSet(T) /\ Cardinality(T) <= Cardinality(1 .. n)
  BY <1>1, <1>3, FS_Surjection
<1>5. S \subseteq T
  BY DEF T, n
<1>6. IsFiniteSet(S) /\ Cardinality(S) <= Cardinality(T)
  BY <1>4, <1>5, FS_Subset
<1>7. Cardinality(S) \in Nat /\ Cardinality(T) \in Nat
  BY <1>4, <1>6, FS_CardinalityType
<1>8. Cardinality(S) <= n
  BY <1>2, <1>3, <1>4, <1>6, <1>7
<1> QED BY <1>6, <1>7, <1>8 DEF n

\* Every set of buffers is finite.
LEMMA FiniteBuffers ==
    ASSUME TypeOK, NEW S, S \subseteq Buffers
    PROVE  IsFiniteSet(S) /\ Cardinality(S) \in Nat
<1>1. Buffers = 1 .. Len(pool) /\ Len(pool) \in Nat
  BY PoolFields DEF Buffers
<1>2. IsFiniteSet(1 .. Len(pool))
  BY <1>1, FS_Interval
<1>3. IsFiniteSet(S)
  BY <1>1, <1>2, FS_Subset
<1> QED BY <1>3, FS_CardinalityType

LEMMA MineAreBuffers ==
    ASSUME IInv
    PROVE  /\ \A t \in Threads : Mine(t) \subseteq Buffers
           /\ Kept \subseteq Buffers /\ Buffers = 1 .. Len(pool)
<1>1. Buffers = 1 .. Len(pool) /\ held \in [Roles -> SUBSET Buffers]
  BY PoolFields DEF Buffers, IInv, TypeOK
<1>2. pc["java"] = "again" => login \in 1 .. Len(pool)
  BY DEF IInv, Carried
<1> QED BY <1>1, <1>2 DEF Mine, Kept, Roles

\* What a thread has in hand; it has one less while it asks for another.
LEMMA HandsAreFew ==
    ASSUME IInv, Hands, Nesting, NEW t \in Threads
    PROVE  /\ IsFiniteSet(Mine(t)) /\ Cardinality(Mine(t)) \in Nat
           /\ Cardinality(Mine(t)) <= Share(t)
           /\ Asking(t) => Cardinality(Mine(t)) <= Share(t) - 1
<1>1. CASE t = "java"
  <2>1. AtMostOne(Mine(t))
    BY <1>1 DEF Hands, Mine, AtMostOne
  <2>2. Asking(t) => Mine(t) = {}
    BY <1>1 DEF Hands, Mine, Asking
  <2> QED BY <1>1, <2>1, <2>2, Single, FS_EmptySet DEF Share
<1>2. CASE t = "bedrock"
  <2> DEFINE A == held["bedrock local"]
             B == held["bedrock packet"]
             C == held["bedrock message"]
             D == held["bedrock parts"]
  <2>1. AtMostOne(A) /\ AtMostOne(C)
    BY DEF Hands
  <2>2. Mine(t) = ((A \cup B) \cup C) \cup D
    BY <1>2 DEF Mine
  <2>3. /\ Asking(t) /\ why[t] # "whole" => A = {}
        /\ Asking(t) /\ why[t] = "whole" => C = {} /\ Len(packets) <= MaxNested
        /\ Len(packets) <= 1 + MaxNested /\ Cardinality(D) <= MaxParts
    BY <1>2 DEF Hands, Nesting, Asking
  <2>4. /\ IsFiniteSet(B) /\ Cardinality(B) \in Nat /\ Cardinality(B) <= Len(packets)
        /\ Len(packets) \in Nat
    BY PacketFields, CardinalityOfList DEF IInv, Nesting
  <2>5. IsFiniteSet(D) /\ Cardinality(D) \in Nat
    <3>1. D \subseteq Buffers
      BY DEF IInv, TypeOK, Roles
    <3> QED BY <3>1, FiniteBuffers DEF IInv
  <2> HIDE DEF A, B, C, D
  <2>6. /\ IsFiniteSet(A) /\ Cardinality(A) <= 1 /\ Cardinality(A) \in Nat
        /\ IsFiniteSet(C) /\ Cardinality(C) <= 1 /\ Cardinality(C) \in Nat
    BY <2>1, Single
  <2>7. /\ IsFiniteSet(A \cup B) /\ Cardinality(A \cup B) \in Nat
        /\ Cardinality(A \cup B) <= Cardinality(A) + Cardinality(B)
    BY <2>4, <2>6, Join
  <2>8. /\ IsFiniteSet((A \cup B) \cup C) /\ Cardinality((A \cup B) \cup C) \in Nat
        /\ Cardinality((A \cup B) \cup C) <= Cardinality(A \cup B) + Cardinality(C)
    BY <2>6, <2>7, Join
  <2>9. /\ IsFiniteSet(Mine(t)) /\ Cardinality(Mine(t)) \in Nat
        /\ Cardinality(Mine(t)) <= Cardinality((A \cup B) \cup C) + Cardinality(D)
    BY <2>2, <2>5, <2>8, Join
  <2>10. /\ Asking(t) /\ why[t] # "whole" => Cardinality(A) = 0
         /\ Asking(t) /\ why[t] = "whole" => Cardinality(C) = 0
    BY <2>3, FS_EmptySet
  <2>11. Share(t) = 3 + MaxNested + MaxParts /\ MaxNested \in Nat /\ MaxParts \in Nat
    BY <1>2, PoolAssumption DEF Share
  <2>12. Cardinality(Mine(t)) <= Share(t)
    BY <2>3, <2>4, <2>5, <2>6, <2>7, <2>8, <2>9, <2>11
  <2>13. Asking(t) => Cardinality(Mine(t)) <= Share(t) - 1
    <3>1. CASE Asking(t) /\ why[t] = "whole"
      BY <2>3, <2>4, <2>5, <2>6, <2>7, <2>8, <2>9, <2>10, <2>11, <3>1
    <3>2. CASE Asking(t) /\ why[t] # "whole"
      BY <2>3, <2>4, <2>5, <2>6, <2>7, <2>8, <2>9, <2>10, <2>11, <3>2
    <3> QED BY <3>1, <3>2
  <2> QED BY <2>9, <2>12, <2>13
<1> QED BY <1>1, <1>2 DEF Threads

-----------------------------------------------------------------------------
(* The pool and its changes                                                 *)

\* release() may be of a buffer that has grown, never of one that has shrunk.
LEMMA ReleasedSize ==
    ASSUME IInv, Accounted, NEW b \in 1 .. Len(pool), Released(b)
    PROVE  /\ Len(pool') = Len(pool) /\ pool'[b].released
           /\ \A i \in 1 .. Len(pool) :
                  /\ i # b => pool'[i].released = pool[i].released
                  /\ pool'[i].born = pool[i].born /\ pool'[i].cap >= pool'[i].born
<1>1. PICK c \in {n \in Sizes : n >= pool[b].cap} :
          pool' = [pool EXCEPT ![b] = [@ EXCEPT !.cap = c, !.released = TRUE]]
  BY DEF Released
<1>2. pool[b] \in Buffer /\ c \in Nat /\ c >= pool[b].cap
  BY PoolFields, PoolAssumption DEF IInv
<1>3. pool'[b].born = pool[b].born /\ pool'[b].cap = c
  BY <1>1, <1>2, PoolFields DEF Buffer, IInv
<1>4. pool'[b].cap >= pool'[b].born
  BY <1>2, <1>3 DEF Accounted, Buffer
<1> QED BY <1>3, <1>4, ReleasedPool DEF IInv, Accounted

LEMMA UsedSize ==
    ASSUME IInv, Accounted, NEW b \in 1 .. Len(pool),
           pool' = [pool EXCEPT ![b].released = FALSE]
    PROVE  /\ Len(pool') = Len(pool)
           /\ \A i \in 1 .. Len(pool) :
                  /\ i # b => pool'[i].released = pool[i].released
                  /\ pool'[i].born = pool[i].born /\ pool'[i].cap >= pool'[i].born
<1>1. pool[b] \in Buffer
  BY PoolFields DEF IInv
<1>2. pool'[b].born = pool[b].born /\ pool'[b].cap = pool[b].cap
  BY <1>1, PoolFields DEF Buffer, IInv
<1> QED BY <1>2, UsedPool DEF IInv, Accounted

\* Where nobody's hands get fuller and no search begins or goes on, the counts
\* do not grow.
LEMMA CountsShrink ==
    ASSUME IInv, IInv', Growth, Len(pool') = Len(pool),
           \A b \in 1 .. Len(pool) : pool'[b].born = pool[b].born,
           Kept \subseteq Kept',
           Mine("java")' \subseteq Mine("java"),
           Mine("bedrock")' \subseteq Mine("bedrock"),
           pc'["java"] = "scan" => /\ pc["java"] = "scan" /\ at'["java"] = at["java"]
                                   /\ want'["java"] = want["java"]
                                   /\ Mine("java")' = Mine("java"),
           pc'["bedrock"] = "scan" => /\ pc["bedrock"] = "scan" /\ at'["bedrock"] = at["bedrock"]
                                      /\ want'["bedrock"] = want["bedrock"]
                                      /\ Mine("bedrock")' = Mine("bedrock")
    PROVE  Counts' /\ PoolGrowsByLossOnly'
<1>1. Buffers = 1 .. Len(pool) /\ Buffers' = Buffers
  <2>1. Buffers = 1 .. Len(pool)
    BY MineAreBuffers
  <2>2. DOMAIN pool' = 1 .. Len(pool')
    BY LenProperties DEF IInv, TypeOK
  <2> QED BY <2>1, <2>2 DEF Buffers
<1>2. \A t \in Threads : Mine(t) \subseteq Buffers
  BY MineAreBuffers
<1>3. ASSUME NEW t \in Threads, NEW o \in Threads, o = Other(t), pc'[t] = "scan",
             pc[t] = "scan", at'[t] = at[t], want'[t] = want[t], Mine(t)' = Mine(t),
             Mine(o)' \subseteq Mine(o)
      PROVE  Cardinality(((Passed(t) \ Mine(t)) \cup Mine(o))') <= Share(o)
  <2> DEFINE S == (Passed(t) \ Mine(t)) \cup Mine(o)
             T == ((Passed(t) \ Mine(t)) \cup Mine(o))'
  <2>1. Passed(t)' \subseteq Passed(t)
    BY <1>1, <1>3 DEF Passed
  <2>2. T \subseteq S
    BY <1>3, <2>1
  <2>3. S \subseteq Buffers
    BY <1>2 DEF Passed
  <2>4. Cardinality(S) <= Share(o)
    BY <1>3 DEF Growth, Counts
  <2> HIDE DEF S, T
  <2>5. IsFiniteSet(S) /\ Cardinality(S) \in Nat
    BY <2>3, FiniteBuffers DEF IInv
  <2>6. IsFiniteSet(T) /\ Cardinality(T) <= Cardinality(S)
    BY <2>2, <2>5, FS_Subset
  <2>7. Cardinality(T) \in Nat /\ Share(o) \in Nat
    BY <1>3, <2>6, FS_CardinalityType, Limits
  <2>8. Cardinality(T) <= Share(o)
    BY <2>4, <2>5, <2>6, <2>7
  <2> QED BY <2>8 DEF T
<1>4. Counts'
  <2>1. "java" \in Threads /\ "bedrock" \in Threads
        /\ Other("java") = "bedrock" /\ Other("bedrock") = "java"
    BY DEF Threads, Other
  <2>2. pc'["java"] = "scan" =>
            Cardinality(((Passed("java") \ Mine("java")) \cup Mine("bedrock"))') <= Share("bedrock")
    BY <1>3, <2>1
  <2>3. pc'["bedrock"] = "scan" =>
            Cardinality(((Passed("bedrock") \ Mine("bedrock")) \cup Mine("java"))') <= Share("java")
    BY <1>3, <2>1
  <2> QED BY <2>1, <2>2, <2>3 DEF Counts, Threads
<1>5. PoolGrowsByLossOnly'
  <2> SUFFICES ASSUME NEW n \in Sizes
               PROVE  Cardinality({b \in Buffers' \ Kept' : pool'[b].born = n}) <= Limit
    BY DEF PoolGrowsByLossOnly, Limit
  <2> DEFINE S == {b \in Buffers \ Kept : pool[b].born = n}
             T == {b \in Buffers' \ Kept' : pool'[b].born = n}
  <2>1. T \subseteq S /\ S \subseteq Buffers
    BY <1>1
  <2>2. Cardinality(S) <= Limit
    BY DEF Growth, PoolGrowsByLossOnly, Limit
  <2> HIDE DEF S, T
  <2>3. IsFiniteSet(S) /\ Cardinality(S) \in Nat
    BY <2>1, FiniteBuffers DEF IInv
  <2>4. IsFiniteSet(T) /\ Cardinality(T) <= Cardinality(S)
    BY <2>1, <2>3, FS_Subset
  <2>5. Cardinality(T) \in Nat
    BY <2>4, FS_CardinalityType
  <2>6. Cardinality(T) <= Limit
    BY Limits, <2>2, <2>3, <2>4, <2>5
  <2> QED BY <2>6 DEF T
<1> QED BY <1>4, <1>5

-----------------------------------------------------------------------------
(* Steps that leave the pool alone                                          *)

\* Where the threads call allocateBuffer, and for what.
AskedAt(t, p) ==
    \/ t = "java" /\ pc["java"] \in {"idle", "server"} /\ p \in JavaPurposes
    \/ /\ t = "bedrock"
       /\ \/ pc["bedrock"] = "idle" /\ p = "packet"
          \/ pc["bedrock"] \in {"packet", "content"}
             /\ p \in {"answer", "refusal", "request", "inflated"}
          \/ pc["bedrock"] = "request" /\ p = "wrap"
          \/ pc["bedrock"] = "inflated" /\ p = "kick"
          \/ pc["bedrock"] = "kick" /\ p = "encap"
          \/ pc["bedrock"] = "frame" /\ p = "ack"
          \/ pc["bedrock"] = "content" /\ p = "part"
          \/ pc["bedrock"] = "part" /\ p = "whole" /\ Len(packets) <= MaxNested

LEMMA AskGrowth ==
    ASSUME IInv, IInv', Growth, NEW t \in Threads, NEW p, AskedAt(t, p),
           Ask(t, p), UNCHANGED <<held, login, packets, framed, early>>
    PROVE  Growth'
<1>1. /\ pc' = [pc EXCEPT ![t] = "lock"] /\ why' = [why EXCEPT ![t] = p]
      /\ UNCHANGED <<pool, lock, at, held, login>>
      /\ \A u \in Threads : u # t => want'[u] = want[u]
  BY DEF Ask, IInv, TypeOK
<1>2. /\ pc'[t] = "lock" /\ why'[t] = p
      /\ \A u \in Threads : u # t => pc'[u] = pc[u] /\ why'[u] = why[u]
  BY <1>1 DEF IInv, TypeOK
<1>3. Mine("java")' = Mine("java") /\ Mine("bedrock")' = Mine("bedrock") /\ Kept' = Kept
  BY <1>1, <1>2 DEF Mine, Kept, AskedAt, Threads
<1>4. Hands'
  <2>1. CASE t = "java"
    <3>1. /\ pc["java"] \in {"idle", "server"} /\ pc'["java"] = "lock"
          /\ pc'["bedrock"] = pc["bedrock"] /\ why'["bedrock"] = why["bedrock"]
      BY <1>2, <2>1 DEF AskedAt, Threads
    <3>2. held["java local"] = {}
      BY <3>1 DEF Growth, Hands
    <3> QED BY ZenonT(90), <1>1, <3>1, <3>2 DEF Hands, Growth, AtMostOne
  <2>2. CASE t = "bedrock"
    BY ZenonT(90), <1>1, <1>2, <2>2 DEF Hands, Growth, AskedAt, Threads, AtMostOne
  <2> QED BY <2>1, <2>2 DEF Threads
<1>5. Accounted'
  BY <1>1, <1>3 DEF Growth, Accounted
<1>6. \A u \in Threads : pc'[u] = "scan" =>
          pc[u] = "scan" /\ at'[u] = at[u] /\ want'[u] = want[u]
  BY <1>1, <1>2
<1>7. Counts' /\ PoolGrowsByLossOnly'
  BY <1>1, <1>3, <1>6, CountsShrink DEF Threads
<1>8. Nesting'
  BY <1>1, <1>2 DEF Growth, Nesting, AskedAt, Threads
<1> QED BY <1>4, <1>5, <1>7, <1>8 DEF Growth

\* The Bedrock thread goes on without touching a buffer.
LEMMA MoveGrowth ==
    ASSUME IInv, IInv', Growth,
           pc["bedrock"] \in {"packet", "content", "refusal", "frame", "loop"},
           NEW l \in {"loop", "drop", "frame", "content"},
           pc' = [pc EXCEPT !["bedrock"] = l],
           UNCHANGED <<pool, lock, allocation, held, login, packets, early>>
    PROVE  Growth'
<1>1. pc'["bedrock"] = l /\ pc'["java"] = pc["java"]
  BY DEF IInv, TypeOK, Threads
<1>2. Mine("java")' = Mine("java") /\ Mine("bedrock")' = Mine("bedrock") /\ Kept' = Kept
  BY <1>1 DEF Mine, Kept
<1>3. Hands'
  BY <1>1 DEF Hands, Growth, AtMostOne, allocation
<1>6. Nesting'
  BY <1>1 DEF Nesting, Growth
<1>4. Accounted'
  BY <1>2 DEF Growth, Accounted
<1>5. Counts' /\ PoolGrowsByLossOnly'
  BY <1>1, <1>2, CountsShrink DEF allocation
<1> QED BY <1>3, <1>4, <1>5, <1>6 DEF Growth

LEMMA LockGrowth ==
    ASSUME IInv, IInv', Growth, NEW t \in Threads, Lock(t)
    PROVE  Growth'
<1>1. /\ pc[t] = "lock" /\ lock = Nobody
      /\ pc' = [pc EXCEPT ![t] = "scan"] /\ at' = [at EXCEPT ![t] = 1]
      /\ UNCHANGED <<pool, want, why, held, login, packets, framed, early>>
  BY DEF Lock
<1>2. /\ pc'[t] = "scan" /\ at'[t] = 1
      /\ \A u \in Threads : u # t => pc'[u] = pc[u]
  BY <1>1 DEF IInv, TypeOK
<1>3. \A u \in Threads : pc[u] # "scan"
  BY <1>1 DEF IInv, Control, Threads, Nobody
<1>4. /\ \A u \in Threads : Mine(u)' = Mine(u)
      /\ Kept' = Kept /\ Buffers' = Buffers
  BY <1>1, <1>2 DEF Mine, Kept, Buffers, Threads
<1>5. Hands' /\ Nesting'
  BY <1>1, <1>2 DEF Hands, Nesting, Growth, AtMostOne, Threads
<1>6. Accounted'
  BY <1>1, <1>4 DEF Growth, Accounted, Threads
<1>7. Counts'
  <2> SUFFICES ASSUME NEW u \in Threads, pc'[u] = "scan"
               PROVE  Cardinality((Passed(u)' \ Mine(u)') \cup Mine(Other(u))') <= Share(Other(u))
    BY DEF Counts
  <2>1. u = t
    BY <1>2, <1>3
  <2>2. Passed(u)' = {}
    <3>1. Buffers = 1 .. Len(pool) /\ Len(pool) \in Nat
      BY MineAreBuffers, PoolFields DEF IInv
    <3>2. \A b \in Buffers : ~(b < 1)
      BY <3>1
    <3> QED BY <1>2, <1>4, <2>1, <3>2 DEF Passed
  <2>3. Other(u) \in Threads
    BY DEF Other, Threads
  <2>4. (Passed(u)' \ Mine(u)') \cup Mine(Other(u))' = Mine(Other(u))
    BY <1>4, <2>2, <2>3
  <2> QED BY <2>3, <2>4, HandsAreFew DEF Growth
<1>8. PoolGrowsByLossOnly'
  BY <1>1, <1>4 DEF Growth, PoolGrowsByLossOnly
<1> QED BY <1>5, <1>6, <1>7, <1>8 DEF Growth

\* The search passes a buffer of the size it wants only when it is in
\* somebody's hands, or kept.
LEMMA ScanGrowth ==
    ASSUME IInv, IInv', Growth, NEW t \in Threads, Scan(t)
    PROVE  Growth'
<1>1. /\ pc[t] = "scan" /\ at[t] \in Buffers
      /\ UNCHANGED <<pool, lock, want, why, held, login, packets, framed, early>>
  BY DEF Scan
<1>2. Buffers' = Buffers /\ Buffers = 1 .. Len(pool) /\ Len(pool) \in Nat
  BY <1>1, MineAreBuffers, PoolFields DEF Buffers, IInv
<1>3. /\ pc'[t] \in {"scan", "take"}
      /\ \A u \in Threads : u # t => pc'[u] = pc[u] /\ at'[u] = at[u]
  BY <1>1 DEF Scan, IInv, TypeOK
<1>4. \A u \in Threads : Mine(u)' = Mine(u)
  BY <1>1, <1>3 DEF Mine, Threads
<1>5. Kept' = Kept
  BY <1>1 DEF Kept
<1>6. Hands' /\ Nesting'
  BY <1>1, <1>3 DEF Hands, Nesting, Growth, AtMostOne, Threads
<1>7. Accounted'
  BY <1>1, <1>4, <1>5 DEF Growth, Accounted, Threads
<1>8. PoolGrowsByLossOnly'
  BY <1>1, <1>2, <1>5 DEF Growth, PoolGrowsByLossOnly
<1>9. Counts'
  <2> SUFFICES ASSUME NEW u \in Threads, pc'[u] = "scan"
               PROVE  Cardinality((Passed(u)' \ Mine(u)') \cup Mine(Other(u))') <= Share(Other(u))
    BY DEF Counts
  <2>1. u = t
    BY <1>1, <1>3 DEF IInv, Control
  <2>2. ~Fits(at[t], want[t]) /\ at'[t] = at[t] + 1
    BY <1>1, <2>1 DEF Scan, IInv, TypeOK
  <2>3. Other(u) \in Threads /\ {u, Other(u)} = {"java", "bedrock"}
    BY DEF Other, Threads
  <2>4. ASSUME NEW b \in Passed(u)'
        PROVE  b \in Passed(u) \/ b \in Mine(u) \/ b \in Mine(Other(u))
    <3>1. b \in Buffers \ Kept /\ b < at[t] + 1 /\ pool[b].born = want[t]
      BY <1>1, <1>2, <1>5, <2>1, <2>2, <2>4 DEF Passed
    <3>2. CASE b < at[t]
      BY <2>1, <3>1, <3>2 DEF Passed
    <3>3. CASE b = at[t]
      <4>1. pool[b].cap >= want[t] /\ (pool[b].released \/ b \in Mine("java") \cup Mine("bedrock"))
        BY <1>2, <3>1 DEF Growth, Accounted
      <4>2. ~pool[b].released
        BY <2>2, <3>3, <4>1 DEF Fits
      <4> QED BY <2>3, <4>1, <4>2
    <3> QED BY <1>1, <1>2, <3>1, <3>2, <3>3
  <2> DEFINE S == (Passed(u) \ Mine(u)) \cup Mine(Other(u))
             T == (Passed(u)' \ Mine(u)') \cup Mine(Other(u))'
  <2>5. T \subseteq S
    BY <1>4, <2>3, <2>4
  <2>6. S \subseteq Buffers
    BY <2>3, MineAreBuffers DEF Passed
  <2>7. Cardinality(S) <= Share(Other(u))
    BY <1>1, <2>1 DEF Growth, Counts
  <2> HIDE DEF S, T
  <2>8. IsFiniteSet(S) /\ Cardinality(S) \in Nat
    BY <2>6, FiniteBuffers DEF IInv
  <2>9. IsFiniteSet(T) /\ Cardinality(T) <= Cardinality(S)
    BY <2>5, <2>8, FS_Subset
  <2>10. Cardinality(T) \in Nat /\ Share(Other(u)) \in Nat
    BY <2>3, <2>9, FS_CardinalityType, Limits
  <2>11. Cardinality(T) <= Share(Other(u))
    BY <2>7, <2>8, <2>9, <2>10
  <2> QED BY <2>11 DEF T
<1> QED BY <1>6, <1>7, <1>8, <1>9 DEF Growth

-----------------------------------------------------------------------------
(* allocateBuffer returns                                                   *)

\* What it returns goes into empty hands.
LEMMA ReturnHands ==
    ASSUME IInv, IInv', Hands, Nesting, NEW t \in Threads, pc[t] \in {"scan", "take"},
           NEW b, Return(t, b)
    PROVE  /\ Hands' /\ Nesting' /\ Kept \subseteq Kept'
           /\ Mine("java") \subseteq Mine("java")'
           /\ Mine("bedrock") \subseteq Mine("bedrock")'
           /\ b \in Mine("java")' \cup Mine("bedrock")' \cup Kept'
           /\ \A u \in Threads : pc'[u] # "scan"
<1> DEFINE p == why[t]
<1>1. /\ p \in Purpose(t) /\ lock = t
      /\ pc'[t] = IF p = "client" THEN "idle" ELSE p
      /\ \A u \in Threads : u # t => pc'[u] = pc[u] /\ why'[u] = why[u]
      /\ \A r \in Roles : held'[r] = IF r = RoleFor(p) THEN held[r] \cup {b} ELSE held[r]
      /\ login' = IF p = "first" THEN b ELSE login
      /\ packets' = IF p \in {"packet", "whole"} THEN Append(packets, b) ELSE packets
  BY DEF Return, IInv, TypeOK, Control, Asking, Purpose, Threads
<1>2. {"java local", "java kept", "bedrock local", "bedrock packet",
       "bedrock message", "bedrock parts", "bedrock kept"} = Roles
  BY DEF Roles
<1>3. \A u \in Threads : pc'[u] # "scan"
  BY <1>1 DEF IInv, Control, Threads, Purpose, JavaPurposes, BedrockPurposes, Purposes
<1>4. CASE t = "java"
  <2>1. /\ p \in {"reply", "first", "client", "server"}
        /\ pc'["bedrock"] = pc["bedrock"] /\ why'["bedrock"] = why["bedrock"]
        /\ pc["java"] \in {"scan", "take"}
    BY <1>1, <1>4 DEF Purpose, JavaPurposes, Threads
  <2>2. RoleFor(p) = IF p \in {"reply", "first"} THEN "java local" ELSE "java kept"
    BY <2>1 DEF RoleFor
  <2>3. /\ held'["bedrock local"] = held["bedrock local"]
        /\ held'["bedrock packet"] = held["bedrock packet"]
        /\ held'["bedrock message"] = held["bedrock message"]
        /\ held'["bedrock parts"] = held["bedrock parts"]
        /\ held'["bedrock kept"] = held["bedrock kept"]
        /\ held'["java local"] = IF p \in {"reply", "first"} THEN held["java local"] \cup {b}
                                                              ELSE held["java local"]
        /\ held'["java kept"] = IF p \in {"reply", "first"} THEN held["java kept"]
                                                             ELSE held["java kept"] \cup {b}
    BY <1>1, <1>2, <2>2
  <2>4. held["java local"] = {}
    BY <2>1 DEF Hands
  <2>5. /\ pc'["java"] = (IF p = "client" THEN "idle" ELSE p)
        /\ p = "first" => login' = b
        /\ packets' = packets
    BY <1>1, <1>4, <2>1
  <2> HIDE DEF p
  <2>6. Hands'
    <3>a. AtMostOne({}) /\ AtMostOne({b})
      BY DEF AtMostOne
    <3>b. /\ AtMostOne(held["java local"]) /\ AtMostOne(held["bedrock local"])
          /\ AtMostOne(held["bedrock message"])
      BY DEF Hands
    <3>c. held'["java local"] = IF p \in {"reply", "first"} THEN {b} ELSE {}
      BY <2>3, <2>4
    <3>d. /\ AtMostOne(held'["java local"]) /\ AtMostOne(held'["bedrock local"])
          /\ AtMostOne(held'["bedrock message"])
      BY <2>3, <3>a, <3>b, <3>c
    <3>1. \A r \in {"java local", "bedrock local", "bedrock message"} :
              AtMostOne(held'[r])
      BY <3>d
    <3>2. /\ held'["java local"] # {} => pc'["java"] \in {"reply", "first", "second"}
          /\ pc'["java"] \in {"first", "second"} => held'["java local"] \subseteq {login'}
      BY <2>1, <2>3, <2>4, <2>5
    <3> QED BY <2>1, <2>3, <3>1, <3>2 DEF Hands, AtMostOne
  <2>7. Mine("java") = {} /\ Mine("bedrock")' = Mine("bedrock")
    BY <2>1, <2>3, <2>4 DEF Mine
  <2>8. Kept \subseteq Kept'
    BY <2>3 DEF Kept
  <2>9. b \in Mine("java")' \cup Mine("bedrock")' \cup Kept'
    BY <2>3 DEF Mine, Kept
  <2>10. Nesting'
    BY <2>1, <2>3, <2>5 DEF Nesting
  <2> QED BY <1>3, <2>6, <2>7, <2>8, <2>9, <2>10
<1>5. CASE t = "bedrock"
  <2>1. /\ p \in {"packet", "answer", "refusal", "request", "wrap", "inflated", "kick",
                  "encap", "ack", "part", "whole"}
        /\ pc'["java"] = pc["java"] /\ pc'["bedrock"] = p
        /\ pc["bedrock"] \in {"scan", "take"} /\ why["bedrock"] = p
        /\ login' = login
    BY <1>1, <1>5 DEF Purpose, BedrockPurposes, JavaPurposes, Purposes, Threads
  <2>2. RoleFor(p) = CASE p \in {"answer", "ack", "encap", "wrap", "part"} -> "bedrock local"
                       [] p \in {"packet", "whole"} -> "bedrock packet"
                       [] p \in {"inflated", "request"} -> "bedrock message"
                       [] OTHER -> "bedrock kept"
    BY <2>1 DEF RoleFor
  <2>3. /\ p # "whole" => held["bedrock local"] = {}
        /\ p \notin {"wrap", "kick", "encap"} => held["bedrock message"] = {}
    BY <2>1 DEF Hands
  <2>4. /\ held'["java local"] = held["java local"] /\ held'["java kept"] = held["java kept"]
        /\ held'["bedrock parts"] = held["bedrock parts"]
        /\ held'["bedrock local"] = IF p \in {"answer", "ack", "encap", "wrap", "part"}
                                    THEN {b} ELSE held["bedrock local"]
        /\ held'["bedrock packet"] = IF p \in {"packet", "whole"}
                                     THEN held["bedrock packet"] \cup {b}
                                     ELSE held["bedrock packet"]
        /\ held'["bedrock message"] = IF p \in {"inflated", "request"}
                                      THEN {b} ELSE held["bedrock message"]
        /\ held'["bedrock kept"] = IF p \in {"kick", "refusal"}
                                   THEN held["bedrock kept"] \cup {b} ELSE held["bedrock kept"]
    BY <1>1, <1>2, <2>1, <2>2, <2>3
  <2>8. /\ p \in {"packet", "whole"} => packets' = Append(packets, b)
        /\ p \notin {"packet", "whole"} => packets' = packets
        /\ p = "packet" => packets = << >>
    <3>1. p = "packet" => ~Working /\ ~Forgetting
      BY <2>1 DEF Working, Forgetting, Asking
    <3>2. p = "packet" => packets = << >>
      BY <3>1 DEF IInv, Carried
    <3> QED BY <1>1, <3>2
  <2>9. p = "whole" => Len(packets) <= MaxNested
    BY <2>1 DEF Nesting
  <2> HIDE DEF p
  <2>5. Hands'
    <3>a. AtMostOne({}) /\ AtMostOne({b})
      BY DEF AtMostOne
    <3>b. /\ AtMostOne(held["java local"]) /\ AtMostOne(held["bedrock local"])
          /\ AtMostOne(held["bedrock message"])
      BY DEF Hands
    <3>d. /\ AtMostOne(held'["java local"]) /\ AtMostOne(held'["bedrock local"])
          /\ AtMostOne(held'["bedrock message"])
      BY <2>4, <3>a, <3>b
    <3>1. \A r \in {"java local", "bedrock local", "bedrock message"} :
              AtMostOne(held'[r])
      BY <3>d
    <3>2. /\ held'["java local"] # {} => pc'["java"] \in {"reply", "first", "second"}
          /\ pc'["java"] \in {"first", "second"} => held'["java local"] \subseteq {login'}
      BY <2>1, <2>4 DEF Hands
    <3>3. /\ held'["bedrock local"] # {} =>
                 pc'["bedrock"] \in {"answer", "wrap", "encap", "ack", "part", "whole"}
          /\ held'["bedrock message"] # {} =>
                 pc'["bedrock"] \in {"request", "wrap", "wrapped", "inflated", "kick",
                                     "encap", "played"}
      BY <2>1, <2>3, <2>4
    <3> QED BY <3>1, <3>2, <3>3 DEF Hands, AtMostOne
  <2>10. Nesting'
    <3>1. pc'["bedrock"] \notin {"lock", "scan", "take"}
      BY <2>1
    <3>2. MaxNested \in Nat
      BY PoolAssumption
    <3>3. CASE p \in {"packet", "whole"}
      <4>1. packets \in Seq(1 .. Len(pool)) /\ Len(packets) \in Nat
        BY PacketFields DEF IInv
      <4>2. b \in 1 .. Len(pool')
        <5>1. b \in held'["bedrock packet"]
          BY <2>4, <3>3
        <5>2. held' \in [Roles -> SUBSET (1 .. Len(pool'))]
          BY MineAreBuffers, LenProperties DEF IInv, TypeOK, Buffers
        <5> QED BY <1>2, <5>1, <5>2
      <4>3. /\ Len(packets') = Len(packets) + 1 /\ packets'[Len(packets) + 1] = b
            /\ \A i \in 1 .. Len(packets) : packets'[i] = packets[i]
        BY <2>8, <3>3, <4>1, AppendProperties
      <4>4. Len(packets) <= MaxNested
        <5>1. CASE p = "packet"
          <6>1. Len(packets) = 0
            BY <2>8, <5>1, EmptySeq
          <6> QED BY <3>2, <6>1
        <5>2. CASE p = "whole"
          BY <2>9, <5>2
        <5> QED BY <3>3, <5>1, <5>2
      <4>5. Len(packets') <= 1 + MaxNested
        BY <3>2, <4>1, <4>3, <4>4
      <4>6. held'["bedrock packet"] \subseteq {packets'[i] : i \in 1 .. Len(packets')}
        <5> SUFFICES ASSUME NEW x \in held'["bedrock packet"]
                     PROVE  \E i \in 1 .. Len(packets') : x = packets'[i]
          OBVIOUS
        <5>1. CASE x = b
          <6>1. Len(packets) + 1 \in 1 .. Len(packets')
            BY <4>1, <4>3, OneMore
          <6> QED BY <4>3, <5>1, <6>1
        <5>2. CASE x \in held["bedrock packet"]
          <6>1. PICK i \in 1 .. Len(packets) : x = packets[i]
            BY <5>2 DEF Nesting
          <6>2. i \in 1 .. Len(packets')
            BY <4>1, <4>3, <6>1, OneMore
          <6> QED BY <4>3, <6>1, <6>2
        <5> QED BY <2>4, <3>3, <5>1, <5>2
      <4> QED BY <2>4, <3>1, <4>5, <4>6 DEF Nesting
    <3>4. CASE p \notin {"packet", "whole"}
      BY <2>4, <2>8, <3>1, <3>4 DEF Nesting
    <3> QED BY <3>3, <3>4
  <2>6. Mine("java")' = Mine("java") /\ Mine("bedrock") \subseteq Mine("bedrock")'
    BY <2>1, <2>3, <2>4 DEF Mine
  <2>7. Kept \subseteq Kept' /\ b \in Mine("java")' \cup Mine("bedrock")' \cup Kept'
    BY <2>1, <2>4 DEF Mine, Kept
  <2> QED BY <1>3, <2>5, <2>6, <2>7, <2>10
<1> QED BY <1>4, <1>5 DEF Threads

LEMMA TakeGrowth ==
    ASSUME IInv, IInv', Growth, NEW t \in Threads, Take(t)
    PROVE  Growth'
<1>1. /\ pc[t] = "take" /\ Return(t, at[t])
      /\ pool' = [pool EXCEPT ![at[t]].released = FALSE]
  BY DEF Take
<1>2. at[t] \in 1 .. Len(pool)
  BY <1>1 DEF IInv, Control
<1>3. /\ Len(pool') = Len(pool)
      /\ \A i \in 1 .. Len(pool) :
             /\ i # at[t] => pool'[i].released = pool[i].released
             /\ pool'[i].born = pool[i].born /\ pool'[i].cap >= pool'[i].born
  BY <1>1, <1>2, UsedSize DEF Growth
<1>4. /\ Hands' /\ Nesting' /\ Kept \subseteq Kept'
      /\ Mine("java") \subseteq Mine("java")' /\ Mine("bedrock") \subseteq Mine("bedrock")'
      /\ at[t] \in Mine("java")' \cup Mine("bedrock")' \cup Kept'
      /\ \A u \in Threads : pc'[u] # "scan"
  BY <1>1, ReturnHands DEF Growth
<1>5. Accounted'
  BY <1>3, <1>4 DEF Growth, Accounted
<1>6. Counts'
  BY <1>4 DEF Counts
<1>7. PoolGrowsByLossOnly'
  <2> SUFFICES ASSUME NEW n \in Sizes
               PROVE  Cardinality({b \in Buffers' \ Kept' : pool'[b].born = n}) <= Limit
    BY DEF PoolGrowsByLossOnly, Limit
  <2> DEFINE S == {b \in Buffers \ Kept : pool[b].born = n}
             T == {b \in Buffers' \ Kept' : pool'[b].born = n}
  <2>1. Buffers = 1 .. Len(pool) /\ Buffers' = 1 .. Len(pool)
    BY <1>3, MineAreBuffers, LenProperties DEF Buffers, IInv, TypeOK
  <2>2. T \subseteq S /\ S \subseteq Buffers
    BY <1>3, <1>4, <2>1
  <2>3. Cardinality(S) <= Limit
    BY DEF Growth, PoolGrowsByLossOnly, Limit
  <2> HIDE DEF S, T
  <2>4. IsFiniteSet(S) /\ Cardinality(S) \in Nat
    BY <2>2, FiniteBuffers DEF IInv
  <2>5. IsFiniteSet(T) /\ Cardinality(T) <= Cardinality(S)
    BY <2>2, <2>4, FS_Subset
  <2>6. Cardinality(T) \in Nat
    BY <2>5, FS_CardinalityType
  <2>7. Cardinality(T) <= Limit
    BY Limits, <2>3, <2>4, <2>5, <2>6
  <2> QED BY <2>7 DEF T
<1> QED BY <1>4, <1>5, <1>6, <1>7 DEF Growth

\* A new buffer is made when the search has passed all others: those of its
\* size are in the hands of one thread or the other, or were in those of the
\* other when it passed them, and its own are not yet full.
LEMMA CreateGrowth ==
    ASSUME IInv, IInv', Growth, NEW t \in Threads, Create(t)
    PROVE  Growth'
<1> DEFINE e == [cap |-> want[t], born |-> want[t], released |-> FALSE]
           b == Len(pool) + 1
<1>1. /\ pc[t] = "scan" /\ at[t] = b /\ Return(t, b) /\ pool' = Append(pool, e)
  BY DEF Create
<1>2. pool \in Seq(Buffer) /\ Len(pool) \in Nat /\ Buffers = 1 .. Len(pool)
  BY MineAreBuffers, PoolFields DEF IInv, TypeOK
<1>3. want[t] \in Nat /\ e \in Buffer
  <2>1. want[t] \in Nat
    BY <1>1, PoolAssumption DEF IInv, Control, Asking
  <2> QED
    BY <2>1 DEF Buffer
<1>4. e.born = want[t] /\ e.cap = want[t]
  OBVIOUS
<1> HIDE DEF e
<1>5. /\ Len(pool') = b /\ Buffers' = 1 .. b
      /\ \A i \in 1 .. Len(pool) : pool'[i] = pool[i]
      /\ pool'[b] = e
  <2>1. /\ pool' \in Seq(Buffer) /\ Len(pool') = Len(pool) + 1
        /\ \A i \in 1 .. Len(pool) : pool'[i] = pool[i]
        /\ pool'[b] = e
    BY <1>1, <1>2, <1>3, AppendProperties
  <2> QED BY <2>1, LenProperties DEF Buffers
<1>6. /\ Hands' /\ Nesting' /\ Kept \subseteq Kept'
      /\ Mine("java") \subseteq Mine("java")' /\ Mine("bedrock") \subseteq Mine("bedrock")'
      /\ b \in Mine("java")' \cup Mine("bedrock")' \cup Kept'
      /\ \A u \in Threads : pc'[u] # "scan"
  BY <1>1, ReturnHands DEF Growth
<1>7. Accounted'
  <2> SUFFICES ASSUME NEW i \in 1 .. b
               PROVE  /\ pool'[i].released \/ i \in (Mine("java") \cup Mine("bedrock") \cup Kept)'
                      /\ pool'[i].cap >= pool'[i].born
    BY <1>5 DEF Accounted
  <2>1. CASE i = b
    BY <1>3, <1>4, <1>5, <1>6, <2>1
  <2>2. CASE i # b
    <3>1. i \in 1 .. Len(pool)
      BY <1>2, <2>2
    <3> QED BY <1>5, <1>6, <3>1 DEF Growth, Accounted
  <2> QED BY <2>1, <2>2
<1>8. Counts'
  BY <1>6 DEF Counts
<1>9. PoolGrowsByLossOnly'
  <2> SUFFICES ASSUME NEW n \in Sizes
               PROVE  Cardinality({i \in Buffers' \ Kept' : pool'[i].born = n}) <= Limit
    BY DEF PoolGrowsByLossOnly, Limit
  <2> DEFINE T == {i \in Buffers' \ Kept' : pool'[i].born = n}
  <2>1. CASE n # want[t]
    <3> DEFINE S == {i \in Buffers \ Kept : pool[i].born = n}
    <3>1. ASSUME NEW i \in T PROVE i \in S
      <4>1. i \in 1 .. b /\ i # b /\ i \notin Kept /\ pool'[i].born = n
        BY <1>4, <1>5, <1>6, <2>1, <3>1
      <4>2. i \in 1 .. Len(pool)
        BY <1>2, <4>1
      <4> QED BY <1>2, <1>5, <4>1, <4>2
    <3>2. T \subseteq S /\ S \subseteq Buffers
      BY <3>1
    <3>3. Cardinality(S) <= Limit
      BY DEF Growth, PoolGrowsByLossOnly, Limit
    <3> HIDE DEF S, T
    <3>4. IsFiniteSet(S) /\ Cardinality(S) \in Nat
      BY <3>2, FiniteBuffers DEF IInv
    <3>5. IsFiniteSet(T) /\ Cardinality(T) <= Cardinality(S)
      BY <3>2, <3>4, FS_Subset
    <3>6. Cardinality(T) \in Nat
      BY <3>5, FS_CardinalityType
    <3>7. Cardinality(T) <= Limit
      BY Limits, <3>3, <3>4, <3>5, <3>6
    <3> QED BY <3>7 DEF T
  <2>2. CASE n = want[t]
    <3> DEFINE o == Other(t)
               theirs == (Passed(t) \ Mine(t)) \cup Mine(o)
    <3>1. /\ o \in Threads /\ Share(o) + Share(t) = Limit /\ Share(o) \in Nat
          /\ Share(t) \in Nat /\ Limit \in Nat
      BY Limits DEF Other, Threads
    <3>2. ASSUME NEW i \in T PROVE i \in (theirs \cup Mine(t)) \cup {b}
      <4>1. i \in 1 .. b /\ i \notin Kept /\ pool'[i].born = want[t]
        BY <1>5, <1>6, <2>2, <3>2
      <4>2. CASE i # b
        <5>1. i \in 1 .. Len(pool) /\ i < b
          BY <1>2, <4>1, <4>2
        <5>2. i \in Passed(t)
          BY <1>1, <1>2, <1>5, <4>1, <5>1 DEF Passed
        <5> QED BY <5>2
      <4> QED BY <4>2
    <3>3. Cardinality(theirs) <= Share(o)
      BY <1>1 DEF Growth, Counts
    <3>4. theirs \subseteq Buffers
      BY <3>1, MineAreBuffers DEF Passed
    <3>5. /\ IsFiniteSet(Mine(t)) /\ Cardinality(Mine(t)) \in Nat
          /\ Cardinality(Mine(t)) <= Share(t) - 1
      BY <1>1, HandsAreFew DEF Asking, Growth
    <3>6. T \subseteq (theirs \cup Mine(t)) \cup {b}
      BY <3>2
    <3> HIDE DEF theirs, T, b, o
    <3>7. IsFiniteSet(theirs) /\ Cardinality(theirs) \in Nat
      BY <3>4, FiniteBuffers DEF IInv
    <3>8. /\ IsFiniteSet(theirs \cup Mine(t)) /\ Cardinality(theirs \cup Mine(t)) \in Nat
          /\ Cardinality(theirs \cup Mine(t)) <= Cardinality(theirs) + Cardinality(Mine(t))
      BY <3>5, <3>7, Join
    <3>9. IsFiniteSet({b}) /\ Cardinality({b}) = 1
      BY FS_Singleton
    <3>10. /\ IsFiniteSet((theirs \cup Mine(t)) \cup {b})
           /\ Cardinality((theirs \cup Mine(t)) \cup {b}) \in Nat
           /\ Cardinality((theirs \cup Mine(t)) \cup {b})
                 <= Cardinality(theirs \cup Mine(t)) + Cardinality({b})
      BY <3>8, <3>9, Join
    <3>11. IsFiniteSet(T) /\ Cardinality(T) <= Cardinality((theirs \cup Mine(t)) \cup {b})
      BY <3>6, <3>10, FS_Subset
    <3>12. Cardinality(T) \in Nat
      BY <3>11, FS_CardinalityType
    <3>13. Cardinality(T) <= Limit
      BY <3>1, <3>3, <3>5, <3>7, <3>8, <3>9, <3>10, <3>11, <3>12
    <3> QED BY <3>13 DEF T
  <2> QED BY <2>1, <2>2
<1> QED BY <1>6, <1>7, <1>8, <1>9 DEF Growth

-----------------------------------------------------------------------------
(* Buffers are given back                                                   *)

\* Where a thread releases a buffer of which role, and where it is then.
ReleasedAt(t, role, l) ==
    \/ /\ t = "java" /\ role = "java local"
       /\ \/ pc["java"] = "reply" /\ l = "idle"
          \/ pc["java"] = "first" /\ l = "again"
    \/ /\ t = "bedrock" /\ role = "bedrock local"
       /\ \/ pc["bedrock"] = "answer" /\ l \in {"loop", "drop"}
          \/ pc["bedrock"] = "wrap" /\ l = "wrapped"
          \/ pc["bedrock"] = "encap" /\ l = "played"
          \/ pc["bedrock"] = "ack" /\ l = "content"
          \/ pc["bedrock"] = "whole" /\ l = "packet"
    \/ /\ t = "bedrock" /\ role = "bedrock message"
       /\ \/ pc["bedrock"] = "wrapped" /\ l \in {"loop", "drop"}
          \/ pc["bedrock"] \in {"inflated", "played"} /\ l = "inflate end"

LEMMA ReleaseGrowth ==
    ASSUME IInv, IInv', Growth, NEW t \in Threads, NEW role, NEW l,
           ReleasedAt(t, role, l), Release(t, role, l)
    PROVE  Growth'
<1>1. PICK b \in held[role] : Released(b)
  BY DEF Release
<1>2. /\ held' = [held EXCEPT ![role] = {}] /\ pc' = [pc EXCEPT ![t] = l]
      /\ UNCHANGED <<lock, want, at, why, login, packets, framed, early>>
  BY DEF Release, allocation
<1>3. role \in Roles /\ role \in {"java local", "bedrock local", "bedrock message"}
  BY DEF ReleasedAt, Roles
<1>4. /\ pc'[t] = l /\ \A u \in Threads : u # t => pc'[u] = pc[u]
      /\ held'[role] = {} /\ \A r \in Roles : r # role => held'[r] = held[r]
  BY <1>2, <1>3 DEF IInv, TypeOK
<1>5. b \in 1 .. Len(pool)
  BY <1>1, <1>3, MineAreBuffers DEF IInv, TypeOK
<1>6. /\ Len(pool') = Len(pool) /\ pool'[b].released
      /\ \A i \in 1 .. Len(pool) :
             /\ i # b => pool'[i].released = pool[i].released
             /\ pool'[i].born = pool[i].born /\ pool'[i].cap >= pool'[i].born
  BY <1>1, <1>5, ReleasedSize DEF Growth
<1>7. held[role] = {b}
  <2>1. AtMostOne(held[role])
    BY <1>3 DEF Growth, Hands
  <2> QED BY <1>1, <2>1 DEF AtMostOne
<1>8. \A r \in Roles : held'[r] = IF r = role THEN {} ELSE held[r]
  BY <1>4
<1>9. /\ "java local" \in Roles /\ "java kept" \in Roles /\ "bedrock local" \in Roles
      /\ "bedrock packet" \in Roles /\ "bedrock message" \in Roles
      /\ "bedrock parts" \in Roles /\ "bedrock kept" \in Roles
  BY DEF Roles
<1>10. Kept' = Kept
  BY <1>3, <1>8, <1>9 DEF Kept
<1>11. /\ Mine("java")' \subseteq Mine("java") /\ Mine("bedrock")' \subseteq Mine("bedrock")
       /\ t # "java" => Mine("java")' = Mine("java")
       /\ t # "bedrock" => Mine("bedrock")' = Mine("bedrock")
       /\ \A i : i # b /\ i \in Mine("java") => i \in Mine("java")'
       /\ \A i : i # b /\ i \in Mine("bedrock") => i \in Mine("bedrock")'
  <2>1. CASE t = "java"
    <3>1. role = "java local" /\ pc["java"] \in {"reply", "first"}
          /\ (pc["java"] = "first" <=> l = "again")
      BY <2>1 DEF ReleasedAt
    <3>2. pc["java"] = "first" => b = login
      BY <1>7, <3>1 DEF Growth, Hands
    <3>3. Mine("bedrock")' = Mine("bedrock")
      BY <1>8, <1>9, <3>1 DEF Mine
    <3>4. Mine("java") = {b} /\ Mine("java")' = IF l = "again" THEN {login} ELSE {}
      BY ZenonT(90), <1>2, <1>4, <1>7, <1>8, <1>9, <2>1, <3>1 DEF Mine
    <3> QED BY <2>1, <3>1, <3>2, <3>3, <3>4
  <2>2. CASE t = "bedrock"
    <3>1. role \in {"bedrock local", "bedrock message"} /\ pc'["java"] = pc["java"]
      BY <1>4, <2>2 DEF ReleasedAt, Threads
    <3>2. Mine("java")' = Mine("java")
      BY <1>2, <1>8, <1>9, <3>1 DEF Mine
    <3> QED BY <1>7, <1>8, <1>9, <2>2, <3>1, <3>2 DEF Mine
  <2> QED BY <2>1, <2>2 DEF Threads
<1>12. Hands'
  <2>1. /\ AtMostOne(held["java local"]) /\ AtMostOne(held["bedrock local"])
        /\ AtMostOne(held["bedrock message"]) /\ AtMostOne({})
    BY DEF Growth, Hands, AtMostOne
  <2>2. /\ AtMostOne(held'["java local"]) /\ AtMostOne(held'["bedrock local"])
        /\ AtMostOne(held'["bedrock message"])
    BY <1>8, <1>9, <2>1
  <2>3. CASE t = "java"
    <3>1. /\ role = "java local" /\ pc'["java"] \in {"idle", "again"}
          /\ pc'["bedrock"] = pc["bedrock"]
      BY <1>4, <2>3 DEF ReleasedAt, Threads
    <3>2. /\ held'["java local"] = {} /\ held'["bedrock local"] = held["bedrock local"]
          /\ held'["bedrock message"] = held["bedrock message"]
      BY <1>8, <1>9, <3>1
    <3> QED BY <1>2, <2>2, <3>1, <3>2 DEF Growth, Hands
  <2>4. CASE t = "bedrock"
    <3>1. pc'["java"] = pc["java"] /\ held'["java local"] = held["java local"]
      BY <1>3, <1>4, <1>9, <2>4 DEF ReleasedAt, Threads
    <3>2. /\ held'["bedrock local"] = {}
          /\ held'["bedrock message"] # {} => pc'["bedrock"] \in {"wrapped", "played"}
      BY <1>4, <1>8, <1>9, <2>4 DEF ReleasedAt, Growth, Hands
    <3> QED BY <1>2, <2>2, <3>1, <3>2 DEF Growth, Hands
  <2> QED BY <2>3, <2>4 DEF Threads
<1>13. Accounted'
  BY <1>6, <1>10, <1>11 DEF Growth, Accounted
<1>14. pc'[t] # "scan"
  BY <1>4 DEF ReleasedAt
<1>15. Counts' /\ PoolGrowsByLossOnly'
  <2>1. pc'["java"] = "scan" => t # "java" /\ pc["java"] = "scan"
    BY <1>4, <1>14 DEF Threads
  <2>2. pc'["bedrock"] = "scan" => t # "bedrock" /\ pc["bedrock"] = "scan"
    BY <1>4, <1>14 DEF Threads
  <2> QED BY <1>2, <1>6, <1>10, <1>11, <2>1, <2>2, CountsShrink
<1>16. Nesting'
  <2>1. /\ held'["bedrock packet"] = held["bedrock packet"]
        /\ held'["bedrock parts"] = held["bedrock parts"]
    BY <1>3, <1>8, <1>9
  <2>2. pc'["bedrock"] \in {"lock", "scan", "take"} => pc'["bedrock"] = pc["bedrock"]
    BY <1>4 DEF ReleasedAt, Threads
  <2> QED BY <1>2, <2>1, <2>2 DEF Growth, Nesting
<1> QED BY <1>12, <1>13, <1>15, <1>16 DEF Growth

\* Player::connect takes back the buffer it has counted as its own all along.
LEMMA UseAgainGrowth ==
    ASSUME IInv, IInv', Growth, UseAgain
    PROVE  Growth'
<1>1. /\ pc["java"] = "again"
      /\ pool' = [pool EXCEPT ![login].released = FALSE]
      /\ held' = [held EXCEPT !["java local"] = {login}]
      /\ pc' = [pc EXCEPT !["java"] = "second"]
      /\ UNCHANGED <<lock, want, at, why, login, packets, framed>>
  BY DEF UseAgain, allocation
<1>2. login \in 1 .. Len(pool)
  BY <1>1 DEF IInv, Carried
<1>3. /\ Len(pool') = Len(pool)
      /\ \A i \in 1 .. Len(pool) :
             /\ i # login => pool'[i].released = pool[i].released
             /\ pool'[i].born = pool[i].born /\ pool'[i].cap >= pool'[i].born
  BY <1>1, <1>2, UsedSize DEF Growth
<1>4. /\ held'["java local"] = {login} /\ held'["java kept"] = held["java kept"]
      /\ held'["bedrock local"] = held["bedrock local"]
      /\ held'["bedrock packet"] = held["bedrock packet"]
      /\ held'["bedrock message"] = held["bedrock message"]
      /\ held'["bedrock parts"] = held["bedrock parts"]
      /\ held'["bedrock kept"] = held["bedrock kept"]
      /\ pc'["java"] = "second" /\ pc'["bedrock"] = pc["bedrock"]
  BY <1>1 DEF IInv, TypeOK, Roles, Threads
<1>5. held["java local"] = {}
  BY <1>1 DEF Growth, Hands
<1>6. /\ Mine("java")' = Mine("java") /\ Mine("bedrock")' = Mine("bedrock") /\ Kept' = Kept
      /\ login \in Mine("java")
  BY <1>1, <1>4, <1>5 DEF Mine, Kept
<1>7. Hands'
  <2>1. AtMostOne(held["bedrock local"]) /\ AtMostOne(held["bedrock message"])
        /\ AtMostOne({login})
    BY DEF Growth, Hands, AtMostOne
  <2> QED BY <1>1, <1>4, <2>1 DEF Growth, Hands
<1>10. Nesting'
  BY <1>1, <1>4 DEF Growth, Nesting
<1>8. Accounted'
  BY <1>3, <1>6 DEF Growth, Accounted
<1>9. Counts' /\ PoolGrowsByLossOnly'
  BY <1>1, <1>3, <1>4, <1>6, CountsShrink
<1> QED BY <1>7, <1>8, <1>9, <1>10 DEF Growth

LEMMA ReleaseSecondGrowth ==
    ASSUME IInv, IInv', Growth, ReleaseSecond
    PROVE  Growth'
<1>1. /\ pc["java"] = "second" /\ Released(login)
      /\ held' = [held EXCEPT !["java local"] = {}] /\ login' = 0
      /\ pc' = [pc EXCEPT !["java"] = "idle"]
      /\ UNCHANGED <<lock, want, at, why, packets, framed, early>>
  BY DEF ReleaseSecond, allocation
<1>2. login \in 1 .. Len(pool)
  BY <1>1 DEF IInv, Carried
<1>3. /\ Len(pool') = Len(pool) /\ pool'[login].released
      /\ \A i \in 1 .. Len(pool) :
             /\ i # login => pool'[i].released = pool[i].released
             /\ pool'[i].born = pool[i].born /\ pool'[i].cap >= pool'[i].born
  BY <1>1, <1>2, ReleasedSize DEF Growth
<1>4. /\ held'["java local"] = {} /\ held'["java kept"] = held["java kept"]
      /\ held'["bedrock local"] = held["bedrock local"]
      /\ held'["bedrock packet"] = held["bedrock packet"]
      /\ held'["bedrock message"] = held["bedrock message"]
      /\ held'["bedrock parts"] = held["bedrock parts"]
      /\ held'["bedrock kept"] = held["bedrock kept"]
      /\ pc'["java"] = "idle" /\ pc'["bedrock"] = pc["bedrock"]
  BY <1>1 DEF IInv, TypeOK, Roles, Threads
<1>5. /\ Mine("java") \subseteq {login} /\ Mine("java")' = {}
      /\ Mine("bedrock")' = Mine("bedrock") /\ Kept' = Kept
  BY <1>1, <1>4 DEF Mine, Kept, Growth, Hands
<1>6. Hands'
  <2>1. AtMostOne(held["bedrock local"]) /\ AtMostOne(held["bedrock message"])
        /\ AtMostOne({})
    BY DEF Growth, Hands, AtMostOne
  <2> QED BY <1>1, <1>4, <2>1 DEF Growth, Hands
<1>9. Nesting'
  BY <1>1, <1>4 DEF Growth, Nesting
<1>7. Accounted'
  BY <1>3, <1>5 DEF Growth, Accounted
<1>8. Counts' /\ PoolGrowsByLossOnly'
  BY <1>1, <1>3, <1>4, <1>5, CountsShrink
<1> QED BY <1>6, <1>7, <1>8, <1>9 DEF Growth

LEMMA ReleasePacketGrowth ==
    ASSUME IInv, IInv', Growth, ReleasePacket
    PROVE  Growth'
<1>1. /\ pc["bedrock"] = "inflate end" /\ Released(packet)
      /\ held' = [held EXCEPT !["bedrock packet"] = @ \ {packet}]
      /\ pc' = [pc EXCEPT !["bedrock"] = Returned]
      /\ UNCHANGED <<lock, want, at, why, login, packets, framed>>
  BY DEF ReleasePacket, allocation
<1>2. packet \in 1 .. Len(pool)
  <2>1. Working
    BY <1>1 DEF Working, BedrockLocations
  <2> QED BY <2>1, PacketFields DEF IInv, Carried
<1>3. /\ Len(pool') = Len(pool) /\ pool'[packet].released
      /\ \A i \in 1 .. Len(pool) :
             /\ i # packet => pool'[i].released = pool[i].released
             /\ pool'[i].born = pool[i].born /\ pool'[i].cap >= pool'[i].born
  BY <1>1, <1>2, ReleasedSize DEF Growth
<1>4. /\ held'["java local"] = held["java local"] /\ held'["java kept"] = held["java kept"]
      /\ held'["bedrock local"] = held["bedrock local"]
      /\ held'["bedrock packet"] = held["bedrock packet"] \ {packet}
      /\ held'["bedrock message"] = held["bedrock message"]
      /\ held'["bedrock parts"] = held["bedrock parts"]
      /\ held'["bedrock kept"] = held["bedrock kept"]
      /\ pc'["java"] = pc["java"] /\ pc'["bedrock"] \in {"loop", "drop"}
  BY <1>1 DEF IInv, TypeOK, Roles, Threads, Returned
<1>5. held["bedrock local"] = {} /\ held["bedrock message"] = {}
  BY <1>1 DEF Growth, Hands
<1>6. /\ Mine("java")' = Mine("java") /\ Kept' = Kept
      /\ Mine("bedrock")' \subseteq Mine("bedrock")
      /\ Mine("bedrock") \subseteq Mine("bedrock")' \cup {packet}
  BY <1>1, <1>4, <1>5 DEF Mine, Kept
<1>7. Hands'
  <2>1. AtMostOne(held["java local"]) /\ AtMostOne({})
    BY DEF Growth, Hands, AtMostOne
  <2> QED BY <1>1, <1>4, <1>5, <2>1 DEF Growth, Hands
<1>10. Nesting'
  BY <1>1, <1>4 DEF Growth, Nesting
<1>8. Accounted'
  BY <1>3, <1>6 DEF Growth, Accounted
<1>9. Counts' /\ PoolGrowsByLossOnly'
  BY <1>1, <1>3, <1>4, <1>6, CountsShrink
<1> QED BY <1>7, <1>8, <1>9, <1>10 DEF Growth

\* A part that waits has gone from one hand to the other.
LEMMA StorePartGrowth ==
    ASSUME IInv, IInv', Growth, StorePart
    PROVE  Growth'
<1>1. /\ pc["bedrock"] = "part" /\ Cardinality(held["bedrock parts"]) < MaxParts
      /\ held' = [held EXCEPT !["bedrock parts"] = @ \cup held["bedrock local"],
                              !["bedrock local"] = {}]
      /\ pc' = [pc EXCEPT !["bedrock"] = "loop"]
      /\ UNCHANGED <<pool, lock, want, at, why, login, packets, framed, early>>
  BY DEF StorePart, allocation
<1>2. /\ held'["java local"] = held["java local"] /\ held'["java kept"] = held["java kept"]
      /\ held'["bedrock local"] = {}
      /\ held'["bedrock packet"] = held["bedrock packet"]
      /\ held'["bedrock message"] = held["bedrock message"]
      /\ held'["bedrock parts"] = held["bedrock parts"] \cup held["bedrock local"]
      /\ held'["bedrock kept"] = held["bedrock kept"]
      /\ pc'["java"] = pc["java"] /\ pc'["bedrock"] = "loop"
  BY <1>1 DEF IInv, TypeOK, Roles, Threads
<1>3. held["bedrock message"] = {}
  BY <1>1 DEF Growth, Hands
<1>4. Mine("java")' = Mine("java") /\ Kept' = Kept /\ Mine("bedrock")' = Mine("bedrock")
  BY <1>1, <1>2 DEF Mine, Kept
<1>5. Hands'
  <2>1. AtMostOne(held["java local"]) /\ AtMostOne({})
    BY DEF Growth, Hands, AtMostOne
  <2> QED BY <1>1, <1>2, <1>3, <2>1 DEF Growth, Hands
<1>6. Cardinality(held'["bedrock parts"]) <= MaxParts
  <2> DEFINE A == held["bedrock local"]
             D == held["bedrock parts"]
  <2>1. AtMostOne(A) /\ D \subseteq Buffers
    BY DEF Growth, Hands, IInv, TypeOK, Roles
  <2>2. Cardinality(D) < MaxParts /\ held'["bedrock parts"] = D \cup A
    BY <1>1, <1>2
  <2> HIDE DEF A, D
  <2>3. IsFiniteSet(A) /\ Cardinality(A) \in Nat /\ Cardinality(A) <= 1
    BY <2>1, Single
  <2>4. IsFiniteSet(D) /\ Cardinality(D) \in Nat
    BY <2>1, FiniteBuffers DEF IInv
  <2>5. Cardinality(D \cup A) \in Nat
        /\ Cardinality(D \cup A) <= Cardinality(D) + Cardinality(A)
    BY <2>3, <2>4, Join
  <2>6. MaxParts \in Nat
    BY PoolAssumption
  <2>7. Cardinality(D) + Cardinality(A) \in Nat /\ Cardinality(D) + Cardinality(A) <= MaxParts
    <3> DEFINE a == Cardinality(A)
               d == Cardinality(D)
    <3>1. a \in Nat /\ d \in Nat /\ a <= 1 /\ d < MaxParts /\ MaxParts \in Nat
      BY <2>2, <2>3, <2>4, <2>6
    <3> HIDE DEF a, d
    <3>2. d + a \in Nat /\ d + a <= MaxParts
      BY <3>1
    <3> QED BY <3>2 DEF a, d
  <2>8. Cardinality(D \cup A) <= MaxParts
    BY <2>5, <2>6, <2>7, AtMost
  <2> QED BY <2>2, <2>8
<1>7. Nesting'
  BY <1>1, <1>2, <1>6 DEF Growth, Nesting
<1>8. Accounted'
  BY <1>1, <1>4 DEF Growth, Accounted
<1>9. Counts' /\ PoolGrowsByLossOnly'
  BY <1>1, <1>2, <1>4, CountsShrink
<1> QED BY <1>5, <1>7, <1>8, <1>9 DEF Growth

LEMMA ReleasePartGrowth ==
    ASSUME IInv, IInv', Growth, ReleasePart
    PROVE  Growth'
<1>1. PICK b \in held["bedrock parts"] :
          /\ Released(b)
          /\ held' = [held EXCEPT !["bedrock parts"] = @ \ {b}]
  BY DEF ReleasePart
<1>2. /\ pc["bedrock"] = "whole"
      /\ UNCHANGED <<lock, pc, want, at, why, login, packets, framed, early>>
  BY DEF ReleasePart, allocation
<1>3. held["bedrock parts"] \subseteq Buffers /\ Buffers = 1 .. Len(pool)
  BY MineAreBuffers DEF Mine, Threads
<1>4. /\ Len(pool') = Len(pool) /\ pool'[b].released
      /\ \A i \in 1 .. Len(pool) :
             /\ i # b => pool'[i].released = pool[i].released
             /\ pool'[i].born = pool[i].born /\ pool'[i].cap >= pool'[i].born
  BY <1>1, <1>3, ReleasedSize DEF Growth
<1>5. /\ held'["java local"] = held["java local"] /\ held'["java kept"] = held["java kept"]
      /\ held'["bedrock local"] = held["bedrock local"]
      /\ held'["bedrock packet"] = held["bedrock packet"]
      /\ held'["bedrock message"] = held["bedrock message"]
      /\ held'["bedrock parts"] = held["bedrock parts"] \ {b}
      /\ held'["bedrock kept"] = held["bedrock kept"]
  BY <1>1 DEF IInv, TypeOK, Roles
<1>6. /\ Mine("java")' = Mine("java") /\ Kept' = Kept
      /\ Mine("bedrock")' \subseteq Mine("bedrock")
      /\ Mine("bedrock") \subseteq Mine("bedrock")' \cup {b}
  BY <1>2, <1>5 DEF Mine, Kept
<1>7. Hands'
  BY <1>2, <1>5 DEF Growth, Hands, AtMostOne
<1>8. Nesting'
  <2>1. IsFiniteSet(held["bedrock parts"]) /\ Cardinality(held["bedrock parts"]) \in Nat
    BY <1>3, FiniteBuffers DEF IInv
  <2>2. /\ IsFiniteSet(held'["bedrock parts"])
        /\ Cardinality(held'["bedrock parts"]) <= Cardinality(held["bedrock parts"])
    BY <1>5, <2>1, FS_Subset
  <2>3. Cardinality(held'["bedrock parts"]) \in Nat /\ MaxParts \in Nat
    BY <2>2, FS_CardinalityType, PoolAssumption
  <2>4. Cardinality(held["bedrock parts"]) <= MaxParts
    BY DEF Growth, Nesting
  <2>5. Cardinality(held'["bedrock parts"]) <= MaxParts
    BY <2>1, <2>2, <2>3, <2>4, AtMost
  <2> QED BY <1>2, <1>5, <2>5 DEF Growth, Nesting
<1>9. Accounted'
  BY <1>3, <1>4, <1>6 DEF Growth, Accounted
<1>10. Counts' /\ PoolGrowsByLossOnly'
  BY <1>2, <1>4, <1>6, CountsShrink
<1> QED BY <1>7, <1>8, <1>9, <1>10 DEF Growth

\* A packet that is forgotten is kept for good.
LEMMA DropGrowth ==
    ASSUME IInv, IInv', Growth, Drop
    PROVE  Growth'
<1> DEFINE n == Len(packets)
           l == IF n > 1 THEN "loop" ELSE "idle"
<1>1. /\ pc["bedrock"] = "drop"
      /\ held' = [held EXCEPT
                     !["bedrock kept"] = @ \cup ({packet} \cap held["bedrock packet"]),
                     !["bedrock packet"] = @ \ {packet}]
      /\ packets' = SubSeq(packets, 1, n - 1)
      /\ pc' = [pc EXCEPT !["bedrock"] = l]
      /\ UNCHANGED <<pool, lock, want, at, why, login, early>>
  BY DEF Drop, allocation
<1> HIDE DEF l
<1>2. /\ held'["java local"] = held["java local"] /\ held'["java kept"] = held["java kept"]
      /\ held'["bedrock local"] = held["bedrock local"]
      /\ held'["bedrock packet"] = held["bedrock packet"] \ {packet}
      /\ held'["bedrock message"] = held["bedrock message"]
      /\ held'["bedrock parts"] = held["bedrock parts"]
      /\ held'["bedrock kept"] = held["bedrock kept"] \cup ({packet} \cap held["bedrock packet"])
      /\ pc'["java"] = pc["java"] /\ pc'["bedrock"] = l
  BY <1>1 DEF IInv, TypeOK, Roles, Threads
<1>3. held["bedrock local"] = {} /\ held["bedrock message"] = {} /\ l \in {"loop", "idle"}
  BY <1>1 DEF Growth, Hands, l
<1>4. /\ Mine("java")' = Mine("java") /\ Kept \subseteq Kept'
      /\ Mine("bedrock")' \subseteq Mine("bedrock")
      /\ Mine("bedrock") \subseteq Mine("bedrock")' \cup Kept'
  BY <1>1, <1>2, <1>3 DEF Mine, Kept
<1>5. Hands'
  <2>1. AtMostOne(held["java local"]) /\ AtMostOne({})
    BY DEF Growth, Hands, AtMostOne
  <2> QED BY <1>1, <1>2, <1>3, <2>1 DEF Growth, Hands
<1>6. Nesting'
  <2>1. packets \in Seq(1 .. Len(pool)) /\ n \in Nat \ {0} /\ packet = packets[n]
    <3>1. packets # << >>
      BY <1>1 DEF IInv, Carried, Forgetting
    <3> QED BY <3>1, PacketFields DEF IInv, packet
  <2>2. /\ Len(packets') = n - 1
        /\ \A i \in 1 .. n - 1 : packets'[i] = packets[i]
    <3>1. n = Len(packets)
      OBVIOUS
    <3> HIDE DEF n
    <3> QED BY <1>1, <2>1, <3>1, FrontProperties
  <2>3. held'["bedrock packet"] \subseteq {packets'[i] : i \in 1 .. Len(packets')}
    <3> SUFFICES ASSUME NEW x \in held'["bedrock packet"]
                 PROVE  \E i \in 1 .. Len(packets') : x = packets'[i]
      OBVIOUS
    <3>1. x # packet /\ x \in held["bedrock packet"]
      BY <1>2
    <3>2. PICK i \in 1 .. n : x = packets[i]
      BY <3>1 DEF Growth, Nesting
    <3>3. i # n
      BY <2>1, <3>1, <3>2
    <3> HIDE DEF n
    <3>4. i \in 1 .. n - 1
      BY <2>1, <3>2, <3>3, OneLess
    <3> QED BY <2>2, <3>2, <3>4
  <2>4. Len(packets') <= 1 + MaxNested
    <3>1. n <= 1 + MaxNested /\ MaxNested \in Nat
      BY PoolAssumption DEF Growth, Nesting
    <3> HIDE DEF n
    <3> QED BY <2>1, <2>2, <3>1
  <2>5. pc'["bedrock"] \notin {"lock", "scan", "take"}
    BY <1>2, <1>3
  <2>6. Cardinality(held'["bedrock parts"]) <= MaxParts
    BY <1>2 DEF Growth, Nesting
  <2> QED BY <2>3, <2>4, <2>5, <2>6 DEF Nesting
<1>7. Accounted'
  BY <1>1, <1>4 DEF Growth, Accounted
<1>8. Counts' /\ PoolGrowsByLossOnly'
  BY <1>1, <1>2, <1>3, <1>4, CountsShrink
<1> QED BY <1>5, <1>6, <1>7, <1>8 DEF Growth

-----------------------------------------------------------------------------
(* The whole specification                                                  *)

LEMMA StartsSmall == Init => Growth
<1> SUFFICES ASSUME Init PROVE Growth
  OBVIOUS
<1> USE DEF Init
<1>1. Hands /\ Nesting
  <2>1. Hands
    BY DEF Hands, AtMostOne, Roles, Threads
  <2>2. /\ held["bedrock packet"] = {} /\ held["bedrock parts"] = {}
        /\ pc["bedrock"] = "idle" /\ Len(packets) = 0
    BY EmptySeq DEF Roles, Threads
  <2>3. Cardinality({}) = 0
    BY FS_EmptySet
  <2>4. MaxNested \in Nat /\ MaxParts \in Nat
    BY PoolAssumption
  <2>5. Len(packets) <= 1 + MaxNested /\ Cardinality(held["bedrock parts"]) <= MaxParts
    <3> HIDE DEF Init
    <3>1. Cardinality(held["bedrock parts"]) = 0
      BY <2>2, <2>3
    <3>2. 0 <= MaxParts /\ 0 <= 1 + MaxNested
      BY <2>4
    <3> QED BY <2>2, <3>1, <3>2
  <2> QED BY <2>1, <2>2, <2>5 DEF Nesting
<1>2. Len(pool) = 0
  BY EmptySeq
<1>3. Accounted
  BY <1>2 DEF Accounted
<1>4. Counts
  BY DEF Counts, Threads
<1>5. PoolGrowsByLossOnly
  <2> SUFFICES ASSUME NEW n \in Sizes
               PROVE  Cardinality({b \in Buffers \ Kept : pool[b].born = n}) <= Limit
    BY DEF PoolGrowsByLossOnly, Limit
  <2> DEFINE S == {b \in Buffers \ Kept : pool[b].born = n}
  <2>1. S = {}
    BY DEF Buffers
  <2> HIDE DEF S, Init
  <2>2. Cardinality(S) = 0
    BY <2>1, FS_EmptySet
  <2>3. Cardinality(S) <= Limit
    BY <2>2, Limits
  <2> QED BY <2>3 DEF S
<1> QED BY <1>1, <1>3, <1>4, <1>5 DEF Growth

LEMMA AllocateGrowth ==
    ASSUME IInv, IInv', Growth, NEW t \in Threads, Allocate(t)
    PROVE  Growth'
  BY LockGrowth, ScanGrowth, TakeGrowth, CreateGrowth DEF Allocate

LEMMA JavaGrowth ==
    ASSUME IInv, IInv', Growth, Java
    PROVE  Growth'
<1>0. "java" \in Threads
  BY DEF Threads
<1>1. CASE Allocate("java")
  BY <1>0, <1>1, AllocateGrowth
<1>2. CASE JavaReplies \/ JavaKeeps \/ Connect
  <2>1. PICK p \in JavaPurposes :
            AskedAt("java", p) /\ Ask("java", p) /\ UNCHANGED <<held, login, packets, framed, early>>
    BY <1>2 DEF JavaReplies, JavaKeeps, Connect, JavaPurposes, AskedAt
  <2> QED BY <1>0, <2>1, AskGrowth
<1>3. CASE JavaReplied
  <2>1. pc["java"] = "reply" /\ Release("java", "java local", "idle")
    BY <1>3 DEF JavaReplied
  <2>2. ReleasedAt("java", "java local", "idle")
    BY <2>1 DEF ReleasedAt
  <2> QED BY <1>0, <2>1, <2>2, ReleaseGrowth
<1>4. CASE ReleaseFirst
  <2>1. ReleasedAt("java", "java local", "again") /\ Release("java", "java local", "again")
    BY <1>4 DEF ReleaseFirst, ReleasedAt
  <2> QED BY <1>0, <2>1, ReleaseGrowth
<1> QED BY <1>1, <1>2, <1>3, <1>4, UseAgainGrowth, ReleaseSecondGrowth DEF Java

LEMMA BedrockGrowth ==
    ASSUME IInv, IInv', Growth, Bedrock
    PROVE  Growth'
<1> DEFINE Asks == \E p : /\ AskedAt("bedrock", p) /\ Ask("bedrock", p)
                          /\ UNCHANGED <<held, login, packets, framed, early>>
           Moves == \E l \in {"loop", "drop", "frame", "content"} :
                       /\ pc["bedrock"] \in {"packet", "content", "refusal", "frame", "loop"}
                       /\ pc' = [pc EXCEPT !["bedrock"] = l]
                       /\ UNCHANGED <<pool, lock, allocation, held, login, packets, early>>
           Releases == \E role, l :
                          ReleasedAt("bedrock", role, l) /\ Release("bedrock", role, l)
<1>0. "bedrock" \in Threads /\ Returned \in {"loop", "drop"}
  BY DEF Threads, Returned
<1>1. CASE Allocate("bedrock")
  BY <1>0, <1>1, AllocateGrowth
<1>2. CASE Asks
  BY <1>0, <1>2, AskGrowth
<1>3. CASE Moves
  BY <1>3, MoveGrowth
<1>4. CASE Releases
  BY <1>0, <1>4, ReleaseGrowth
<1>5. ReceiveDatagram \/ Answer \/ Request \/ Inflate \/ Kick \/ Part \/ Whole => Asks
  BY DEF ReceiveDatagram, Answer, Request, Inflate, Kick, Part, Whole, Handling, AskedAt
<1>6. Frame => Asks \/ Moves
  BY DEF Frame, AskedAt
<1>7. Ignore \/ FrameSet \/ NextFrame => Moves
  BY <1>0 DEF Ignore, Handling, FrameSet, NextFrame
<1>8. Answered => Releases \/ Moves
  BY <1>0 DEF Answered, ReleasedAt
<1>9. Requested \/ Kicked \/ ReleaseInflated \/ Acknowledged \/ HandleWhole => Releases
  BY <1>0 DEF Requested, Kicked, ReleaseInflated, Acknowledged, HandleWhole, ReleasedAt
<1> HIDE DEF Asks, Moves, Releases
<1> QED BY <1>1, <1>2, <1>3, <1>4, <1>5, <1>6, <1>7, <1>8, <1>9,
           ReleasePacketGrowth, StorePartGrowth, ReleasePartGrowth, DropGrowth
       DEF Bedrock

LEMMA GrowthStep == IInv /\ Growth /\ [Next]_vars => Growth'
<1> SUFFICES ASSUME IInv, Growth, [Next]_vars PROVE Growth'
  OBVIOUS
<1>1. IInv'
  BY StepsKeepOwned
<1>2. CASE Next
  BY <1>1, <1>2, JavaGrowth, BedrockGrowth DEF Next
<1>3. CASE UNCHANGED vars
  <2>1. /\ UNCHANGED <<pool, pc, want, at, why, held, login, packets>>
    BY <1>3 DEF vars, allocation
  <2>2. /\ \A t \in Threads : Mine(t)' = Mine(t) /\ Passed(t)' = Passed(t)
        /\ Kept' = Kept /\ Buffers' = Buffers
    BY <2>1 DEF Mine, Passed, Kept, Buffers
  <2>3. Hands' /\ Nesting' /\ Accounted'
    BY <2>1, <2>2 DEF Growth, Hands, Nesting, Accounted, Threads
  <2>4. Counts'
    BY <2>1, <2>2 DEF Growth, Counts, Threads, Other
  <2>5. PoolGrowsByLossOnly'
    BY <2>1, <2>2 DEF Growth, PoolGrowsByLossOnly
  <2> QED BY <2>3, <2>4, <2>5 DEF Growth
<1> QED BY <1>2, <1>3

\* Whatever the sizes and however often buffers are reused: besides those that
\* were lost the pool holds at most four buffers made for a size, and one for
\* each packet handled within another and each fragment that waits.  The lock
\* is what makes it so: while one thread searches, the other may give buffers
\* back behind it, but can take none, so that what the search has passed was in
\* the hands of one of the two when it began.
THEOREM PoolIsBounded == Spec => []PoolGrowsByLossOnly
<1>1. Init => IInv /\ Growth
  BY StartsOwned, StartsSmall
<1>2. IInv /\ Growth /\ [Next]_vars => (IInv /\ Growth)'
  BY StepsKeepOwned, GrowthStep
<1>3. Growth => PoolGrowsByLossOnly
  BY DEF Growth
<1> QED BY <1>1, <1>2, <1>3, PTL DEF Spec
=============================================================================
