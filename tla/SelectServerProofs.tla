------------------------- MODULE SelectServerProofs -------------------------
(***************************************************************************)
(* Proofs about SelectServer for any number of sessions, sockets and bytes.*)
(***************************************************************************)
EXTENDS SelectServer, FiniteSetTheorems, TLAPS

LEMMA Sizes ==
  /\ MAX_SESSION \in Nat /\ MAX_SESSION >= 1
  /\ FD_SETSIZE \in Nat
  /\ RecvCapacity \in Nat /\ SendCapacity \in Nat /\ SendCapacity > 0 /\ IDLE_TIMEOUT \in Nat
  /\ NoSid \notin Sid /\ MAX_SESSION \notin Sid /\ 0 \in Sid
  /\ \A s \in Sid : s \in 0 .. MAX_SESSION
  /\ NoSocket \notin Socket
BY SocketAssumption, PoolAssumption, BufferAssumption DEF Sid

(***************************************************************************)
(* The inductive invariant                                                 *)
(***************************************************************************)
Types ==
  /\ TypeOK
  /\ recv_buf \in [Sid -> Seq(Byte)]
  /\ stream \in [Sid -> Byte \cup {PacketEnd}]

(* Which session update() is with, and when select() has sockets to report *)
Phases ==
  /\ pc \in {"process", "clean"} => cur \in Sid
  /\ pc \notin {"read", "process"} => readfds = {}
  /\ pc \notin {"read", "process", "write"} => writefds = {}

(* Every socket that select() reported is that of a session, and every     *)
(* writable one that of a session that has something to send.              *)
Reported ==
  /\ \A k \in readfds \cup writefds : \E s \in Sid : sock[s] = k
  /\ \A s \in Sid : sock[s] \in writefds => send_buf[s] > 0

IInv == Types /\ Phases /\ PoolExact /\ TableMatches /\ Reported

(***************************************************************************)
(* What the Game may do                                                    *)
(***************************************************************************)
LEMMA GameCallsBounded ==
  ASSUME NEW socks, NEW flags \in [Sid -> BOOLEAN], NEW bufs \in [Sid -> 0 .. SendCapacity],
         GameCalls(socks, flags, bufs)
  PROVE  /\ alive' \in [Sid -> BOOLEAN]
         /\ send_buf' \in [Sid -> 0 .. SendCapacity]
         /\ \A s \in Sid : (alive'[s] => flags[s]) /\ send_buf'[s] >= bufs[s]
<1>1. PICK messages \in [Sid -> 0 .. SendCapacity + 1], kicked \in SUBSET Sid :
        LET sent(s) == IF flags[s] /\ socks[s] # NoSocket THEN messages[s] ELSE 0
            fit(s) == sent(s) <= Room(s, bufs[s])
        IN  /\ alive' = [s \in Sid |-> flags[s] /\ s \notin kicked /\ fit(s)]
            /\ send_buf' = [s \in Sid |-> bufs[s] + IF fit(s) THEN sent(s) ELSE Room(s, bufs[s])]
  BY Zenon DEF GameCalls
<1> DEFINE sent(s) == IF flags[s] /\ socks[s] # NoSocket THEN messages[s] ELSE 0
           fit(s) == sent(s) <= Room(s, bufs[s])
           added(s) == IF fit(s) THEN sent(s) ELSE Room(s, bufs[s])
<1>2. ASSUME NEW s \in Sid PROVE added(s) \in 0 .. SendCapacity - bufs[s]
  BY Sizes DEF Room
<1>3. ASSUME NEW s \in Sid PROVE bufs[s] + added(s) \in 0 .. SendCapacity /\ bufs[s] + added(s) >= bufs[s]
  <2>1. bufs[s] \in 0 .. SendCapacity  OBVIOUS
  <2> HIDE DEF added
  <2> QED  BY <1>2, <2>1, Sizes
<1>4. /\ alive' = [s \in Sid |-> flags[s] /\ s \notin kicked /\ fit(s)]
      /\ send_buf' = [s \in Sid |-> bufs[s] + added(s)]
  BY <1>1
<1> HIDE DEF fit, added
<1>5. alive' \in [Sid -> BOOLEAN] /\ \A s \in Sid : alive'[s] => flags[s]
  BY <1>4
<1>6. send_buf' \in [Sid -> 0 .. SendCapacity] /\ \A s \in Sid : send_buf'[s] >= bufs[s]
  BY <1>3, <1>4
<1> QED  BY <1>5, <1>6

(***************************************************************************)
(* The pool has room for the id of a session that is in use.               *)
(***************************************************************************)
LEMMA RoomInPool ==
  ASSUME Types, PoolExact, pc # "closed", NEW s \in Sid, sock[s] # NoSocket
  PROVE  next_sid < MAX_SESSION
<1> DEFINE f == [i \in 1 .. next_sid |-> free_sids[i]]
<1>1. next_sid \in 0 .. MAX_SESSION /\ next_sid \in Nat
  BY Sizes DEF Types, TypeOK
<1>2. f \in [1 .. next_sid -> Sid \ {s}]
  BY DEF PoolExact
<1>3. f \in Injection(1 .. next_sid, Sid \ {s})
  BY <1>2 DEF PoolExact, Injection, IsInjective
<1>4. IsFiniteSet(Sid) /\ Cardinality(Sid) = MAX_SESSION
  <2>1. 0 \in Int /\ MAX_SESSION - 1 \in Int /\ 0 <= MAX_SESSION - 1
    BY Sizes
  <2> QED  BY <2>1, FS_Interval, Sizes DEF Sid
<1>5. IsFiniteSet(Sid \ {s}) /\ Cardinality(Sid \ {s}) = MAX_SESSION - 1
  BY <1>4, FS_RemoveElement
<1>6. Cardinality(1 .. next_sid) <= MAX_SESSION - 1
  <2> HIDE DEF f
  <2> QED  BY <1>3, <1>5, FS_Injection
<1>7. Cardinality(1 .. next_sid) = next_sid
  BY <1>1, FS_Interval
<1> QED  BY <1>1, <1>6, <1>7, Sizes

(***************************************************************************)
(* Types                                                                   *)
(***************************************************************************)
LEMMA TypesInit == Init => Types
<1> SUFFICES ASSUME Init PROVE Types  OBVIOUS
<1> USE Sizes DEF Init
<1>1. free_sids \in [0 .. MAX_SESSION -> 0 .. MAX_SESSION]
  <2>1. \A i \in 0 .. MAX_SESSION : MAX_SESSION - i \in 0 .. MAX_SESSION  OBVIOUS
  <2> QED  BY <2>1
<1>2. /\ pc \in Label /\ cur \in Sid \cup {NoSid} /\ first \in Nat
      /\ readfds \subseteq Socket /\ writefds \subseteq Socket
      /\ next_sid \in 0 .. MAX_SESSION
  BY DEF Label
<1>3. /\ socket_to_sid_table \in [Socket -> Sid \cup {NoSid}]
      /\ sock \in [Sid -> Socket \cup {NoSocket}] /\ alive \in [Sid -> BOOLEAN]
      /\ memory \subseteq Sid
  OBVIOUS
<1>4. /\ recv_buf \in [Sid -> Seq(Byte)] /\ \A s \in Sid : Len(recv_buf[s]) <= RecvCapacity
      /\ stream \in [Sid -> Byte \cup {PacketEnd}]
  OBVIOUS
<1>5. send_buf \in [Sid -> 0 .. SendCapacity] /\ silent \in [Sid -> 0 .. IDLE_TIMEOUT + 1]
  OBVIOUS
<1> QED  BY <1>1, <1>2, <1>3, <1>4, <1>5 DEF Types, TypeOK

LEMMA ByteNumber == \A b \in Byte : b[2] \in Nat
BY Sizes, BufferAssumption DEF Byte, Code, HeaderSize

LEMMA CleanMovesOn ==
  ASSUME cur \in 0 .. MAX_SESSION - 1, pc = "clean", NextToClean
  PROVE  \/ pc' = "game" /\ cur' = NoSid
         \/ pc' = "clean" /\ cur' \in Sid
<1>1. CASE cur >= LastSid  BY <1>1 DEF NextToClean
<1>2. CASE ~(cur >= LastSid)
  <2>1. cur' = cur + 1 /\ pc' = pc
    BY <1>2 DEF NextToClean
  <2> QED  BY <1>2, <2>1, Sizes DEF LastSid, Sid
<1> QED  BY <1>1, <1>2

LEMMA TypesStep ==
  ASSUME Types, Phases, PoolExact, TableMatches, Reported, [Next]_vars
  PROVE  Types'
<1> USE DEF Types, TypeOK, Label
<1>1. CASE Update
  <2>1. PICK passed \in {0, 1} :
          silent' = [s \in Sid |-> IF sock[s] # NoSocket /\ silent[s] <= IDLE_TIMEOUT
                                   THEN silent[s] + passed ELSE silent[s]]
    BY <1>1 DEF Update
  <2>2. silent' \in [Sid -> 0 .. IDLE_TIMEOUT + 1]
    <3>1. silent \in [Sid -> 0 .. IDLE_TIMEOUT + 1] /\ passed \in {0, 1} /\ IDLE_TIMEOUT \in Nat
      BY Sizes
    <3>2. ASSUME NEW s \in Sid PROVE silent'[s] \in 0 .. IDLE_TIMEOUT + 1
      <4> HIDE DEF Types, TypeOK
      <4>1. silent'[s] = IF sock[s] # NoSocket /\ silent[s] <= IDLE_TIMEOUT
                         THEN silent[s] + passed ELSE silent[s]
        BY <2>1
      <4> QED  BY <3>1, <4>1
    <3> QED  BY <2>1, <3>2
  <2> QED  BY <1>1, <2>2 DEF Update, batchVars, poolVars
<1>2. CASE PollListen  BY <1>2 DEF PollListen, poolVars, dataVars
<1>3. CASE AcceptNone  BY <1>3 DEF AcceptNone, poolVars, dataVars
<1>4. CASE Reject  BY <1>4 DEF Reject, batchVars, poolVars, dataVars
<1>5. CASE Accept
  <2>1. PICK k \in Socket, s \in Sid :
          /\ s = free_sids[next_sid]
          /\ socket_to_sid_table' = IF socket_to_sid_table[k] = NoSid
                                    THEN [socket_to_sid_table EXCEPT ![k] = s]
                                    ELSE socket_to_sid_table
          /\ sock' = [sock EXCEPT ![s] = k]
          /\ recv_buf' = Cleared(recv_buf, s, << >>)
          /\ silent' = [silent EXCEPT ![s] = 0]
          /\ stream' = [stream EXCEPT ![s] = PacketEnd]
          /\ GameCalls(sock', [alive EXCEPT ![s] = TRUE], Cleared(send_buf, s, 0))
    BY <1>5, Zenon DEF Accept
  <2>2. /\ alive' \in [Sid -> BOOLEAN] /\ send_buf' \in [Sid -> 0 .. SendCapacity]
    <3>1. [alive EXCEPT ![s] = TRUE] \in [Sid -> BOOLEAN]  OBVIOUS
    <3>2. Cleared(send_buf, s, 0) \in [Sid -> 0 .. SendCapacity]
      BY Sizes DEF Cleared
    <3> QED  BY <2>1, <3>1, <3>2, GameCallsBounded, Zenon
  <2>3. /\ socket_to_sid_table' \in [Socket -> Sid \cup {NoSid}]
        /\ sock' \in [Sid -> Socket \cup {NoSocket}]
    BY <2>1
  <2>4. /\ recv_buf' \in [Sid -> Seq(Byte)] /\ \A x \in Sid : Len(recv_buf'[x]) <= RecvCapacity
        /\ stream' \in [Sid -> Byte \cup {PacketEnd}]
        /\ silent' \in [Sid -> 0 .. IDLE_TIMEOUT + 1]
    <3>1. << >> \in Seq(Byte) /\ Len(<< >>) <= RecvCapacity /\ 0 \in 0 .. IDLE_TIMEOUT + 1
      BY Sizes
    <3> QED  BY <2>1, <3>1 DEF Cleared
  <2>5. next_sid' \in 0 .. MAX_SESSION
    <3>1. next_sid # 0
      BY <1>5 DEF Accept, Full, PoolExact
    <3> QED  BY <1>5, <3>1, Sizes DEF Accept
  <2>6. UNCHANGED <<pc, cur, batchVars, free_sids, memory>>
    BY <1>5, Zenon DEF Accept
  <2> QED  BY <2>2, <2>3, <2>4, <2>5, <2>6 DEF batchVars
<1>6. CASE Select
  <2>1. readfds' \subseteq Socket /\ writefds' \subseteq Socket
    BY <1>6 DEF Select, Batch
  <2>2. pc' \in {"read", "idle"}
        /\ UNCHANGED <<first, cur, poolVars, sock, alive, send_buf, dataVars, memory>>
    BY <1>6 DEF Select
  <2> QED  BY <2>1, <2>2 DEF poolVars, dataVars
<1>7. CASE Receive
  <2>1. PICK k \in readfds :
        LET s == socket_to_sid_table[k]
        IN  /\ readfds' = readfds \ {k}
            /\ \/ /\ alive' = [alive EXCEPT ![s] = FALSE]
                  /\ UNCHANGED <<pc, cur, dataVars>>
               \/ /\ Free_size(s) > 0
                  /\ UNCHANGED <<pc, cur, alive, dataVars>>
               \/ \E n \in 1 .. Free_size(s) : \E bytes \in Sendings(s, n) :
                    /\ recv_buf' = [recv_buf EXCEPT ![s] = @ \o bytes]
                    /\ stream' = [stream EXCEPT ![s] = bytes[n]]
                    /\ silent' = [silent EXCEPT ![s] = 0]
                    /\ pc' = "process" /\ cur' = s
                    /\ UNCHANGED alive
    BY <1>7, Zenon DEF Receive
  <2>2. UNCHANGED <<first, writefds, poolVars, sock, send_buf, memory>>
    BY <1>7, Zenon DEF Receive
  <2> DEFINE s == socket_to_sid_table[k]
  <2>3. CASE UNCHANGED <<pc, cur, dataVars>>
             /\ (alive' = [alive EXCEPT ![s] = FALSE] \/ alive' = alive)
    BY <2>1, <2>2, <2>3 DEF poolVars, dataVars
  <2>4. CASE \E n \in 1 .. Free_size(s) : \E bytes \in Sendings(s, n) :
                    /\ recv_buf' = [recv_buf EXCEPT ![s] = @ \o bytes]
                    /\ stream' = [stream EXCEPT ![s] = bytes[n]]
                    /\ silent' = [silent EXCEPT ![s] = 0]
                    /\ pc' = "process" /\ cur' = s
                    /\ UNCHANGED alive
    <3>0. PICK n \in 1 .. Free_size(s) : \E bytes \in Sendings(s, n) :
                    /\ recv_buf' = [recv_buf EXCEPT ![s] = @ \o bytes]
                    /\ stream' = [stream EXCEPT ![s] = bytes[n]]
                    /\ silent' = [silent EXCEPT ![s] = 0]
                    /\ pc' = "process" /\ cur' = s
                    /\ UNCHANGED alive
      BY <2>4
    <3>1. PICK bytes \in Sendings(s, n) :
                    /\ recv_buf' = [recv_buf EXCEPT ![s] = @ \o bytes]
                    /\ stream' = [stream EXCEPT ![s] = bytes[n]]
                    /\ silent' = [silent EXCEPT ![s] = 0]
                    /\ pc' = "process" /\ cur' = s
                    /\ UNCHANGED alive
      BY <3>0
    <3>2. s \in Sid
      BY <1>7 DEF Receive, Reported, TableMatches
    <3>3. /\ n \in Nat /\ n >= 1 /\ n <= RecvCapacity - Len(recv_buf[s])
          /\ recv_buf[s] \in Seq(Byte)
      <4>1. recv_buf[s] \in Seq(Byte)
        BY <3>2
      <4>2. Len(recv_buf[s]) \in Nat
        BY <4>1
      <4>3. Free_size(s) = RecvCapacity - Len(recv_buf[s]) \/ Free_size(s) = 0
        BY DEF Free_size
      <4> HIDE DEF s, Types, TypeOK
      <4> QED  BY <4>1, <4>2, <4>3, Sizes
    <3>4. bytes \in Seq(Byte) /\ Len(bytes) = n
      BY <3>3 DEF Sendings
    <3>5. /\ recv_buf[s] \o bytes \in Seq(Byte)
          /\ Len(recv_buf[s] \o bytes) <= RecvCapacity
          /\ bytes[n] \in Byte
      <4> HIDE DEF s, Types, TypeOK
      <4>1. recv_buf[s] \o bytes \in Seq(Byte)
        BY <3>3, <3>4
      <4>2. Len(recv_buf[s] \o bytes) = Len(recv_buf[s]) + n
        BY <3>3, <3>4
      <4>3. Len(recv_buf[s]) \in Nat
        BY <3>3
      <4>4. Len(recv_buf[s] \o bytes) <= RecvCapacity
        BY <3>3, <4>2, <4>3, Sizes
      <4>5. bytes[n] \in Byte
        BY <3>3, <3>4
      <4> QED  BY <4>1, <4>4, <4>5
    <3>6. /\ recv_buf' \in [Sid -> Seq(Byte)] /\ \A x \in Sid : Len(recv_buf'[x]) <= RecvCapacity
          /\ stream' \in [Sid -> Byte \cup {PacketEnd}]
          /\ silent' \in [Sid -> 0 .. IDLE_TIMEOUT + 1]
      <4> HIDE DEF s
      <4> QED  BY <3>1, <3>2, <3>5, Sizes
    <3> QED  BY <2>1, <2>2, <3>1, <3>2, <3>6 DEF poolVars
  <2> QED  BY <2>1, <2>3, <2>4, Zenon
<1>8. CASE Process
  <2> DEFINE n == Packet_size(cur)
  <2>1. /\ cur \in Sid /\ Len(recv_buf[cur]) >= n /\ recv_buf[cur] \in Seq(Byte)
    BY <1>8 DEF Process, Phases, MoreComes
  <2>2. n + 1 \in Nat \ {0} /\ n \in Nat
    <3>1. recv_buf[cur][2] \in Byte
      BY <1>8, <2>1 DEF Process, MoreComes, HeaderSize
    <3>2. recv_buf[cur][2][2] \in Nat
      BY <3>1, ByteNumber
    <3>3. n = 2 + recv_buf[cur][2][2]
      BY DEF Packet_size, HeaderSize
    <3> HIDE DEF n, Types, TypeOK
    <3> QED  BY <3>2, <3>3
  <2>3. /\ SubSeq(recv_buf[cur], n + 1, Len(recv_buf[cur])) \in Seq(Byte)
        /\ Len(SubSeq(recv_buf[cur], n + 1, Len(recv_buf[cur]))) <= RecvCapacity
    <3>1. Len(recv_buf[cur]) <= RecvCapacity
      BY <2>1
    <3> HIDE DEF n, Types, TypeOK
    <3>2. SubSeq(recv_buf[cur], n + 1, Len(recv_buf[cur])) \in Seq(Byte)
      BY <2>1, <2>2
    <3>3. Len(SubSeq(recv_buf[cur], n + 1, Len(recv_buf[cur]))) = Len(recv_buf[cur]) - n
      BY <2>1, <2>2
    <3> QED  BY <2>1, <2>2, <3>1, <3>2, <3>3, Sizes
  <2>4. /\ recv_buf' \in [Sid -> Seq(Byte)]
        /\ \A x \in Sid : Len(recv_buf'[x]) <= RecvCapacity
    <3>1. recv_buf' = [recv_buf EXCEPT ![cur] = SubSeq(recv_buf[cur], n + 1, Len(recv_buf[cur]))]
      BY <1>8, Zenon DEF Process
    <3> HIDE DEF n
    <3> QED  BY <2>1, <2>3, <3>1
  <2>5. alive' \in [Sid -> BOOLEAN] /\ send_buf' \in [Sid -> 0 .. SendCapacity]
    BY <1>8, GameCallsBounded, Zenon DEF Process
  <2> QED  BY <1>8, <2>4, <2>5 DEF Process, batchVars, poolVars
<1>9. CASE Processed  BY <1>9 DEF Processed, batchVars, poolVars, dataVars
<1>10. CASE ReadsDone  BY <1>10 DEF ReadsDone, batchVars, poolVars, dataVars
<1>11. CASE Send
  <2>1. PICK k \in writefds :
        LET s == socket_to_sid_table[k]
        IN  /\ writefds' = writefds \ {k}
            /\ \/ alive' = alive \/ alive' = [alive EXCEPT ![s] = FALSE]
            /\ \/ send_buf' = send_buf
               \/ \E n \in 0 .. send_buf[s] : send_buf' = [send_buf EXCEPT ![s] = @ - n]
    BY <1>11, Zenon DEF Send
  <2> DEFINE s == socket_to_sid_table[k]
  <2>2. s \in Sid
    BY <1>11 DEF Send, Reported, TableMatches
  <2>3. send_buf' \in [Sid -> 0 .. SendCapacity]
    <3> HIDE DEF s
    <3>1. send_buf[s] \in 0 .. SendCapacity
      BY <2>2
    <3>2. CASE send_buf' = send_buf
      BY <3>2
    <3>3. CASE \E n \in 0 .. send_buf[s] : send_buf' = [send_buf EXCEPT ![s] = @ - n]
      <4>1. PICK n \in 0 .. send_buf[s] : send_buf' = [send_buf EXCEPT ![s] = @ - n]
        BY <3>3
      <4>2. send_buf[s] - n \in 0 .. SendCapacity
        <5> HIDE DEF Types, TypeOK
        <5> QED  BY <3>1, Sizes
      <4> QED  BY <2>2, <4>1, <4>2
    <3> QED  BY <2>1, <3>2, <3>3 DEF s
  <2>4. alive' \in [Sid -> BOOLEAN]
    BY <2>1
  <2> QED  BY <1>11, <2>1, <2>3, <2>4 DEF Send, poolVars, dataVars
<1>12. CASE WritesDone
  <2>1. first' \in Nat
    BY <1>12, Sizes DEF WritesDone
  <2> QED  BY <1>12, <2>1 DEF WritesDone, poolVars, dataVars
<1>13. CASE CheckIdle  BY <1>13, Sizes DEF CheckIdle, poolVars, dataVars
<1>14. CASE CleanDead
  <2>1. cur \in Sid
    BY <1>14 DEF CleanDead, Phases
  <2>2. cur \in 0 .. MAX_SESSION - 1
    BY <2>1 DEF Sid
  <2>3. pc' \in Label /\ cur' \in Sid \cup {NoSid}
    <3>1. NextToClean
      BY <1>14 DEF CleanDead
    <3> QED  BY <1>14, <2>2, <3>1, CleanMovesOn DEF CleanDead
  <2>4. next_sid + 1 \in 0 .. MAX_SESSION
    <3>1. next_sid < MAX_SESSION
      BY <1>14, <2>1, RoomInPool DEF CleanDead
    <3> QED  BY <3>1, Sizes
  <2>5. next_sid' \in 0 .. MAX_SESSION /\ free_sids' \in [0 .. MAX_SESSION -> 0 .. MAX_SESSION]
    BY <1>14, <2>1, <2>4, Sizes DEF CleanDead, Pushed
  <2>6. /\ socket_to_sid_table' \in [Socket -> Sid \cup {NoSid}]
        /\ sock' \in [Sid -> Socket \cup {NoSocket}]
    BY <1>14, <2>1 DEF CleanDead, Unregistered
  <2>7. alive' \in [Sid -> BOOLEAN] /\ send_buf' \in [Sid -> 0 .. SendCapacity]
    <3>1. Cleared(send_buf, cur, 0) \in [Sid -> 0 .. SendCapacity]
      <4> 0 \in 0 .. SendCapacity  BY Sizes
      <4> QED  BY DEF Cleared
    <3> QED  BY <1>14, <3>1, GameCallsBounded, Zenon DEF CleanDead
  <2>8. /\ recv_buf' \in [Sid -> Seq(Byte)] /\ \A x \in Sid : Len(recv_buf'[x]) <= RecvCapacity
        /\ silent' \in [Sid -> 0 .. IDLE_TIMEOUT + 1]
    <3>1. /\ << >> \in Seq(Byte) /\ Len(<< >>) <= RecvCapacity
          /\ 0 \in 0 .. IDLE_TIMEOUT + 1
      BY Sizes
    <3>2. /\ recv_buf' = [recv_buf EXCEPT ![cur] = << >>]
          /\ silent' = [silent EXCEPT ![cur] = 0]
      BY <1>14, Zenon DEF CleanDead, Cleared
    <3> QED  BY <2>1, <3>1, <3>2
  <2> QED  BY <1>14, <2>3, <2>5, <2>6, <2>7, <2>8 DEF CleanDead, batchVars
<1>15. CASE CleanOther
  <2>1. cur \in Sid /\ cur \in 0 .. MAX_SESSION - 1
    BY <1>15 DEF CleanOther, Phases, Sid
  <2>2. pc' \in Label /\ cur' \in Sid \cup {NoSid}
    <3>1. NextToClean
      BY <1>15 DEF CleanOther
    <3> QED  BY <1>15, <2>1, <3>1, CleanMovesOn DEF CleanOther
  <2> QED  BY <1>15, <2>2 DEF CleanOther, batchVars, poolVars, dataVars
<1>16. CASE GameUpdate
  <2>1. alive' \in [Sid -> BOOLEAN] /\ send_buf' \in [Sid -> 0 .. SendCapacity]
    BY <1>16, GameCallsBounded, Zenon DEF GameUpdate
  <2> QED  BY <1>16, <2>1 DEF GameUpdate, batchVars, poolVars, dataVars
<1>17. CASE Shutdown  BY <1>17 DEF Shutdown, batchVars, poolVars, dataVars
<1>18. CASE UNCHANGED vars  BY <1>18 DEF vars, batchVars, poolVars, dataVars
<1> QED
  BY <1>1, <1>2, <1>3, <1>4, <1>5, <1>6, <1>7, <1>8, <1>9, <1>10, <1>11, <1>12,
     <1>13, <1>14, <1>15, <1>16, <1>17, <1>18 DEF Next, Loop, Closed

(***************************************************************************)
(* Phases                                                                  *)
(***************************************************************************)
LEMMA PhasesStep ==
  ASSUME Types, Phases, PoolExact, TableMatches, Reported, [Next]_vars
  PROVE  Phases'
<1> USE DEF Phases
<1>1. CASE Update  BY <1>1 DEF Update, batchVars
<1>2. CASE PollListen  BY <1>2 DEF PollListen
<1>3. CASE AcceptNone  BY <1>3 DEF AcceptNone
<1>4. CASE Reject  BY <1>4 DEF Reject, batchVars
<1>5. CASE Accept  BY <1>5 DEF Accept, batchVars
<1>6. CASE Select  BY <1>6 DEF Select
<1>7. CASE Receive
  <2>1. PICK k \in readfds :
          \/ UNCHANGED <<pc, cur>>
          \/ pc' = "process" /\ cur' = socket_to_sid_table[k]
    BY <1>7, Zenon DEF Receive
  <2>2. socket_to_sid_table[k] \in Sid
    BY <1>7 DEF Receive, Reported, TableMatches, Types, TypeOK
  <2>3. pc = "read" /\ writefds' = writefds
    BY <1>7 DEF Receive
  <2> QED  BY <2>1, <2>2, <2>3
<1>8. CASE Process  BY <1>8 DEF Process, batchVars
<1>9. CASE Processed  BY <1>9 DEF Processed, batchVars
<1>10. CASE ReadsDone  BY <1>10 DEF ReadsDone, batchVars
<1>11. CASE Send  BY <1>11 DEF Send
<1>12. CASE WritesDone  BY <1>12 DEF WritesDone
<1>13. CASE CheckIdle  BY <1>13, Sizes DEF CheckIdle
<1>14. CASE CleanDead
  <2>1. NextToClean /\ cur \in 0 .. MAX_SESSION - 1 /\ pc = "clean"
    BY <1>14 DEF CleanDead, Sid
  <2> QED  BY <1>14, <2>1, CleanMovesOn DEF CleanDead, batchVars
<1>15. CASE CleanOther
  <2>1. NextToClean /\ cur \in 0 .. MAX_SESSION - 1 /\ pc = "clean"
    BY <1>15 DEF CleanOther, Sid
  <2> QED  BY <1>15, <2>1, CleanMovesOn DEF CleanOther, batchVars
<1>16. CASE GameUpdate  BY <1>16 DEF GameUpdate, batchVars
<1>17. CASE Shutdown  BY <1>17 DEF Shutdown, batchVars
<1>18. CASE UNCHANGED vars  BY <1>18 DEF vars, batchVars
<1> QED
  BY <1>1, <1>2, <1>3, <1>4, <1>5, <1>6, <1>7, <1>8, <1>9, <1>10, <1>11, <1>12,
     <1>13, <1>14, <1>15, <1>16, <1>17, <1>18 DEF Next, Loop, Closed

(***************************************************************************)
(* The pool and the table: three actions give an id or take one back.      *)
(***************************************************************************)
LEMMA OthersKeepSockets ==
  ASSUME [Next]_vars
  PROVE  \/ Accept \/ CleanDead \/ Shutdown
         \/ /\ UNCHANGED <<poolVars, sock>>
            /\ pc' = "closed" => pc = "closed"
<1>1. CASE UNCHANGED vars  BY <1>1 DEF vars
<1>2. CASE Next
  BY <1>2 DEF Next, Loop, Closed, Update, PollListen, AcceptNone, Reject, Select, Receive,
     Process, Processed, ReadsDone, Send, WritesDone, CheckIdle, CleanOther, NextToClean,
     GameUpdate, vars
<1> QED  BY <1>1, <1>2

LEMMA NeverReopens == [Next]_vars /\ pc = "closed" => pc' = "closed"
BY DEF Next, Loop, Closed, Update, PollListen, AcceptNone, Reject, Accept, Select, Receive,
   Process, Processed, ReadsDone, Send, WritesDone, CheckIdle, CleanDead, CleanOther,
   GameUpdate, Shutdown, vars

(* The id that Accept takes is one that no connection has.                 *)
LEMMA TopIsFree ==
  ASSUME Types, PoolExact, pc # "closed", ~Full
  PROVE  /\ next_sid \in 1 .. MAX_SESSION
         /\ free_sids[next_sid] \in Sid /\ sock[free_sids[next_sid]] = NoSocket
<1>1. next_sid \in 0 .. MAX_SESSION /\ next_sid # 0
  BY DEF Types, TypeOK, Full, PoolExact
<1>2. next_sid \in 1 .. next_sid /\ next_sid \in 1 .. MAX_SESSION
  BY <1>1, Sizes
<1>3. free_sids[next_sid] \in {x \in Sid : sock[x] = NoSocket}
  BY <1>2 DEF PoolExact
<1> QED  BY <1>2, <1>3

LEMMA PoolStep ==
  ASSUME Types, Phases, PoolExact, TableMatches, Reported, [Next]_vars
  PROVE  PoolExact'
<1>1. CASE Accept
  <2> DEFINE s == free_sids[next_sid]
  <2>1. pc # "closed" /\ ~Full
    BY <1>1 DEF Accept
  <2>2. PICK k \in Socket : sock' = [sock EXCEPT ![s] = k]
    BY <1>1 DEF Accept
  <2>3. next_sid' = next_sid - 1 /\ free_sids' = free_sids
    BY <1>1 DEF Accept
  <2>4. next_sid \in 1 .. MAX_SESSION /\ s \in Sid /\ sock[s] = NoSocket
    BY <2>1, TopIsFree
  <2>5. 1 .. next_sid = (1 .. next_sid') \cup {next_sid} /\ next_sid \notin 1 .. next_sid'
    BY <2>3, <2>4, Sizes
  <2>6. {x \in Sid : sock'[x] = NoSocket} = {x \in Sid : sock[x] = NoSocket} \ {s}
    BY <2>2, <2>4, Sizes DEF Types, TypeOK
  <2>7. {free_sids[i] : i \in 1 .. next_sid'} = {free_sids[i] : i \in 1 .. next_sid} \ {s}
    BY <2>1, <2>5 DEF PoolExact
  <2>8. \A i, j \in 1 .. next_sid' : free_sids[i] = free_sids[j] => i = j
    BY <2>1, <2>5 DEF PoolExact
  <2> QED  BY <2>1, <2>3, <2>6, <2>7, <2>8 DEF PoolExact
<1>2. CASE CleanDead
  <2>1. pc # "closed" /\ cur \in Sid /\ sock[cur] # NoSocket
    BY <1>2 DEF CleanDead, Phases
  <2>2. next_sid \in Nat /\ next_sid + 1 \in 1 .. MAX_SESSION
    <3>1. next_sid < MAX_SESSION
      BY <2>1, RoomInPool
    <3>2. next_sid \in 0 .. MAX_SESSION
      BY DEF Types, TypeOK
    <3> QED  BY <3>1, <3>2, Sizes
  <2>3. /\ next_sid' = next_sid + 1
        /\ free_sids' = [free_sids EXCEPT ![next_sid + 1] = cur]
        /\ sock' = [sock EXCEPT ![cur] = NoSocket]
    BY <1>2 DEF CleanDead, Pushed
  <2>4. DOMAIN free_sids = 0 .. MAX_SESSION
    BY DEF Types, TypeOK
  <2>5. /\ free_sids'[next_sid + 1] = cur
        /\ \A i \in 0 .. MAX_SESSION : i # next_sid + 1 => free_sids'[i] = free_sids[i]
    BY <2>2, <2>3, <2>4, Sizes
  <2>6. /\ 1 .. next_sid' = (1 .. next_sid) \cup {next_sid + 1}
        /\ \A i \in 1 .. next_sid : i \in 0 .. MAX_SESSION /\ i # next_sid + 1
        /\ 0 \in 0 .. MAX_SESSION /\ 0 # next_sid + 1
    BY <2>2, <2>3, Sizes
  <2>7. {x \in Sid : sock'[x] = NoSocket} = {x \in Sid : sock[x] = NoSocket} \cup {cur}
    BY <2>1, <2>3 DEF Types, TypeOK
  <2>8. {free_sids'[i] : i \in 1 .. next_sid'} = {free_sids[i] : i \in 1 .. next_sid} \cup {cur}
    BY <2>5, <2>6
  <2>9. \A i \in 1 .. next_sid : free_sids[i] # cur
    BY <2>1 DEF PoolExact
  <2>10. \A i, j \in 1 .. next_sid' : free_sids'[i] = free_sids'[j] => i = j
    BY <2>1, <2>5, <2>6, <2>9 DEF PoolExact
  <2>11. free_sids'[0] = MAX_SESSION
    BY <2>1, <2>5, <2>6 DEF PoolExact
  <2> QED  BY <2>1, <2>7, <2>8, <2>10, <2>11 DEF PoolExact
<1>3. CASE Shutdown  BY <1>3 DEF Shutdown, PoolExact
<1>4. CASE UNCHANGED <<poolVars, sock>> /\ (pc' = "closed" => pc = "closed")
  <2>1. CASE pc' = "closed"  BY <2>1 DEF PoolExact
  <2>2. CASE pc' # "closed"
    <3>1. pc # "closed"
      BY <2>2, NeverReopens
    <3> QED  BY <1>4, <3>1 DEF PoolExact, poolVars
  <2> QED  BY <2>1, <2>2
<1> QED  BY <1>1, <1>2, <1>3, <1>4, OthersKeepSockets

LEMMA TableStep ==
  ASSUME Types, Phases, PoolExact, TableMatches, Reported, [Next]_vars
  PROVE  TableMatches'
<1>1. CASE Accept
  <2>1. pc # "closed" /\ ~Full
    BY <1>1 DEF Accept
  <2>2. PICK k \in Socket, s \in Sid :
          /\ \A other \in Sid : sock[other] # k
          /\ s = free_sids[next_sid]
          /\ socket_to_sid_table' = IF socket_to_sid_table[k] = NoSid
                                    THEN [socket_to_sid_table EXCEPT ![k] = s]
                                    ELSE socket_to_sid_table
          /\ sock' = [sock EXCEPT ![s] = k]
    BY <1>1 DEF Accept
  <2>3. sock[s] = NoSocket
    BY <2>1, <2>2, TopIsFree
  <2>4. /\ socket_to_sid_table \in [Socket -> Sid \cup {NoSid}]
        /\ sock \in [Sid -> Socket \cup {NoSocket}]
        /\ NoSid \notin Sid /\ NoSocket \notin Socket
    BY Sizes DEF Types, TypeOK
  <2>5. \A x \in Socket, y \in Sid : socket_to_sid_table[x] = y <=> sock[y] = x
    BY <2>1 DEF TableMatches
  <2>6. socket_to_sid_table[k] = NoSid
    <3>1. socket_to_sid_table[k] \notin Sid
      BY <2>2, <2>5
    <3> QED  BY <2>4, <3>1
  <2>7. socket_to_sid_table' = [socket_to_sid_table EXCEPT ![k] = s]
    BY <2>2, <2>6
  <2>8. ASSUME NEW x \in Socket, NEW y \in Sid
        PROVE  socket_to_sid_table'[x] = y <=> sock'[y] = x
    <3>1. sock'[y] = (IF y = s THEN k ELSE sock[y])
      BY <2>2, <2>4
    <3>2. socket_to_sid_table'[x] = (IF x = k THEN s ELSE socket_to_sid_table[x])
      BY <2>4, <2>7
    <3> QED  BY <2>2, <2>3, <2>4, <2>5, <3>1, <3>2
  <2> QED  BY <2>8 DEF TableMatches
<1>2. CASE CleanDead
  <2>1. pc # "closed" /\ cur \in Sid /\ sock[cur] \in Socket
    BY <1>2 DEF CleanDead, Phases, Types, TypeOK
  <2>2. /\ socket_to_sid_table' = [socket_to_sid_table EXCEPT ![sock[cur]] = NoSid]
        /\ sock' = [sock EXCEPT ![cur] = NoSocket]
    BY <1>2 DEF CleanDead, Unregistered
  <2>3. /\ socket_to_sid_table \in [Socket -> Sid \cup {NoSid}]
        /\ sock \in [Sid -> Socket \cup {NoSocket}]
        /\ NoSid \notin Sid /\ NoSocket \notin Socket
    BY Sizes DEF Types, TypeOK
  <2>4. \A x \in Socket, y \in Sid : socket_to_sid_table[x] = y <=> sock[y] = x
    BY <2>1 DEF TableMatches
  <2>5. ASSUME NEW x \in Socket, NEW y \in Sid
        PROVE  socket_to_sid_table'[x] = y <=> sock'[y] = x
    <3>1. sock'[y] = (IF y = cur THEN NoSocket ELSE sock[y])
      BY <2>2, <2>3
    <3>2. socket_to_sid_table'[x] = (IF x = sock[cur] THEN NoSid ELSE socket_to_sid_table[x])
      BY <2>2, <2>3
    <3> QED  BY <2>1, <2>3, <2>4, <3>1, <3>2
  <2> QED  BY <2>5 DEF TableMatches
<1>3. CASE Shutdown  BY <1>3 DEF Shutdown, TableMatches
<1>4. CASE UNCHANGED <<poolVars, sock>> /\ (pc' = "closed" => pc = "closed")
  <2>1. CASE pc' = "closed"  BY <2>1 DEF TableMatches
  <2>2. CASE pc' # "closed"
    <3>1. pc # "closed"
      BY <2>2, NeverReopens
    <3> QED  BY <1>4, <3>1 DEF TableMatches, poolVars
  <2> QED  BY <2>1, <2>2
<1> QED  BY <1>1, <1>2, <1>3, <1>4, OthersKeepSockets

(* No two sessions have the same socket.                                   *)
LEMMA SocketsDiffer ==
  ASSUME Types, TableMatches, pc # "closed", NEW s \in Sid, NEW t \in Sid,
         sock[s] = sock[t], sock[s] # NoSocket
  PROVE  s = t
<1>1. sock[s] \in Socket
  BY DEF Types, TypeOK
<1> QED  BY <1>1 DEF TableMatches

(***************************************************************************)
(* What select() reported                                                  *)
(***************************************************************************)
LEMMA ReportedStep ==
  ASSUME Types, Phases, PoolExact, TableMatches, Reported, [Next]_vars
  PROVE  Reported'
<1> USE DEF Reported
<1>1. CASE readfds' = {} /\ writefds' = {}
  BY <1>1
<1>2. CASE Select
  <2>1. CASE \E readable \in SUBSET {sock[s] : s \in Batch},
                writable \in SUBSET {sock[s] : s \in {b \in Batch : WantsWrite(b)}} :
                readfds' = readable /\ writefds' = writable
    <3>1. PICK readable \in SUBSET {sock[s] : s \in Batch},
                writable \in SUBSET {sock[s] : s \in {b \in Batch : WantsWrite(b)}} :
                readfds' = readable /\ writefds' = writable
      BY <2>1
    <3>2. sock' = sock /\ send_buf' = send_buf
      BY <1>2 DEF Select
    <3>3. \A k \in readfds' \cup writefds' : \E s \in Sid : sock'[s] = k
      BY <3>1, <3>2 DEF Batch
    <3>4. ASSUME NEW s \in Sid, sock[s] \in writable PROVE send_buf[s] > 0
      <4>1. PICK b \in Batch : WantsWrite(b) /\ sock[b] = sock[s]
        BY <3>4
      <4>2. pc # "closed" /\ b \in Sid /\ sock[b] # NoSocket
        BY <1>2 DEF Select, Batch
      <4>3. b = s
        BY <4>1, <4>2, SocketsDiffer
      <4> QED  BY <4>1, <4>3 DEF WantsWrite
    <3> QED  BY <3>1, <3>2, <3>3, <3>4
  <2>2. CASE UNCHANGED <<readfds, writefds>>
    BY <1>2, <2>2 DEF Select
  <2> QED  BY <1>2, <2>1, <2>2 DEF Select
<1>3. CASE Receive
  BY <1>3 DEF Receive
<1>4. CASE Process
  <2>1. \A s \in Sid : send_buf'[s] >= send_buf[s]
    BY <1>4, GameCallsBounded, Zenon DEF Process, Types, TypeOK
  <2>2. UNCHANGED <<readfds, writefds, sock>>
    BY <1>4 DEF Process, batchVars
  <2>3. send_buf \in [Sid -> 0 .. SendCapacity] /\ send_buf' \in [Sid -> 0 .. SendCapacity]
    BY <1>4, GameCallsBounded, Zenon DEF Process, Types, TypeOK
  <2> QED  BY <2>1, <2>2, <2>3, Sizes
<1>5. CASE Processed  BY <1>5 DEF Processed, batchVars
<1>6. CASE ReadsDone  BY <1>6 DEF ReadsDone, batchVars
<1>7. CASE Send
  <2>1. PICK k \in writefds :
          /\ writefds' = writefds \ {k}
          /\ \/ send_buf' = send_buf
             \/ \E n \in 0 .. send_buf[socket_to_sid_table[k]] :
                  send_buf' = [send_buf EXCEPT ![socket_to_sid_table[k]] = @ - n]
    BY <1>7, Zenon DEF Send
  <2>2. readfds' = readfds /\ sock' = sock /\ pc # "closed"
    BY <1>7 DEF Send
  <2>3. socket_to_sid_table[k] \in Sid /\ sock[socket_to_sid_table[k]] = k
    BY <2>2 DEF TableMatches, Types, TypeOK
  <2>4. ASSUME NEW s \in Sid, sock[s] \in writefds'  PROVE send_buf'[s] = send_buf[s]
    <3>1. s # socket_to_sid_table[k]
      BY <2>1, <2>3, <2>4
    <3>2. DOMAIN send_buf = Sid
      BY DEF Types, TypeOK
    <3> QED  BY <2>1, <3>1, <3>2
  <2> QED  BY <2>1, <2>2, <2>4
<1>8. CASE WritesDone  BY <1>8 DEF WritesDone
<1>9. CASE UNCHANGED vars  BY <1>9 DEF vars, batchVars
<1>10. CASE pc \notin {"select", "read", "process", "write"} /\ Next
  <2>1. readfds = {} /\ writefds = {}
    BY <1>10 DEF Phases
  <2>2. UNCHANGED <<readfds, writefds>> \/ CheckIdle
    BY <1>10 DEF Next, Loop, Closed, Update, PollListen, AcceptNone, Reject, Accept, Select,
       Receive, Process, Processed, ReadsDone, Send, WritesDone, CleanDead, CleanOther,
       GameUpdate, Shutdown, vars, batchVars
  <2> QED  BY <1>1, <2>1, <2>2 DEF CheckIdle
<1>11. CASE pc \in {"select", "read", "process", "write"} /\ Next
  BY <1>2, <1>3, <1>4, <1>5, <1>6, <1>7, <1>8, <1>9, <1>11 DEF Next, Loop, Closed, Update, PollListen,
     AcceptNone, Reject, Accept, CheckIdle, CleanDead, CleanOther, GameUpdate, Shutdown
<1> QED  BY <1>9, <1>10, <1>11

(***************************************************************************)
(* What is in the receive buffers                                          *)
(***************************************************************************)

(* Every non-empty set of naturals has a least element: the induction over *)
(* the bytes of a packet rests on it.                                      *)
LEMMA NatMin ==
  ASSUME NEW T \in SUBSET Nat, T # {}
  PROVE  \E x \in T : \A y \in T : x <= y
<1> DEFINE R == OpToRel(<, Nat)
<1>1. IsWellFoundedOn(R, Nat)
  BY NatLessThanWellFounded, Zenon
<1>2. R = {ss \in Nat \X Nat : ss[1] < ss[2]}
  BY Zenon DEF OpToRel
<1> HIDE DEF R
<1>3. PICK x \in T : \A y \in T : ~ (<<y, x>> \in R)
  BY <1>1, WFMin
<1>4. ASSUME NEW y \in T PROVE x <= y
  <2>1. ~ (y < x)
    BY <1>2, <1>3
  <2> QED  BY <2>1
<1> QED  BY <1>4

(* A buffer begins with a packet, and each byte is one that may follow the *)
(* byte before it; what the client sends next follows the last one.        *)
Chained(buf) == \A i \in 2 .. Len(buf) : buf[i] \in NextByte(buf[i - 1])
InStep(buf, last) ==
  /\ Chained(buf)
  /\ buf # << >> => buf[1] = Code /\ last = buf[Len(buf)]
  /\ buf = << >> => NextByte(last) = {Code}

HoldsPacket(buf) == Len(buf) >= 2 /\ Len(buf) >= 2 + buf[2][2]
Processing(s) == pc = "process" /\ cur = s

StreamInv ==
  /\ pc = "process" => sock[cur] # NoSocket
  /\ \A s \in Sid : sock[s] # NoSocket => InStep(recv_buf[s], stream[s])
  /\ \A s \in Sid : (sock[s] # NoSocket /\ alive[s] /\ ~Processing(s)) => ~HoldsPacket(recv_buf[s])

LEMMA BytesDiffer ==
  /\ Code # PacketEnd
  /\ \A n : <<"size", n>> # Code /\ <<"body", n>> # Code /\ <<"size", n>>[1] = "size"
            /\ <<"body", n>>[1] = "body"
  /\ \A n, m : <<"size", n>> # <<"body", m>>
  /\ Code[1] = "code"
BY DEF Code, PacketEnd

LEMMA NextByteIs ==
  /\ NextByte(Code) = {<<"size", n>> : n \in BodySize}
  /\ \A n \in Nat : NextByte(<<"size", n>>) = IF n > 0 THEN {<<"body", n>>} ELSE {Code}
  /\ \A n \in Nat : NextByte(<<"body", n>>) = IF n > 1 THEN {<<"body", n - 1>>} ELSE {Code}
  /\ NextByte(<<"size", 0>>) = {Code} /\ NextByte(PacketEnd) = {Code}
<1>1. NextByte(Code) = {<<"size", n>> : n \in BodySize}
  BY DEF NextByte
<1>2. ASSUME NEW n \in Nat
      PROVE  NextByte(<<"size", n>>) = IF n > 0 THEN {<<"body", n>>} ELSE {Code}
  BY BytesDiffer DEF NextByte
<1>3. ASSUME NEW n \in Nat
      PROVE  NextByte(<<"body", n>>) = IF n > 1 THEN {<<"body", n - 1>>} ELSE {Code}
  BY BytesDiffer DEF NextByte
<1>4. NextByte(<<"size", 0>>) = {Code} /\ NextByte(<<"body", 1>>) = {Code}
  BY BytesDiffer DEF NextByte
<1> QED  BY <1>1, <1>2, <1>3, <1>4 DEF PacketEnd

(* The bytes of a packet that is in the buffer as a whole.                 *)
LEMMA PacketBytes ==
  ASSUME NEW buf \in Seq(Byte), Chained(buf), buf[1] = Code, HoldsPacket(buf)
  PROVE  \E n \in BodySize :
           /\ n \in Nat /\ buf[2] = <<"size", n>> /\ Len(buf) >= 2 + n
           /\ \A i \in 1 .. n : buf[2 + i] = <<"body", n + 1 - i>>
<1>1. PICK n \in BodySize : buf[2] = <<"size", n>>
  <2>1. buf[2] \in NextByte(buf[1])
    BY DEF Chained, HoldsPacket
  <2> QED  BY <2>1, NextByteIs
<1>2. n \in Nat /\ Len(buf) >= 2 + n
  BY <1>1, BufferAssumption DEF HoldsPacket
<1> DEFINE Wrong == {i \in 1 .. n : buf[2 + i] # <<"body", n + 1 - i>>}
<1>3. Wrong = {}
  <2> SUFFICES ASSUME Wrong # {} PROVE FALSE  OBVIOUS
  <2>1. PICK i \in Wrong : \A j \in Wrong : i <= j
    <3>1. Wrong \in SUBSET Nat
      BY <1>2
    <3> HIDE DEF Wrong
    <3> QED  BY <3>1, NatMin
  <2>2. i \in 1 .. n /\ buf[2 + i] # <<"body", n + 1 - i>>
    OBVIOUS
  <2>3. buf[2 + i] \in NextByte(buf[1 + i])
    <3>1. 2 + i \in 2 .. Len(buf) /\ (2 + i) - 1 = 1 + i
      BY <1>2, <2>2
    <3> QED  BY <3>1 DEF Chained
  <2>4. CASE i = 1
    <3>1. buf[1 + i] = <<"size", n>> /\ n > 0
      BY <1>1, <1>2, <2>2, <2>4
    <3>2. NextByte(<<"size", n>>) = {<<"body", n>>}
      BY <1>2, <3>1, NextByteIs
    <3>3. n + 1 - i = n
      BY <1>2, <2>4
    <3> QED  BY <2>2, <2>3, <3>1, <3>2, <3>3
  <2>5. CASE i # 1
    <3>1. i - 1 \in 1 .. n /\ i - 1 \notin Wrong
      <4>1. i \in Int /\ i - 1 \in 1 .. n /\ ~(i <= i - 1)
        BY <1>2, <2>2, <2>5
      <4> HIDE DEF Wrong
      <4> QED  BY <2>1, <4>1
    <3>2. buf[2 + (i - 1)] = <<"body", n + 1 - (i - 1)>>
      BY <3>1
    <3>3. 2 + (i - 1) = 1 + i /\ n + 1 - (i - 1) = n + 2 - i
      BY <1>2, <2>2
    <3>4. n + 2 - i \in Nat /\ n + 2 - i > 1 /\ (n + 2 - i) - 1 = n + 1 - i
      BY <1>2, <2>2
    <3>5. NextByte(<<"body", n + 2 - i>>) = {<<"body", n + 1 - i>>}
      BY <3>4, NextByteIs
    <3> QED  BY <2>2, <2>3, <3>2, <3>3, <3>5
  <2> QED  BY <2>4, <2>5
<1>4. \A i \in 1 .. n : buf[2 + i] = <<"body", n + 1 - i>>
  BY <1>3
<1> QED  BY <1>1, <1>2, <1>4

LEMMA SameSequence ==
  ASSUME NEW S, NEW a \in Seq(S), NEW T, NEW b \in Seq(T), Len(a) = Len(b),
         \A i \in 1 .. Len(a) : a[i] = b[i]
  PROVE  a = b
<1>1. a \in [1 .. Len(a) -> S] /\ b \in [1 .. Len(b) -> T]
  OBVIOUS
<1> QED  BY <1>1

(* What is left when the first packet is taken out begins with a packet.   *)
LEMMA PacketTaken ==
  ASSUME NEW buf \in Seq(Byte), NEW last, InStep(buf, last), HoldsPacket(buf)
  PROVE  LET n == 2 + buf[2][2]
         IN  /\ SubSeq(buf, 1, n) \in Packet
             /\ InStep(SubSeq(buf, n + 1, Len(buf)), last)
<1>1. Chained(buf) /\ buf[1] = Code /\ last = buf[Len(buf)]
  BY DEF InStep, HoldsPacket
<1>2. PICK m \in BodySize :
           /\ m \in Nat /\ buf[2] = <<"size", m>> /\ Len(buf) >= 2 + m
           /\ \A i \in 1 .. m : buf[2 + i] = <<"body", m + 1 - i>>
  BY <1>1, PacketBytes
<1> DEFINE n == 2 + m
           rest == SubSeq(buf, n + 1, Len(buf))
           packet == SubSeq(buf, 1, n)
           whole == <<Code, <<"size", m>>>> \o [i \in 1 .. m |-> <<"body", m + 1 - i>>]
<1>3. 2 + buf[2][2] = n /\ n \in Nat /\ n >= 2 /\ n <= Len(buf) /\ Len(buf) \in Nat
  BY <1>2
<1>4. packet = whole
  <2>1. packet \in Seq(Byte) /\ Len(packet) = n /\ \A i \in 1 .. n : packet[i] = buf[i]
    BY <1>3
  <2>2. /\ [i \in 1 .. m |-> <<"body", m + 1 - i>>] \in Seq({<<"body", k>> : k \in Nat})
        /\ Len([i \in 1 .. m |-> <<"body", m + 1 - i>>]) = m
    BY <1>2
  <2>3. Len(whole) = n /\ whole[1] = Code /\ whole[2] = <<"size", m>>
        /\ \A i \in 1 .. m : whole[2 + i] = <<"body", m + 1 - i>>
    BY <1>2, <2>2
  <2>4. \A i \in 1 .. n : i = 1 \/ i = 2 \/ (i - 2 \in 1 .. m /\ i = 2 + (i - 2))
    BY <1>2
  <2>5. \A i \in 1 .. n : packet[i] = whole[i]
    BY <1>1, <1>2, <2>1, <2>3, <2>4
  <2>6. whole \in Seq({Code, <<"size", m>>} \cup {<<"body", k>> : k \in Nat})
    BY <2>2
  <2> HIDE DEF packet, whole
  <2> QED  BY <2>1, <2>3, <2>5, <2>6, SameSequence
<1>5. packet \in Packet
  BY <1>4 DEF Packet
<1>6. NextByte(buf[n]) = {Code}
  <2>1. CASE m = 0
    <3>1. n = 2 /\ buf[n] = <<"size", 0>>
      BY <1>2, <2>1
    <3>2. NextByte(<<"size", 0>>) = {Code}
      BY NextByteIs
    <3> QED  BY <3>1, <3>2
  <2>2. CASE m # 0
    <3>1. m \in 1 .. m /\ m + 1 - m = 1
      BY <1>2, <2>2
    <3>2. buf[n] = <<"body", 1>>
      BY <1>2, <3>1
    <3>3. NextByte(<<"body", 1>>) = {Code}
      BY NextByteIs DEF PacketEnd
    <3> QED  BY <3>2, <3>3
  <2> QED  BY <2>1, <2>2
<1>7. rest \in Seq(Byte) /\ Len(rest) = Len(buf) - n
      /\ \A i \in 1 .. Len(buf) - n : rest[i] = buf[n + i]
  BY <1>3
<1>8. InStep(rest, last)
  <2> HIDE DEF n, rest
  <2>1. CASE n = Len(buf)
    <3>1. rest = << >>
      BY <1>3, <1>7, <2>1
    <3>2. NextByte(last) = {Code}
      BY <1>1, <1>6, <2>1
    <3> QED  BY <3>1, <3>2 DEF InStep, Chained
  <2>2. CASE n < Len(buf)
    <3>1. rest[1] = Code
      <4>1. n + 1 \in 2 .. Len(buf) /\ (n + 1) - 1 = n /\ 1 \in 1 .. Len(buf) - n
        BY <1>3, <2>2
      <4>2. buf[n + 1] \in NextByte(buf[n])
        BY <1>1, <4>1 DEF Chained
      <4> QED  BY <1>6, <1>7, <4>1, <4>2
    <3>2. last = rest[Len(rest)]
      <4>1. Len(buf) - n \in 1 .. Len(buf) - n /\ n + (Len(buf) - n) = Len(buf)
        BY <1>3, <2>2
      <4> QED  BY <1>1, <1>7, <4>1
    <3>3. ASSUME NEW i \in 2 .. Len(rest) PROVE rest[i] \in NextByte(rest[i - 1])
      <4>1. i \in 2 .. Len(buf) - n
        BY <1>7
      <4>2. /\ n + i \in 2 .. Len(buf) /\ (n + i) - 1 = n + (i - 1)
            /\ i \in 1 .. Len(buf) - n /\ i - 1 \in 1 .. Len(buf) - n
        BY <1>3, <4>1
      <4>3. buf[n + i] \in NextByte(buf[(n + i) - 1])
        BY <1>1, <4>2 DEF Chained
      <4> QED  BY <1>7, <4>2, <4>3
    <3>4. rest # << >>
      <4>1. Len(rest) # 0
        BY <1>3, <1>7, <2>2
      <4> QED  BY <4>1
    <3> QED  BY <3>1, <3>2, <3>3, <3>4 DEF InStep, Chained
  <2> QED  BY <1>3, <2>1, <2>2
<1> QED  BY <1>3, <1>5, <1>8

(* What arrives continues what is there.                                   *)
LEMMA BytesArrive ==
  ASSUME NEW s \in Sid, NEW buf \in Seq(Byte), InStep(buf, stream[s]),
         NEW n \in Nat, n >= 1, NEW bytes \in Sendings(s, n)
  PROVE  InStep(buf \o bytes, bytes[n])
<1>1. /\ bytes \in Seq(Byte) /\ Len(bytes) = n /\ Len(buf) \in Nat
      /\ \A i \in 1 .. n : bytes[i] \in NextByte(IF i = 1 THEN stream[s] ELSE bytes[i - 1])
  BY DEF Sendings
<1> DEFINE all == buf \o bytes
<1>2. /\ Len(all) = Len(buf) + n
      /\ \A i \in 1 .. Len(buf) : all[i] = buf[i]
      /\ \A i \in 1 .. n : all[Len(buf) + i] = bytes[i]
  <2>1. bytes \in Seq(Byte) /\ Len(bytes) = n
    BY <1>1
  <2> QED  BY <2>1
<1>3. all # << >> /\ all[Len(all)] = bytes[n]
  BY <1>1, <1>2
<1>4. all[1] = Code
  <2>1. CASE buf = << >>
    <3>1. Len(buf) = 0 /\ 1 \in 1 .. n /\ NextByte(stream[s]) = {Code}
      BY <2>1 DEF InStep
    <3> QED  BY <1>1, <1>2, <3>1
  <2>2. CASE buf # << >>
    <3>1. 1 \in 1 .. Len(buf)
      BY <1>1, <2>2
    <3> QED  BY <1>2, <2>2, <3>1 DEF InStep
  <2> QED  BY <2>1, <2>2
<1>5. ASSUME NEW i \in 2 .. Len(all) PROVE all[i] \in NextByte(all[i - 1])
  <2>1. CASE i <= Len(buf)
    <3>1. i \in 2 .. Len(buf) /\ i \in 1 .. Len(buf) /\ i - 1 \in 1 .. Len(buf)
      BY <1>1, <1>2, <2>1
    <3> QED  BY <1>2, <3>1 DEF InStep, Chained
  <2>2. CASE i = Len(buf) + 1
    <3>1. 1 \in 1 .. n /\ i - 1 = Len(buf) /\ i - 1 \in 1 .. Len(buf) /\ buf # << >>
      BY <1>1, <2>2
    <3>2. stream[s] = buf[Len(buf)] /\ all[i] = bytes[1] /\ all[i - 1] = buf[Len(buf)]
      BY <1>2, <2>2, <3>1 DEF InStep
    <3> QED  BY <1>1, <3>1, <3>2
  <2>3. CASE i > Len(buf) + 1
    <3>1. PICK j \in 2 .. n : i = Len(buf) + j
      <4>1. i - Len(buf) \in 2 .. n /\ i = Len(buf) + (i - Len(buf))
        BY <1>1, <1>2, <2>3
      <4> QED  BY <4>1
    <3>2. j \in 1 .. n /\ j - 1 \in 1 .. n /\ i - 1 = Len(buf) + (j - 1) /\ j # 1
      BY <1>1, <3>1
    <3> QED  BY <1>1, <1>2, <3>1, <3>2
  <2> QED  BY <1>1, <1>2, <2>1, <2>2, <2>3
<1> QED  BY <1>3, <1>4, <1>5 DEF InStep, Chained

LEMMA StreamInit == Init => StreamInv
<1> SUFFICES ASSUME Init PROVE StreamInv  OBVIOUS
<1> QED  BY DEF Init, StreamInv

LEMMA StreamStep ==
  ASSUME IInv, StreamInv, [Next]_vars
  PROVE  StreamInv'
<1>0. /\ recv_buf \in [Sid -> Seq(Byte)] /\ stream \in [Sid -> Byte \cup {PacketEnd}]
      /\ sock \in [Sid -> Socket \cup {NoSocket}] /\ alive \in [Sid -> BOOLEAN]
      /\ pc \in {"process", "clean"} => cur \in Sid
  BY DEF IInv, Types, TypeOK, Phases
(* Most actions receive nothing and revive nobody.                         *)
<1>1. CASE /\ UNCHANGED <<recv_buf, stream, sock>>
           /\ pc # "process" /\ pc' # "process"
           /\ \A s \in Sid : (sock[s] # NoSocket /\ alive'[s]) => alive[s]
  BY <1>1 DEF StreamInv, Processing
<1>2. CASE Accept
  <2>1. PICK k \in Socket, s \in Sid :
          /\ s = free_sids[next_sid]
          /\ sock' = [sock EXCEPT ![s] = k]
          /\ recv_buf' = Cleared(recv_buf, s, << >>)
          /\ stream' = [stream EXCEPT ![s] = PacketEnd]
          /\ GameCalls(sock', [alive EXCEPT ![s] = TRUE], Cleared(send_buf, s, 0))
    BY <1>2, Zenon DEF Accept
  <2>2. pc = "accept" /\ pc' = pc
    BY <1>2 DEF Accept
  <2>3. \A x \in Sid : x # s /\ alive'[x] => alive[x]
    <3>1. [alive EXCEPT ![s] = TRUE] \in [Sid -> BOOLEAN]
      BY <1>0
    <3>2. Cleared(send_buf, s, 0) \in [Sid -> 0 .. SendCapacity]
      <4>1. 0 \in 0 .. SendCapacity /\ send_buf \in [Sid -> 0 .. SendCapacity]
        BY Sizes DEF IInv, Types, TypeOK
      <4> QED  BY <4>1 DEF Cleared
    <3>3. \A x \in Sid : alive'[x] => [alive EXCEPT ![s] = TRUE][x]
      BY <2>1, <3>1, <3>2, GameCallsBounded, Zenon
    <3> QED  BY <1>0, <3>3
  <2>4. /\ recv_buf'[s] = << >> /\ stream'[s] = PacketEnd
        /\ \A x \in Sid : x # s => recv_buf'[x] = recv_buf[x] /\ stream'[x] = stream[x]
                                   /\ sock'[x] = sock[x]
    BY <1>0, <2>1 DEF Cleared
  <2>5. InStep(<< >>, PacketEnd) /\ ~HoldsPacket(<< >>)
    BY NextByteIs DEF InStep, Chained, HoldsPacket
  <2> QED  BY <2>2, <2>3, <2>4, <2>5 DEF StreamInv, Processing
<1>3. CASE Receive
  <2>1. PICK k \in readfds :
        LET s == socket_to_sid_table[k]
        IN  \/ /\ alive' = [alive EXCEPT ![s] = FALSE]
               /\ UNCHANGED <<pc, cur, dataVars>>
            \/ UNCHANGED <<pc, cur, alive, dataVars>>
            \/ \E n \in 1 .. Free_size(s) : \E bytes \in Sendings(s, n) :
                 /\ recv_buf' = [recv_buf EXCEPT ![s] = @ \o bytes]
                 /\ stream' = [stream EXCEPT ![s] = bytes[n]]
                 /\ pc' = "process" /\ cur' = s
                 /\ UNCHANGED alive
    BY <1>3, Zenon DEF Receive
  <2> DEFINE s == socket_to_sid_table[k]
  <2>2. pc = "read" /\ sock' = sock
    BY <1>3 DEF Receive
  <2>3. s \in Sid /\ sock[s] = k /\ sock[s] # NoSocket
    BY <2>2, Sizes DEF IInv, Reported, TableMatches, Types, TypeOK
  <2> HIDE DEF s
  <2>4. CASE UNCHANGED <<pc, cur, dataVars>>
             /\ (alive' = alive \/ alive' = [alive EXCEPT ![s] = FALSE])
    BY <1>0, <1>1, <2>2, <2>4 DEF dataVars
  <2>5. CASE \E n \in 1 .. Free_size(s) : \E bytes \in Sendings(s, n) :
                 /\ recv_buf' = [recv_buf EXCEPT ![s] = @ \o bytes]
                 /\ stream' = [stream EXCEPT ![s] = bytes[n]]
                 /\ pc' = "process" /\ cur' = s
                 /\ UNCHANGED alive
    <3>1. PICK n \in 1 .. Free_size(s) : \E bytes \in Sendings(s, n) :
                 /\ recv_buf' = [recv_buf EXCEPT ![s] = @ \o bytes]
                 /\ stream' = [stream EXCEPT ![s] = bytes[n]]
                 /\ pc' = "process" /\ cur' = s
                 /\ UNCHANGED alive
      BY <2>5
    <3>2. PICK bytes \in Sendings(s, n) :
                 /\ recv_buf' = [recv_buf EXCEPT ![s] = @ \o bytes]
                 /\ stream' = [stream EXCEPT ![s] = bytes[n]]
                 /\ pc' = "process" /\ cur' = s
                 /\ UNCHANGED alive
      BY <3>1
    <3>3. n \in Nat /\ n >= 1
      OBVIOUS
    <3>4. InStep(recv_buf[s], stream[s]) /\ recv_buf[s] \in Seq(Byte)
      BY <1>0, <2>3 DEF StreamInv
    <3>5. InStep(recv_buf[s] \o bytes, bytes[n])
      BY <2>3, <3>3, <3>4, BytesArrive
    <3>6. /\ recv_buf'[s] = recv_buf[s] \o bytes /\ stream'[s] = bytes[n]
          /\ \A x \in Sid : x # s => recv_buf'[x] = recv_buf[x] /\ stream'[x] = stream[x]
      BY <1>0, <2>3, <3>2
    <3> QED  BY <2>2, <2>3, <3>2, <3>5, <3>6 DEF StreamInv, Processing
  <2> QED  BY <2>1, <2>4, <2>5, Zenon DEF s
<1>4. CASE Process
  <2>1. /\ pc = "process" /\ pc' = pc /\ cur' = cur /\ cur \in Sid
        /\ UNCHANGED <<sock, stream>>
        /\ recv_buf' = [recv_buf EXCEPT ![cur] = SubSeq(@, Packet_size(cur) + 1, Len(@))]
    BY <1>0, <1>4 DEF Process
  <2>2. HoldsPacket(recv_buf[cur]) /\ Packet_size(cur) = 2 + recv_buf[cur][2][2]
    BY <1>4 DEF Process, MoreComes, Packet_size, HeaderSize, HoldsPacket
  <2>3. sock[cur] # NoSocket /\ InStep(recv_buf[cur], stream[cur]) /\ recv_buf[cur] \in Seq(Byte)
    BY <1>0, <2>1 DEF StreamInv
  <2>4. InStep(recv_buf'[cur], stream'[cur])
    BY <1>0, <2>1, <2>2, <2>3, PacketTaken
  <2>5. \A x \in Sid : x # cur => recv_buf'[x] = recv_buf[x]
    BY <1>0, <2>1
  <2>6. \A x \in Sid : alive'[x] => alive[x]
    BY <1>4, GameCallsBounded, Zenon DEF Process, IInv, Types, TypeOK
  <2> QED  BY <2>1, <2>3, <2>4, <2>5, <2>6 DEF StreamInv, Processing
<1>5. CASE Processed
  <2>1. pc = "process" /\ pc' = "read" /\ cur \in Sid /\ UNCHANGED <<sock, alive, recv_buf, stream>>
    BY <1>0, <1>5 DEF Processed, dataVars
  <2>2. alive[cur] => ~HoldsPacket(recv_buf[cur])
    BY <1>5 DEF Processed, MoreComes, Packet_size, HeaderSize, HoldsPacket
  <2> QED  BY <2>1, <2>2 DEF StreamInv, Processing
<1>6. CASE CleanDead
  <2>1. cur \in Sid /\ sock' = [sock EXCEPT ![cur] = NoSocket]
        /\ recv_buf' = [recv_buf EXCEPT ![cur] = << >>] /\ stream' = stream
        /\ pc = "clean" /\ pc' # "process"
    BY <1>0, <1>6 DEF CleanDead, Cleared, NextToClean
  <2>2. \A x \in Sid : alive'[x] => alive[x]
    <3>1. Cleared(send_buf, cur, 0) \in [Sid -> 0 .. SendCapacity]
      <4>1. 0 \in 0 .. SendCapacity /\ send_buf \in [Sid -> 0 .. SendCapacity]
        BY Sizes DEF IInv, Types, TypeOK
      <4> QED  BY <4>1 DEF Cleared
    <3> QED  BY <1>0, <1>6, <3>1, GameCallsBounded, Zenon DEF CleanDead
  <2>3. /\ sock'[cur] = NoSocket
        /\ \A x \in Sid : x # cur => sock'[x] = sock[x] /\ recv_buf'[x] = recv_buf[x]
    BY <1>0, <2>1
  <2> QED  BY <2>1, <2>2, <2>3 DEF StreamInv, Processing
<1>7. CASE Shutdown
  BY <1>7 DEF Shutdown, StreamInv
<1>8. CASE UNCHANGED vars
  BY <1>8 DEF vars, dataVars, StreamInv, Processing
<1>9. CASE GameUpdate
  <2>1. \A x \in Sid : alive'[x] => alive[x]
    BY <1>9, GameCallsBounded, Zenon DEF GameUpdate, IInv, Types, TypeOK
  <2> QED  BY <1>1, <1>9, <2>1 DEF GameUpdate, dataVars
<1>10. CASE Send
  <2>1. \A x \in Sid : alive'[x] => alive[x]
    BY <1>0, <1>10 DEF Send
  <2> QED  BY <1>1, <1>10, <2>1 DEF Send, dataVars
<1>11. CASE CheckIdle  BY <1>1, <1>11 DEF CheckIdle, dataVars
<1>12. CASE CleanOther  BY <1>1, <1>12 DEF CleanOther, NextToClean, dataVars
<1>13. CASE Update \/ PollListen \/ AcceptNone \/ Reject \/ Select \/ ReadsDone \/ WritesDone
  BY <1>1, <1>13 DEF Update, PollListen, AcceptNone, Reject, Select, ReadsDone, WritesDone, dataVars
<1> QED
  BY <1>2, <1>3, <1>4, <1>5, <1>6, <1>7, <1>8, <1>9, <1>10, <1>11, <1>12, <1>13
     DEF Next, Loop, Closed

(***************************************************************************)
(* The theorems                                                            *)
(***************************************************************************)
LEMMA InvInit == Init => IInv
<1> SUFFICES ASSUME Init PROVE IInv  OBVIOUS
<1>1. Types  BY TypesInit
<1>2. Phases /\ Reported  BY DEF Init, Phases, Reported
<1>3. TableMatches  BY Sizes DEF Init, TableMatches
<1>4. PoolExact
  <2>1. /\ next_sid = MAX_SESSION
        /\ \A i \in 0 .. MAX_SESSION : free_sids[i] = MAX_SESSION - i
        /\ \A s \in Sid : sock[s] = NoSocket
    BY DEF Init
  <2>2. ASSUME NEW s \in Sid PROVE \E i \in 1 .. next_sid : free_sids[i] = s
    <3>1. MAX_SESSION - s \in 1 .. MAX_SESSION /\ MAX_SESSION - s \in 0 .. MAX_SESSION
          /\ MAX_SESSION - (MAX_SESSION - s) = s
      BY Sizes DEF Sid
    <3> QED  BY <2>1, <3>1
  <2>3. ASSUME NEW i \in 1 .. next_sid PROVE free_sids[i] = MAX_SESSION - i /\ free_sids[i] \in Sid
    <3>1. i \in 0 .. MAX_SESSION /\ MAX_SESSION - i \in 0 .. MAX_SESSION - 1
      BY <2>1, Sizes
    <3> QED  BY <2>1, <3>1 DEF Sid
  <2>4. \A i, j \in 1 .. next_sid : free_sids[i] = free_sids[j] => i = j
    BY <2>1, <2>3, Sizes
  <2>5. free_sids[0] = MAX_SESSION
    BY <2>1, Sizes
  <2> QED  BY <2>1, <2>2, <2>3, <2>4, <2>5 DEF PoolExact
<1> QED  BY <1>1, <1>2, <1>3, <1>4 DEF IInv

LEMMA InvStep == IInv /\ [Next]_vars => IInv'
BY TypesStep, PhasesStep, PoolStep, TableStep, ReportedStep, Zenon DEF IInv

LEMMA InvCorrect == Spec => []IInv
BY InvInit, InvStep, PTL DEF Spec

(* Every variable keeps its type, in particular the mark of the pool never *)
(* leaves it, and no buffer holds more than its capacity.                  *)
THEOREM TypeCorrect == Spec => []TypeOK
<1>1. IInv => TypeOK  BY DEF IInv, Types
<1> QED  BY <1>1, InvCorrect, PTL

(* However connections come, go and are rejected, the pool holds exactly   *)
(* the ids that no connection has, each once.                              *)
THEOREM PoolCorrect == Spec => []PoolExact
<1>1. IInv => PoolExact  BY DEF IInv
<1> QED  BY <1>1, InvCorrect, PTL

(* The table leads from every socket in use to its session, and from no    *)
(* other socket to any.                                                    *)
THEOREM TableCorrect == Spec => []TableMatches
<1>1. IInv => TableMatches  BY DEF IInv
<1> QED  BY <1>1, InvCorrect, PTL

(* The assertions of poll_clients() hold: whatever the callbacks of one    *)
(* update() end, the sockets select() reported are found in the table.     *)
THEOREM LookupsCorrect == Spec => []LookupsSucceed
<1>1. ASSUME IInv PROVE LookupsSucceed
  <2>1. CASE pc = "closed"
    BY <1>1, <2>1 DEF IInv, Phases, LookupsSucceed
  <2>2. CASE pc # "closed"
    <3>1. ASSUME NEW k \in readfds \cup writefds PROVE socket_to_sid_table[k] # NoSid
      <4>1. k \in Socket /\ \E s \in Sid : sock[s] = k
        BY <1>1, <3>1 DEF IInv, Types, TypeOK, Reported
      <4>2. socket_to_sid_table[k] \in Sid
        BY <1>1, <2>2, <4>1 DEF IInv, TableMatches
      <4> QED  BY <4>2, Sizes
    <3> QED  BY <3>1 DEF LookupsSucceed
  <2> QED  BY <2>1, <2>2
<1> QED  BY <1>1, InvCorrect, PTL

(* handle_send() always has something to send, so the 0 that send() may    *)
(* return for nothing never passes for a closed connection.                *)
THEOREM SendCorrect == Spec => []NeverSendEmpty
<1>1. ASSUME IInv PROVE NeverSendEmpty
  <2>1. ASSUME pc = "write", NEW k \in writefds PROVE send_buf[socket_to_sid_table[k]] > 0
    <3>1. k \in Socket
      BY <1>1, <2>1 DEF IInv, Types, TypeOK
    <3>2. PICK s \in Sid : sock[s] = k
      BY <1>1, <2>1 DEF IInv, Reported
    <3>3. socket_to_sid_table[k] = s
      BY <1>1, <2>1, <3>1, <3>2 DEF IInv, TableMatches
    <3> QED  BY <1>1, <2>1, <3>2, <3>3 DEF IInv, Reported
  <2> QED  BY <2>1 DEF NeverSendEmpty
<1> QED  BY <1>1, InvCorrect, PTL

LEMMA StreamCorrect == Spec => [](IInv /\ StreamInv)
<1>1. Init => IInv /\ StreamInv
  BY InvInit, StreamInit
<1>2. (IInv /\ StreamInv) /\ [Next]_vars => (IInv /\ StreamInv)'
  BY InvStep, StreamStep
<1> QED  BY <1>1, <1>2, PTL DEF Spec

(* A session that is alive when select() is asked always has room for      *)
(* another byte: what process_recv_buffer() leaves is less than a packet,  *)
(* and the largest packet fits.                                            *)
THEOREM RoomCorrect == Spec => []RoomToReceive
<1>1. ASSUME IInv, StreamInv, NEW s \in Sid,
             pc = "select", sock[s] # NoSocket, alive[s], s \in memory
      PROVE  Free_size(s) > 0
  <2> DEFINE buf == recv_buf[s]
  <2>1. buf \in Seq(Byte)
    BY <1>1 DEF IInv, Types
  <2>2. InStep(buf, stream[s]) /\ ~HoldsPacket(buf)
    BY <1>1 DEF StreamInv, Processing
  <2>3. Len(buf) < RecvCapacity
    <3> HIDE DEF buf
    <3>1. CASE Len(buf) < 2
      BY <2>1, <3>1, BufferAssumption
    <3>2. CASE Len(buf) >= 2
      <4>1. buf[1] = Code /\ buf[2] \in NextByte(buf[1])
        BY <2>1, <2>2, <3>2 DEF InStep, Chained
      <4>2. PICK n \in BodySize : buf[2] = <<"size", n>>
        BY <4>1, NextByteIs
      <4>3. n \in Nat /\ n <= RecvCapacity - 2
        BY BufferAssumption
      <4>4. Len(buf) < 2 + n
        BY <2>1, <2>2, <3>2, <4>2, <4>3 DEF HoldsPacket
      <4> QED  BY <2>1, <4>3, <4>4, Sizes
    <3> QED  BY <2>1, <3>1, <3>2
  <2>4. Free_size(s) = RecvCapacity - Len(buf)
    BY <1>1 DEF Free_size
  <2> HIDE DEF buf
  <2> QED  BY <2>1, <2>3, <2>4, Sizes
<1>2. IInv /\ StreamInv => RoomToReceive
  BY <1>1 DEF RoomToReceive
<1> QED  BY <1>2, StreamCorrect, PTL

(***************************************************************************)
(* SelectServer implements ClientSessions.                                 *)
(***************************************************************************)

(* A step that only ends sessions, or after a callback moves one, is what  *)
(* ClientSessions allows.                                                  *)
LEMMA EndsIf ==
  ASSUME NEW now, NEW later,
         later = [s \in Sid |-> later[s]],
         \A s \in Sid : later[s] = now[s] \/ (now[s] = "open" /\ later[s] = "closing")
  PROVE  \E ended \in SUBSET {s \in Sid : now[s] = "open"} :
            later = [s \in Sid |-> IF s \in ended THEN "closing" ELSE now[s]]
<1> DEFINE ended == {s \in Sid : now[s] = "open" /\ later[s] = "closing"}
<1>1. ended \in SUBSET {s \in Sid : now[s] = "open"}
  OBVIOUS
<1>2. \A s \in Sid : later[s] = IF s \in ended THEN "closing" ELSE now[s]
  OBVIOUS
<1>3. later = [s \in Sid |-> IF s \in ended THEN "closing" ELSE now[s]]
  BY <1>2
<1> QED  BY <1>1, <1>3

LEMMA SessionsInit == Init => Sessions!Init
<1> SUFFICES ASSUME Init PROVE Sessions!Init  OBVIOUS
<1>1. State = [s \in Sid |-> "free"]
  BY DEF Init, State
<1>2. event = Sessions!Quiet
  BY DEF Init, Quiet, Event, Sessions!Quiet, Sessions!Event
<1> QED  BY <1>1, <1>2 DEF Sessions!Init

(* A step after which no session is in another state but those that have   *)
(* ended, and nothing was called.                                          *)
LEMMA QuietStep ==
  ASSUME sock' = sock, event' = Quiet, \A s \in Sid : alive'[s] => alive[s]
  PROVE  Sessions!Next
<1>1. \A s \in Sid : State'[s] = State[s] \/ (State[s] = "open" /\ State'[s] = "closing")
  BY DEF State
<1>2. State' = [s \in Sid |-> State'[s]]
  BY DEF State
<1>3. Sessions!Ends(State)
  BY <1>1, <1>2, EndsIf DEF Sessions!Ends
<1>4. event' = Sessions!Quiet
  BY DEF Quiet, Event, Sessions!Quiet, Sessions!Event
<1> QED  BY <1>3, <1>4 DEF Sessions!Next, Sessions!Between

LEMMA SessionsStep ==
  ASSUME IInv, StreamInv, [Next]_vars
  PROVE  [Sessions!Next]_(Sessions!vars)
<1>0. /\ sock \in [Sid -> Socket \cup {NoSocket}] /\ alive \in [Sid -> BOOLEAN]
      /\ pc \in {"process", "clean"} => cur \in Sid
      /\ send_buf \in [Sid -> 0 .. SendCapacity]
  BY DEF IInv, Types, TypeOK, Phases
<1>1. CASE sock' = sock /\ event' = Quiet /\ \A s \in Sid : alive'[s] => alive[s]
  BY <1>1, QuietStep
<1>2. CASE Accept
  <2>1. PICK k \in Socket, s \in Sid :
          /\ s = free_sids[next_sid]
          /\ sock' = [sock EXCEPT ![s] = k]
          /\ GameCalls(sock', [alive EXCEPT ![s] = TRUE], Cleared(send_buf, s, 0))
          /\ event' = Event("connected", s, << >>)
    BY <1>2, Zenon DEF Accept
  <2>2. sock[s] = NoSocket
    BY <1>2, <2>1, TopIsFree DEF Accept, IInv
  <2>3. \A x \in Sid : x # s /\ alive'[x] => alive[x]
    <3>1. [alive EXCEPT ![s] = TRUE] \in [Sid -> BOOLEAN]
      BY <1>0
    <3>2. Cleared(send_buf, s, 0) \in [Sid -> 0 .. SendCapacity]
      <4>1. 0 \in 0 .. SendCapacity
        BY Sizes
      <4> QED  BY <1>0, <4>1 DEF Cleared
    <3>3. \A x \in Sid : alive'[x] => [alive EXCEPT ![s] = TRUE][x]
      BY <2>1, <3>1, <3>2, GameCallsBounded, Zenon
    <3> QED  BY <1>0, <3>3
  <2> DEFINE now == [State EXCEPT ![s] = "open"]
  <2>4. State[s] = "free" /\ now[s] = "open" /\ \A x \in Sid : x # s => now[x] = State[x]
    BY <2>2 DEF State
  <2>5. sock'[s] # NoSocket /\ \A x \in Sid : x # s => sock'[x] = sock[x]
    BY <1>0, <2>1, Sizes
  <2>6. State' = [x \in Sid |-> State'[x]]
    BY DEF State
  <2>7. \A x \in Sid : State'[x] = now[x] \/ (now[x] = "open" /\ State'[x] = "closing")
    <3>1. State'[s] \in {"open", "closing"}
      BY <2>5 DEF State
    <3>2. ASSUME NEW x \in Sid, x # s
          PROVE  State'[x] = State[x] \/ (State[x] = "open" /\ State'[x] = "closing")
      BY <2>3, <2>5, <3>2 DEF State
    <3> HIDE DEF now
    <3> QED  BY <2>4, <3>1, <3>2
  <2>8. Sessions!Ends(now)
    <3> HIDE DEF now
    <3> QED  BY <2>6, <2>7, EndsIf DEF Sessions!Ends
  <2>9. Sessions!Connected(s)
    BY <2>1, <2>4, <2>8 DEF Sessions!Connected, Sessions!Opens, Sessions!Event, Event
  <2> QED  BY <2>9 DEF Sessions!Next
<1>3. CASE Process
  <2>1. /\ pc = "process" /\ cur \in Sid /\ alive[cur] /\ sock' = sock
        /\ event' = Event("packet", cur, SubSeq(recv_buf[cur], 1, Packet_size(cur)))
        /\ Packet_size(cur) = 2 + recv_buf[cur][2][2]
        /\ HoldsPacket(recv_buf[cur])
    BY <1>0, <1>3 DEF Process, MoreComes, Packet_size, HeaderSize, HoldsPacket
  <2>2. sock[cur] # NoSocket /\ InStep(recv_buf[cur], stream[cur]) /\ recv_buf[cur] \in Seq(Byte)
    BY <2>1 DEF StreamInv, IInv, Types
  <2>3. SubSeq(recv_buf[cur], 1, Packet_size(cur)) \in Packet
    BY <2>1, <2>2, PacketTaken
  <2>4. \A x \in Sid : alive'[x] => alive[x]
    BY <1>0, <1>3, GameCallsBounded, Zenon DEF Process
  <2>5. \A s \in Sid : State'[s] = State[s] \/ (State[s] = "open" /\ State'[s] = "closing")
    BY <2>1, <2>4 DEF State
  <2>6. State' = [s \in Sid |-> State'[s]]
    BY DEF State
  <2>7. Sessions!Delivers(cur)
    <3>1. State[cur] = "open"
      BY <2>1, <2>2 DEF State
    <3>2. Sessions!Ends(State)
      BY <2>5, <2>6, EndsIf DEF Sessions!Ends
    <3> QED  BY <3>1, <3>2 DEF Sessions!Delivers
  <2>8. Sessions!PacketReceived(cur)
    BY <2>1, <2>3, <2>7 DEF Sessions!PacketReceived, Sessions!Event, Event
  <2> QED  BY <2>1, <2>8 DEF Sessions!Next
<1>4. CASE CleanDead
  <2>1. /\ pc = "clean" /\ cur \in Sid /\ sock[cur] # NoSocket /\ ~alive[cur]
        /\ sock' = [sock EXCEPT ![cur] = NoSocket]
        /\ event' = Event("disconnected", cur, << >>)
    BY <1>0, <1>4 DEF CleanDead
  <2>2. \A x \in Sid : alive'[x] => alive[x]
    <3>1. Cleared(send_buf, cur, 0) \in [Sid -> 0 .. SendCapacity]
      <4>1. 0 \in 0 .. SendCapacity
        BY Sizes
      <4> QED  BY <1>0, <4>1 DEF Cleared
    <3> QED  BY <1>0, <1>4, <3>1, GameCallsBounded, Zenon DEF CleanDead
  <2> DEFINE now == [State EXCEPT ![cur] = "free"]
  <2>3. State[cur] = "closing" /\ now[cur] = "free" /\ \A x \in Sid : x # cur => now[x] = State[x]
    BY <2>1 DEF State
  <2>4. sock'[cur] = NoSocket /\ \A x \in Sid : x # cur => sock'[x] = sock[x]
    BY <1>0, <2>1
  <2>5. State' = [x \in Sid |-> State'[x]]
    BY DEF State
  <2>6. \A x \in Sid : State'[x] = now[x] \/ (now[x] = "open" /\ State'[x] = "closing")
    <3>1. State'[cur] = "free"
      BY <2>1, <2>4 DEF State
    <3>2. ASSUME NEW x \in Sid, x # cur
          PROVE  State'[x] = State[x] \/ (State[x] = "open" /\ State'[x] = "closing")
      BY <2>2, <2>4, <3>2 DEF State
    <3> HIDE DEF now
    <3> QED  BY <2>3, <3>1, <3>2
  <2>7. Sessions!Ends(now)
    <3> HIDE DEF now
    <3> QED  BY <2>5, <2>6, EndsIf DEF Sessions!Ends
  <2>8. Sessions!Disconnected(cur)
    BY <2>1, <2>3, <2>7 DEF Sessions!Disconnected, Sessions!Frees, Sessions!Event, Event
  <2> QED  BY <2>1, <2>8 DEF Sessions!Next
<1>5. CASE Shutdown
  <2>1. State' = [s \in Sid |-> "free"]
    BY <1>5 DEF Shutdown, State
  <2>2. event' = Sessions!Quiet
    BY <1>5 DEF Shutdown, Quiet, Event, Sessions!Quiet, Sessions!Event
  <2> QED  BY <2>1, <2>2 DEF Sessions!Next, Sessions!Closed
<1>6. CASE UNCHANGED vars
  <2>1. UNCHANGED <<sock, alive, event>>
    BY <1>6 DEF vars
  <2> QED  BY <2>1 DEF Sessions!vars, State
<1>7. CASE GameUpdate
  <2>1. \A x \in Sid : alive'[x] => alive[x]
    BY <1>0, <1>7, GameCallsBounded, Zenon DEF GameUpdate
  <2> QED  BY <1>1, <1>7, <2>1 DEF GameUpdate
<1>8. CASE Receive
  <2>1. \A x \in Sid : alive'[x] => alive[x]
    BY <1>0, <1>8 DEF Receive
  <2> QED  BY <1>1, <1>8, <2>1 DEF Receive, poolVars
<1>9. CASE Send
  <2>1. \A x \in Sid : alive'[x] => alive[x]
    BY <1>0, <1>9 DEF Send
  <2> QED  BY <1>1, <1>9, <2>1 DEF Send
<1>10. CASE CheckIdle  BY <1>1, <1>10 DEF CheckIdle
<1>11. CASE \/ Update \/ PollListen \/ AcceptNone \/ Reject \/ Select \/ Processed
            \/ ReadsDone \/ WritesDone \/ CleanOther
  BY <1>1, <1>11 DEF Update, PollListen, AcceptNone, Reject, Select, Processed, ReadsDone,
     WritesDone, CleanOther
<1> QED
  BY <1>2, <1>3, <1>4, <1>5, <1>6, <1>7, <1>8, <1>9, <1>10, <1>11 DEF Next, Loop, Closed

(* What the Game sees of every session is what ClientSessions promises:    *)
(* it is announced, delivers whole packets while it is alive, and is       *)
(* reported closed once before its id is used again.                       *)
THEOREM SessionsImplemented == Spec => ImplementsClientSessions
<1>1. Init => Sessions!Init
  BY SessionsInit
<1>2. (IInv /\ StreamInv) /\ [Next]_vars => [Sessions!Next]_(Sessions!vars)
  BY SessionsStep
<1> QED  BY <1>1, <1>2, StreamCorrect, PTL DEF Spec, ImplementsClientSessions, Sessions!Spec
=============================================================================
