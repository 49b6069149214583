---------------------------- MODULE SelectServer ----------------------------
(***************************************************************************)
(* SelectServer: one thread that polls a listen socket and the sockets of  *)
(* a fixed pool of sessions with select(), and calls the Game.             *)
(*                                                                         *)
(* The Game is any program: each of its callbacks may send a message to    *)
(* some sessions and disconnect some.  A receive buffer is the sequence of *)
(* its bytes, a send buffer the number of its messages (module RingBuffer  *)
(* is about what a buffer does to bytes).  A packet is a code, the size of *)
(* its body, and the body, whose bytes count down to its end: the server   *)
(* looks at the size only, so whatever a client sends is such packets.     *)
(* The third byte of a header, the type, counts as one of the code.        *)
(***************************************************************************)
EXTENDS Integers, Sequences, FiniteSets

CONSTANTS
    Socket,         \* what accept() may return
    NoSocket,       \* INVALID_SOCKET
    NoSid,
    MAX_SESSION,
    FD_SETSIZE,
    IDLE_TIMEOUT,
    RecvCapacity,   \* of a session's buffers
    SendCapacity,
    BodySize,       \* the sizes of the bodies clients send
    Failures        \* what may fail: memory, system calls

ASSUME SocketAssumption == /\ IsFiniteSet(Socket)
                           /\ NoSocket \notin Socket
ASSUME PoolAssumption == /\ MAX_SESSION \in Nat \ {0}
                         /\ FD_SETSIZE \in Nat \ {0}
                         /\ MAX_SESSION % FD_SETSIZE = 0
                         /\ NoSid \notin 0 .. MAX_SESSION
ASSUME BufferAssumption == /\ BodySize \subseteq 0 .. RecvCapacity - 2
                           /\ RecvCapacity \in Nat \ {0, 1}
                           /\ SendCapacity \in Nat \ {0}
                           /\ IDLE_TIMEOUT \in Nat
                           /\ Failures \subseteq {"memory", "call"}

Sid == 0 .. MAX_SESSION - 1

VARIABLES
    pc, cur,                            \* where update() is, and with whom
    first, readfds, writefds,           \* the batch that select() is asked for
    free_sids, next_sid, socket_to_sid_table,
    sock, alive, recv_buf, send_buf, silent,    \* the sessions; "silent" is
                                        \* current_time - last_activity
    memory,                             \* the sessions whose buffers exist
    stream,                             \* the last byte a client has sent
    event                               \* the last call of the Game

batchVars == <<first, readfds, writefds>>
poolVars == <<free_sids, next_sid, socket_to_sid_table>>
dataVars == <<recv_buf, silent, stream>>
vars == <<pc, cur, batchVars, poolVars, sock, alive, send_buf, dataVars, memory, event>>

Code == <<"code", 0>>
Packet == {<<Code, <<"size", n>>>> \o [i \in 1 .. n |-> <<"body", n + 1 - i>>] : n \in BodySize}
HeaderSize == 2

(* The byte that follows another one in what a client sends *)
NextByte(byte) ==
    IF byte = Code THEN {<<"size", n>> : n \in BodySize}
    ELSE IF byte[1] = "size" /\ byte[2] > 0 THEN {<<"body", byte[2]>>}
    ELSE IF byte[1] = "body" /\ byte[2] > 1 THEN {<<"body", byte[2] - 1>>}
    ELSE {Code}
PacketEnd == <<"body", 1>>
Byte == {Code} \cup {<<"size", n>> : n \in BodySize} \cup {<<"body", n>> : n \in 1 .. RecvCapacity - HeaderSize}

Event(call, s, packet) == [call |-> call, sid |-> s, packet |-> packet]
Quiet == Event("none", NoSid, << >>)

(***************************************************************************)
(* Mutants: bugs a change could bring in, each of the definition it is     *)
(* named after.                                                            *)
(***************************************************************************)
Pushed_BeforeStep(s) == [free_sids EXCEPT ![next_sid] = s]
Unregistered_Kept(s) == socket_to_sid_table
Unregistered_Clear(s) == [k \in Socket |-> NoSid]
Room_Whole(s, used) == SendCapacity
Cleared_Kept(buf, s, empty) == buf
WantsWrite_Always(s) == TRUE
MoreComes_Strict(s) ==
    /\ alive[s] /\ Len(recv_buf[s]) >= HeaderSize
    /\ Len(recv_buf[s]) > HeaderSize + recv_buf[s][2][2]
LastSid_OneShort == MAX_SESSION - 2

(***************************************************************************)
(* init_pool(), init_network()                                             *)
(***************************************************************************)

(* Clients are default-initialised: "alive" is whatever was there. *)
Init ==
    /\ pc = "update" /\ cur = NoSid
    /\ first = 0 /\ readfds = {} /\ writefds = {}
    /\ free_sids = [i \in 0 .. MAX_SESSION |-> MAX_SESSION - i]
    /\ next_sid = MAX_SESSION
    /\ socket_to_sid_table = [k \in Socket |-> NoSid]
    /\ sock = [s \in Sid |-> NoSocket]
    /\ alive \in [Sid -> BOOLEAN]
    /\ recv_buf = [s \in Sid |-> << >>]
    /\ send_buf = [s \in Sid |-> 0]
    /\ silent = [s \in Sid |-> 0]
    /\ memory \in IF "memory" \in Failures THEN SUBSET Sid ELSE {Sid}
    /\ stream = [s \in Sid |-> PacketEnd]
    /\ event = Quiet

(***************************************************************************)
(* send_to(), broadcast() and disconnect(), called by the Game             *)
(***************************************************************************)
Room(s, used) == IF s \in memory THEN SendCapacity - used ELSE 0

(* The Game sends each session some messages, of which those it is too     *)
(* late to enqueue kill the session, and ends the sessions in "kicked",    *)
(* given the sockets, the flags and the send buffers of the moment.        *)
GameCalls(socks, flags, bufs) ==
    \E messages \in [Sid -> 0 .. SendCapacity + 1], kicked \in SUBSET Sid :
        LET sent(s) == IF flags[s] /\ socks[s] # NoSocket THEN messages[s] ELSE 0
            fit(s) == sent(s) <= Room(s, bufs[s])
        IN  /\ alive' = [s \in Sid |-> flags[s] /\ s \notin kicked /\ fit(s)]
            /\ send_buf' = [s \in Sid |-> bufs[s] + IF fit(s) THEN sent(s) ELSE Room(s, bufs[s])]

(***************************************************************************)
(* update()                                                                *)
(***************************************************************************)

(* The clock is read: time has passed, or not enough to tell. *)
Update ==
    /\ pc = "update"
    /\ pc' = "listen"
    /\ \E passed \in {0, 1} :
          silent' = [s \in Sid |-> IF sock[s] # NoSocket /\ silent[s] <= IDLE_TIMEOUT
                                   THEN silent[s] + passed ELSE silent[s]]
    /\ event' = Quiet
    /\ UNCHANGED <<cur, batchVars, poolVars, sock, alive, send_buf, recv_buf, stream, memory>>

(* poll_listen_socket(): the socket is readable, or not, or select() fails. *)
PollListen ==
    /\ pc = "listen"
    /\ \/ pc' = "accept" /\ UNCHANGED first
       \/ pc' = "select" /\ first' = 0
    /\ event' = Quiet
    /\ UNCHANGED <<cur, readfds, writefds, poolVars, sock, alive, send_buf, dataVars, memory>>

(* accept() has no more connections, or fails. *)
AcceptNone ==
    /\ pc = "accept"
    /\ pc' = "select" /\ first' = 0
    /\ event' = Quiet
    /\ UNCHANGED <<cur, readfds, writefds, poolVars, sock, alive, send_buf, dataVars, memory>>

Full == free_sids[next_sid] = MAX_SESSION

(* The pool is empty, ioctlsocket() fails, or emplace() throws: the new    *)
(* socket is closed.                                                       *)
Reject ==
    /\ pc = "accept"
    /\ Full \/ "call" \in Failures
    /\ event' = Quiet
    /\ UNCHANGED <<pc, cur, batchVars, poolVars, sock, alive, send_buf, dataVars, memory>>

Cleared(buf, s, empty) == [buf EXCEPT ![s] = empty]

(* accept() returns a handle that is not in use. *)
Accept ==
    /\ pc = "accept" /\ ~Full
    /\ \E k \in Socket, s \in Sid :
          /\ \A other \in Sid : sock[other] # k
          /\ s = free_sids[next_sid]
          /\ socket_to_sid_table' = IF socket_to_sid_table[k] = NoSid
                                    THEN [socket_to_sid_table EXCEPT ![k] = s]
                                    ELSE socket_to_sid_table
          /\ sock' = [sock EXCEPT ![s] = k]
          /\ recv_buf' = Cleared(recv_buf, s, << >>)
          /\ silent' = [silent EXCEPT ![s] = 0]
          /\ stream' = [stream EXCEPT ![s] = PacketEnd]
          /\ GameCalls(sock', [alive EXCEPT ![s] = TRUE], Cleared(send_buf, s, 0))
          /\ event' = Event("connected", s, << >>)
    /\ next_sid' = next_sid - 1
    /\ UNCHANGED <<pc, cur, batchVars, free_sids, memory>>

(***************************************************************************)
(* poll_clients()                                                          *)
(***************************************************************************)
Batch == {s \in Sid : s \in first .. first + FD_SETSIZE - 1 /\ sock[s] # NoSocket}
WantsWrite(s) == send_buf[s] > 0

(* select() on one batch of sessions; if it fails, the batches that follow *)
(* have to wait for the next update().                                     *)
Select ==
    /\ pc = "select"
    /\ \/ /\ first < MAX_SESSION
          /\ \E readable \in SUBSET {sock[s] : s \in Batch},
                writable \in SUBSET {sock[s] : s \in {b \in Batch : WantsWrite(b)}} :
                readfds' = readable /\ writefds' = writable
          /\ pc' = "read"
       \/ /\ first < MAX_SESSION /\ Batch # {} /\ "call" \in Failures
          /\ pc' = "idle"
          /\ UNCHANGED <<readfds, writefds>>
       \/ /\ first >= MAX_SESSION
          /\ pc' = "idle"
          /\ UNCHANGED <<readfds, writefds>>
    /\ event' = Quiet
    /\ UNCHANGED <<first, cur, poolVars, sock, alive, send_buf, dataVars, memory>>

Free_size(s) == IF s \in memory THEN RecvCapacity - Len(recv_buf[s]) ELSE 0

(* The next n bytes a client may send *)
Sendings(s, n) ==
    {bytes \in [1 .. n -> Byte] :
        \A i \in 1 .. n : bytes[i] \in NextByte(IF i = 1 THEN stream[s] ELSE bytes[i - 1])}

(* handle_receive(), also of a session that is dead already: it is killed  *)
(* if its buffer is full, its client has closed, or recv() fails.          *)
Receive ==
    /\ pc = "read"
    /\ \E k \in readfds :
       LET s == socket_to_sid_table[k]
       IN  /\ readfds' = readfds \ {k}
           /\ \/ /\ alive' = [alive EXCEPT ![s] = FALSE]
                 /\ UNCHANGED <<pc, cur, dataVars>>
              \/ /\ Free_size(s) > 0                        \* WSAEWOULDBLOCK
                 /\ UNCHANGED <<pc, cur, alive, dataVars>>
              \/ \E n \in 1 .. Free_size(s) : \E bytes \in Sendings(s, n) :
                    /\ recv_buf' = [recv_buf EXCEPT ![s] = @ \o bytes]
                    /\ stream' = [stream EXCEPT ![s] = bytes[n]]
                    /\ silent' = [silent EXCEPT ![s] = 0]
                    /\ pc' = "process" /\ cur' = s
                    /\ UNCHANGED alive
    /\ event' = Quiet
    /\ UNCHANGED <<first, writefds, poolVars, sock, send_buf, memory>>

Packet_size(s) == HeaderSize + recv_buf[s][2][2]
MoreComes(s) == /\ alive[s]
                /\ Len(recv_buf[s]) >= HeaderSize
                /\ Len(recv_buf[s]) >= Packet_size(s)

(* process_recv_buffer(): the size of a body is a byte, and packet_buffer  *)
(* has room for the largest one.                                           *)
Process ==
    /\ pc = "process" /\ MoreComes(cur)
    /\ event' = Event("packet", cur, SubSeq(recv_buf[cur], 1, Packet_size(cur)))
    /\ recv_buf' = [recv_buf EXCEPT ![cur] = SubSeq(@, Packet_size(cur) + 1, Len(@))]
    /\ GameCalls(sock, alive, send_buf)
    /\ UNCHANGED <<pc, cur, batchVars, poolVars, sock, silent, stream, memory>>

Processed ==
    /\ pc = "process" /\ ~MoreComes(cur)
    /\ pc' = "read" /\ cur' = NoSid
    /\ event' = Quiet
    /\ UNCHANGED <<batchVars, poolVars, sock, alive, send_buf, dataVars, memory>>

ReadsDone ==
    /\ pc = "read" /\ readfds = {}
    /\ pc' = "write"
    /\ event' = Quiet
    /\ UNCHANGED <<cur, batchVars, poolVars, sock, alive, send_buf, dataVars, memory>>

(* handle_send(): send() returns 0 only when there is nothing to send. *)
Send ==
    /\ pc = "write"
    /\ \E k \in writefds :
       LET s == socket_to_sid_table[k]
       IN  /\ writefds' = writefds \ {k}
           /\ \/ /\ ~alive[s]
                 /\ UNCHANGED <<alive, send_buf>>
              \/ /\ alive[s] /\ (send_buf[s] = 0 \/ "call" \in Failures)
                 /\ alive' = [alive EXCEPT ![s] = FALSE]
                 /\ UNCHANGED send_buf
              \/ /\ alive[s] /\ send_buf[s] > 0
                 /\ \E n \in 0 .. send_buf[s] : send_buf' = [send_buf EXCEPT ![s] = @ - n]
                 /\ UNCHANGED alive
    /\ event' = Quiet
    /\ UNCHANGED <<pc, cur, first, readfds, poolVars, sock, dataVars, memory>>

WritesDone ==
    /\ pc = "write" /\ writefds = {}
    /\ pc' = "select" /\ first' = first + FD_SETSIZE
    /\ event' = Quiet
    /\ UNCHANGED <<cur, readfds, writefds, poolVars, sock, alive, send_buf, dataVars, memory>>

(***************************************************************************)
(* check_idle_timeout(), clean_dead_client(), and the Game's own update    *)
(***************************************************************************)
CheckIdle ==
    /\ pc = "idle"
    /\ alive' = [s \in Sid |-> alive[s] /\ ~(sock[s] # NoSocket /\ silent[s] > IDLE_TIMEOUT)]
    /\ pc' = "clean" /\ cur' = 0 /\ first' = 0
    /\ readfds' = {} /\ writefds' = {}
    /\ event' = Quiet
    /\ UNCHANGED <<poolVars, sock, send_buf, dataVars, memory>>

Unregistered(s) == [socket_to_sid_table EXCEPT ![sock[s]] = NoSid]
Pushed(s) == [free_sids EXCEPT ![next_sid + 1] = s]
LastSid == MAX_SESSION - 1
NextToClean == IF cur >= LastSid THEN pc' = "game" /\ cur' = NoSid
                                 ELSE cur' = cur + 1 /\ UNCHANGED pc

(* The Game is told while the session has no socket any more, so nothing   *)
(* it sends reaches the session, whose buffers are cleared afterwards (so  *)
(* they may as well be empty before).  The time of the last activity is    *)
(* not read again before Accept sets it: 0 stands for whatever it is.      *)
CleanDead ==
    /\ pc = "clean" /\ sock[cur] # NoSocket /\ ~alive[cur]
    /\ socket_to_sid_table' = Unregistered(cur)
    /\ sock' = [sock EXCEPT ![cur] = NoSocket]
    /\ GameCalls(sock', alive, Cleared(send_buf, cur, 0))
    /\ recv_buf' = Cleared(recv_buf, cur, << >>)
    /\ next_sid' = next_sid + 1
    /\ free_sids' = Pushed(cur)
    /\ silent' = [silent EXCEPT ![cur] = 0]
    /\ event' = Event("disconnected", cur, << >>)
    /\ NextToClean
    /\ UNCHANGED <<batchVars, stream, memory>>

CleanOther ==
    /\ pc = "clean" /\ (sock[cur] = NoSocket \/ alive[cur])
    /\ event' = Quiet
    /\ NextToClean
    /\ UNCHANGED <<batchVars, poolVars, sock, alive, send_buf, dataVars, memory>>

(* Game::update() between two update() of the server *)
GameUpdate ==
    /\ pc = "game"
    /\ GameCalls(sock, alive, send_buf)
    /\ pc' = "update"
    /\ event' = Quiet
    /\ UNCHANGED <<cur, batchVars, poolVars, sock, dataVars, memory>>

(* Ctrl+Q ends the loop of Game::run(); main() destroys the server. *)
Shutdown ==
    /\ pc = "update"
    /\ pc' = "closed"
    /\ sock' = [s \in Sid |-> NoSocket]
    /\ event' = Quiet
    /\ UNCHANGED <<cur, batchVars, poolVars, alive, send_buf, dataVars, memory>>

Closed == pc = "closed" /\ UNCHANGED vars

Loop == \/ Update \/ PollListen \/ AcceptNone \/ Reject \/ Accept
        \/ Select \/ Receive \/ Process \/ Processed \/ ReadsDone \/ Send \/ WritesDone
        \/ CheckIdle \/ CleanDead \/ CleanOther \/ GameUpdate

Next == Loop \/ Shutdown \/ Closed

Spec == Init /\ [][Next]_vars

(* The loop runs until it is ended; connections do not arrive for ever     *)
(* faster than the server rejects them.                                    *)
FairSpec == Spec /\ WF_vars(Loop)

(***************************************************************************)
(* Properties                                                              *)
(***************************************************************************)
Label == {"update", "listen", "accept", "select", "read", "process", "write",
          "idle", "clean", "game", "closed"}

(* Every variable has its type. *)
TypeOK ==
    /\ pc \in Label /\ cur \in Sid \cup {NoSid} /\ first \in Nat
    /\ readfds \subseteq Socket /\ writefds \subseteq Socket
    /\ free_sids \in [0 .. MAX_SESSION -> 0 .. MAX_SESSION] /\ next_sid \in 0 .. MAX_SESSION
    /\ socket_to_sid_table \in [Socket -> Sid \cup {NoSid}]
    /\ sock \in [Sid -> Socket \cup {NoSocket}] /\ alive \in [Sid -> BOOLEAN]
    /\ \A s \in Sid : Len(recv_buf[s]) <= RecvCapacity
    /\ send_buf \in [Sid -> 0 .. SendCapacity]
    /\ silent \in [Sid -> 0 .. IDLE_TIMEOUT + 1]
    /\ memory \subseteq Sid

(* The stack holds every id without a connection, once, above the mark     *)
(* that says it is empty: no id is given twice, and none is lost.          *)
PoolExact ==
    pc # "closed" =>
        /\ free_sids[0] = MAX_SESSION
        /\ {free_sids[i] : i \in 1 .. next_sid} = {s \in Sid : sock[s] = NoSocket}
        /\ \A i, j \in 1 .. next_sid : free_sids[i] = free_sids[j] => i = j

(* The table leads from a socket to the one session that has it, and has   *)
(* no socket besides, so a handle the system uses again is a new entry.    *)
TableMatches ==
    pc # "closed" =>
        \A k \in Socket, s \in Sid : socket_to_sid_table[k] = s <=> sock[s] = k

(* The two assertions of poll_clients(): a socket that select() was asked  *)
(* for is still in the table when its turn comes.                          *)
LookupsSucceed ==
    \A k \in readfds \cup writefds : socket_to_sid_table[k] # NoSid

(* No session is killed because its receive buffer is full: what           *)
(* process_recv_buffer() leaves there is less than a packet.               *)
RoomToReceive ==
    \A s \in Sid :
        (pc = "select" /\ sock[s] # NoSocket /\ alive[s] /\ s \in memory) => Free_size(s) > 0

(* No session is killed because send() had nothing to send. *)
NeverSendEmpty ==
    pc = "write" =>
        \A k \in writefds : alive[socket_to_sid_table[k]] => send_buf[socket_to_sid_table[k]] > 0

State == [s \in Sid |-> IF sock[s] = NoSocket THEN "free"
                        ELSE IF alive[s] THEN "open" ELSE "closing"]
Sessions == INSTANCE ClientSessions WITH state <- State

(* What the Game sees of a session: one connection, whole packets while it *)
(* is alive, one end; whoever had the id before.                           *)
ImplementsClientSessions == Sessions!Spec

(* A session that was killed, by whatever part of the program and in       *)
(* whatever phase of update(), loses its connection and returns its id.    *)
DeadLeave ==
    \A s \in Sid : (sock[s] # NoSocket /\ ~alive[s]) ~> sock[s] = NoSocket
=============================================================================
