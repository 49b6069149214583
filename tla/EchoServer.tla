----------------------------- MODULE EchoServer -----------------------------
(***************************************************************************)
(* The IOCP echo server: the main thread that starts the server and shuts  *)
(* it down, the accept thread, the pool of worker threads on one I/O       *)
(* completion port, and the kernel that carries out the overlapped         *)
(* receives and sends they post.                                           *)
(*                                                                         *)
(* A session's two ring buffers are the bounded byte sequences that module *)
(* RingBuffer is shown to implement; the byte that a client sends as its   *)
(* i-th is the number i.  A completion packet is told apart by the         *)
(* OVERLAPPED it names, which is one of two per session, so the port is    *)
(* the state of every OVERLAPPED ("posted": the kernel has it, "done": its *)
(* packet is queued) and the packets without one that shutdown() posts.    *)
(***************************************************************************)
EXTENDS Integers, Sequences, FiniteSets

CONSTANTS
    Worker,     \* the worker threads
    Acceptor,   \* the accept thread
    Session,    \* the Session objects the run may allocate
    NoSession,
    Free,       \* the owner of a lock nobody holds
    Capacity,   \* of a ring buffer whose allocation succeeds
    SidMod,     \* the number of session ids (2^32 in the code)
    MaxBytes,   \* bound: the bytes a client sends
    Failures    \* what may fail: start(), allocations, I/O, the packets of shutdown()

ASSUME ThreadAssumption == /\ IsFiniteSet(Worker)
                           /\ Acceptor \notin Worker
                           /\ Free \notin Worker \cup {Acceptor}
ASSUME SessionAssumption == NoSession \notin Session
ASSUME NumberAssumption == /\ Capacity \in Nat \ {0}
                           /\ SidMod \in Nat \ {0}
                           /\ MaxBytes \in Nat
                           /\ Failures \subseteq {"start", "memory", "io", "post"}

Thread == Worker \cup {Acceptor}
Op == {"recv", "send"}
Sid == 0 .. SidMod - 1

VARIABLES
    main_pc, running, listening, nulls,     \* main, and what it shares
    refused,                                \* the packets shutdown() could not post
    pc, ret, cur, transferred,              \* the threads' locals
    session_map, session_map_lock, next_sid,
    mem, sid, lock, io_count, sending,      \* the Session objects
    capacity, recv_buffer, send_buffer,
    io, wsabuf, internal_high, landed,      \* the OVERLAPPEDs, the kernel
    delivered, echoed, fin, failed,         \* what a client sent and saw
    aborted                                 \* why the process died, if it did

mainVars == <<main_pc, running, listening, nulls, refused>>
threadVars == <<pc, ret, cur, transferred>>
mapVars == <<session_map, session_map_lock, next_sid>>
objVars == <<mem, sid, capacity>>
syncVars == <<lock, io_count, sending>>
bufVars == <<recv_buffer, send_buffer>>
ioVars == <<io, wsabuf, internal_high, landed>>
clientVars == <<delivered, echoed, fin, failed>>

vars == <<mainVars, threadVars, mapVars, objVars, syncVars, bufVars,
          ioVars, clientVars, aborted>>

MainLabel == {"start", "spawn_accept", "spawn_workers", "input", "close",
              "post", "join_accept", "join_workers", "returned", "exited"}
Label == {"none", "loop", "wait", "done", "accept", "emplace", "associate",
          "abandon", "recvpost", "wsarecv", "recv_lock", "echo", "sendpost",
          "wsasend", "unsend", "send_lock", "recheck", "leave", "dec",
          "erase", "drain", "reap"}
Return == {"loop", "echo", "abandon", "unsend", "leave"}

Bytes(first, n) == [i \in 1 .. n |-> first + i]
Drop(seq, n) == SubSeq(seq, n + 1, Len(seq))

Init ==
    /\ main_pc = "start" /\ running = FALSE /\ listening = FALSE
    /\ nulls = 0 /\ refused = 0
    /\ pc = [t \in Thread |-> "none"]
    /\ ret = [t \in Thread |-> "loop"]
    /\ cur = [t \in Thread |-> NoSession]
    /\ transferred = [t \in Thread |-> 0]
    /\ session_map = [i \in Sid |-> NoSession]
    /\ session_map_lock = Free
    /\ next_sid = 0
    /\ mem = [s \in Session |-> "none"]
    /\ sid = [s \in Session |-> 0]
    /\ capacity = [s \in Session |-> [o \in Op |-> Capacity]]
    /\ lock = [s \in Session |-> Free]
    /\ io_count = [s \in Session |-> 0]
    /\ sending = [s \in Session |-> 0]
    /\ recv_buffer = [s \in Session |-> << >>]
    /\ send_buffer = [s \in Session |-> << >>]
    /\ io = [s \in Session |-> [o \in Op |-> "idle"]]
    /\ wsabuf = [s \in Session |-> [o \in Op |-> 0]]
    /\ internal_high = [s \in Session |-> [o \in Op |-> 0]]
    /\ landed = [s \in Session |-> << >>]
    /\ delivered = [s \in Session |-> 0]
    /\ echoed = [s \in Session |-> << >>]
    /\ fin = [s \in Session |-> FALSE]
    /\ failed = [s \in Session |-> FALSE]
    /\ aborted = "no"

Up == aborted = "no" /\ main_pc # "exited"

(* bad_alloc, which nobody catches *)
OutOfMemory == "memory" \in Failures /\ aborted' = "bad_alloc"

Goto(t, label) == pc' = [pc EXCEPT ![t] = label]
At(t, label) == Up /\ pc[t] = label

(***************************************************************************)
(* Mutants: bugs a change could bring in. Each stands for the definition   *)
(* it is named after, and breaks the property that watches for it.         *)
(***************************************************************************)
NextSid_NoWrap == next_sid + 1
PacketsToPost_OneShort == Cardinality(Worker) - 1
AfterRefusal_NoDecrement(otherwise) == otherwise
IsLast_OldValue(count) == count = 1
Erased_Kept(s) == session_map
Free_size_Whole(buffer, size) == size
SendStarts_Always(s) == TRUE
Rest_WholeWindow(s, n) == Drop(send_buffer[s], wsabuf[s]["send"])
SendingAfter_Kept(s, rest) == sending[s]
Unlocked_Kept(s) == lock

(***************************************************************************)
(* main(), start() and shutdown().                                         *)
(***************************************************************************)

(* Everything start() does before its threads; a failure ends main(). *)
Start ==
    /\ Up /\ main_pc = "start"
    /\ \/ /\ main_pc' = "spawn_accept"
          /\ running' = TRUE
          /\ listening' = TRUE
       \/ /\ "start" \in Failures
          /\ main_pc' = "returned"
          /\ UNCHANGED <<running, listening>>
    /\ UNCHANGED <<nulls, refused, threadVars, mapVars, objVars, syncVars,
                   bufVars, ioVars, clientVars, aborted>>

(* _beginthreadex() fails: start() gives up, the threads it made go on. *)
SpawnFails ==
    /\ "start" \in Failures
    /\ running' = FALSE
    /\ main_pc' = "returned"
    /\ UNCHANGED pc

SpawnAccept ==
    /\ Up /\ main_pc = "spawn_accept"
    /\ \/ /\ Goto(Acceptor, "loop")
          /\ main_pc' = "spawn_workers"
          /\ UNCHANGED running
       \/ SpawnFails
    /\ UNCHANGED <<listening, nulls, refused, ret, cur, transferred, mapVars,
                   objVars, syncVars, bufVars, ioVars, clientVars, aborted>>

(* Without memory for the handle of a thread, the exception ends main().   *)
SpawnWorker ==
    /\ Up /\ main_pc = "spawn_workers"
    /\ \/ \E w \in Worker : /\ pc[w] = "none"
                            /\ Goto(w, "loop")
                            /\ UNCHANGED <<main_pc, running, aborted>>
       \/ \E w \in Worker : /\ pc[w] = "none"
                            /\ Goto(w, "loop")
                            /\ OutOfMemory
                            /\ UNCHANGED <<main_pc, running>>
       \/ /\ \E w \in Worker : pc[w] = "none"
          /\ SpawnFails
          /\ UNCHANGED aborted
       \/ /\ \A w \in Worker : pc[w] # "none"
          /\ main_pc' = "input"
          /\ UNCHANGED <<pc, running, aborted>>
    /\ UNCHANGED <<listening, nulls, refused, ret, cur, transferred, mapVars,
                   objVars, syncVars, bufVars, ioVars, clientVars>>

(* The user presses ENTER: the first statement of shutdown(). *)
Shutdown ==
    /\ Up /\ main_pc = "input"
    /\ running' = FALSE
    /\ main_pc' = "close"
    /\ UNCHANGED <<listening, nulls, refused, threadVars, mapVars, objVars, syncVars,
                   bufVars, ioVars, clientVars, aborted>>

CloseListenSock ==
    /\ Up /\ main_pc = "close"
    /\ listening' = FALSE
    /\ main_pc' = "post"
    /\ UNCHANGED <<running, nulls, refused, threadVars, mapVars, objVars, syncVars,
                   bufVars, ioVars, clientVars, aborted>>

PacketsToPost == Cardinality(Worker)

(* One packet without an OVERLAPPED for every worker; nobody looks whether *)
(* PostQueuedCompletionStatus() posts it.                                  *)
PostNulls ==
    /\ Up /\ main_pc = "post"
    /\ refused' \in IF "post" \in Failures THEN 0 .. PacketsToPost ELSE {0}
    /\ nulls' = nulls + PacketsToPost - refused'
    /\ main_pc' = "join_accept"
    /\ UNCHANGED <<running, listening, threadVars, mapVars, objVars, syncVars,
                   bufVars, ioVars, clientVars, aborted>>

WorkersEnded == \A w \in Worker : pc[w] = "done"

(* WaitForSingleObject() on the accept thread, then on every worker. *)
Join ==
    /\ Up
    /\ \/ /\ main_pc = "join_accept"
          /\ pc[Acceptor] = "done"
          /\ main_pc' = "join_workers"
       \/ /\ main_pc = "join_workers"
          /\ WorkersEnded
          /\ main_pc' = "returned"
    /\ UNCHANGED <<running, listening, nulls, refused, threadVars, mapVars,
                   objVars, syncVars, bufVars, ioVars, clientVars, aborted>>

(* main() destroys the server and returns, and the process is gone. *)
Exit ==
    /\ Up /\ main_pc = "returned"
    /\ main_pc' = "exited"
    /\ UNCHANGED <<running, listening, nulls, refused, threadVars, mapVars,
                   objVars, syncVars, bufVars, ioVars, clientVars, aborted>>

(***************************************************************************)
(* What both kinds of thread do.                                           *)
(***************************************************************************)

(* while (server->running): the body's locals begin anew. *)
LoopTop(t) ==
    /\ At(t, "loop")
    /\ Goto(t, IF ~running THEN "done" ELSE IF t = Acceptor THEN "accept" ELSE "wait")
    /\ ret' = [ret EXCEPT ![t] = "loop"]
    /\ cur' = [cur EXCEPT ![t] = NoSession]
    /\ transferred' = [transferred EXCEPT ![t] = 0]
    /\ UNCHANGED <<mainVars, mapVars, objVars, syncVars, bufVars, ioVars,
                   clientVars, aborted>>

Free_size(buffer, size) == size - Len(buffer)

(* recvpost() up to the call of WSARecv(): the window is all the free space. *)
RecvPost(t) ==
    /\ At(t, "recvpost")
    /\ LET s == cur[t]
           total_free == Free_size(recv_buffer[s], capacity[s]["recv"])
       IN  IF total_free = 0
           THEN /\ aborted' = "recv_full"
                /\ UNCHANGED <<pc, io_count, wsabuf, internal_high>>
           ELSE /\ wsabuf' = [wsabuf EXCEPT ![s]["recv"] = total_free]
                /\ internal_high' = [internal_high EXCEPT ![s]["recv"] = 0]
                /\ io_count' = [io_count EXCEPT ![s] = @ + 1]
                /\ Goto(t, "wsarecv")
                /\ UNCHANGED aborted
    /\ UNCHANGED <<mainVars, ret, cur, transferred, mapVars, objVars, lock,
                   sending, bufVars, io, landed, clientVars>>

AfterRefusal(otherwise) == "dec"

(* The kernel takes the operation, or refuses it at once. *)
Submit(t, op, label, otherwise) ==
    LET s == cur[t]
    IN  \/ /\ io' = [io EXCEPT ![s][op] = "posted"]
           /\ Goto(t, label)
           /\ UNCHANGED <<ret, failed>>
        \/ /\ "io" \in Failures
           /\ failed' = [failed EXCEPT ![s] = TRUE]
           /\ ret' = [ret EXCEPT ![t] = otherwise]
           /\ Goto(t, AfterRefusal(otherwise))
           /\ UNCHANGED io

(* A worker ignores what recvpost() returns; the accept thread does not. *)
WSARecv(t) ==
    /\ At(t, "wsarecv")
    /\ IF t = Acceptor THEN Submit(t, "recv", "loop", "abandon")
                       ELSE Submit(t, "recv", "echo", "echo")
    /\ UNCHANGED <<mainVars, cur, transferred, mapVars, objVars, syncVars,
                   bufVars, wsabuf, internal_high, landed, delivered, echoed,
                   fin, aborted>>

IsLast(count) == count = 0

(* decrement_io_count(): the thread that brings it to 0 frees the session. *)
Decrement(t) ==
    /\ At(t, "dec")
    /\ io_count' = [io_count EXCEPT ![cur[t]] = @ - 1]
    /\ Goto(t, IF IsLast(io_count[cur[t]] - 1) THEN "erase" ELSE ret[t])
    /\ UNCHANGED <<mainVars, ret, cur, transferred, mapVars, objVars, lock,
                   sending, bufVars, ioVars, clientVars, aborted>>

Erased(s) == [session_map EXCEPT ![sid[s]] = NoSession]

(* AcquireSRWLockExclusive() and the erase; the lock is kept. *)
Erase(t) ==
    /\ At(t, "erase")
    /\ session_map_lock = Free
    /\ session_map_lock' = t
    /\ session_map' = Erased(cur[t])
    /\ Goto(t, "drain")
    /\ UNCHANGED <<mainVars, ret, cur, transferred, next_sid, objVars,
                   syncVars, bufVars, ioVars, clientVars, aborted>>

(* Enter and leave session->lock (a CRITICAL_SECTION is recursive), then
   release the map's lock. *)
Drain(t) ==
    /\ At(t, "drain")
    /\ lock[cur[t]] \in {Free, t}
    /\ session_map_lock' = Free
    /\ Goto(t, "reap")
    /\ UNCHANGED <<mainVars, ret, cur, transferred, session_map, next_sid,
                   objVars, syncVars, bufVars, ioVars, clientVars, aborted>>

(* closesocket(), DeleteCriticalSection(), delete session *)
Reap(t) ==
    /\ At(t, "reap")
    /\ mem' = [mem EXCEPT ![cur[t]] = "freed"]
    /\ Goto(t, ret[t])
    /\ UNCHANGED <<mainVars, ret, cur, transferred, mapVars, sid, capacity,
                   syncVars, bufVars, ioVars, clientVars, aborted>>

(***************************************************************************)
(* accept_thread_proc()                                                    *)
(***************************************************************************)

NextSid == (next_sid + 1) % SidMod

(* accept() returns a socket and the Session is allocated; the allocation  *)
(* of either ring buffer may fail unnoticed.                               *)
AcceptClient(t) ==
    /\ At(t, "accept") /\ listening
    /\ \E s \in Session, size \in [Op -> IF "memory" \in Failures THEN {0, Capacity} ELSE {Capacity}] :
          /\ mem[s] = "none"
          /\ mem' = [mem EXCEPT ![s] = "live"]
          /\ capacity' = [capacity EXCEPT ![s] = size]
          /\ sid' = [sid EXCEPT ![s] = next_sid]
          /\ cur' = [cur EXCEPT ![t] = s]
    /\ next_sid' = NextSid
    /\ Goto(t, "emplace")
    /\ UNCHANGED <<mainVars, ret, transferred, session_map, session_map_lock,
                   syncVars, bufVars, ioVars, clientVars, aborted>>

(* accept() fails, as it must once the socket is closed, or new does. *)
AcceptNothing(t) ==
    /\ At(t, "accept")
    /\ Failures # {} \/ ~listening
    /\ Goto(t, "loop")
    /\ UNCHANGED <<mainVars, ret, cur, transferred, mapVars, objVars,
                   syncVars, bufVars, ioVars, clientVars, aborted>>

(* emplace() leaves an entry that is already there as it is; without       *)
(* memory for a new one it ends the process.                               *)
Emplace(t) ==
    /\ At(t, "emplace")
    /\ session_map_lock = Free
    /\ \/ /\ session_map' = [session_map EXCEPT ![sid[cur[t]]] = IF @ = NoSession THEN cur[t] ELSE @]
          /\ Goto(t, "associate")
          /\ UNCHANGED aborted
       \/ OutOfMemory /\ UNCHANGED <<session_map, pc>>
    /\ UNCHANGED <<mainVars, ret, cur, transferred, session_map_lock, next_sid,
                   objVars, syncVars, bufVars, ioVars, clientVars>>

(* CreateIoCompletionPort() of the client's socket *)
Associate(t) ==
    /\ At(t, "associate")
    /\ \/ /\ Goto(t, "recvpost")
          /\ UNCHANGED failed
       \/ /\ "io" \in Failures
          /\ failed' = [failed EXCEPT ![cur[t]] = TRUE]
          /\ Goto(t, "abandon")
    /\ UNCHANGED <<mainVars, ret, cur, transferred, mapVars, objVars, syncVars,
                   bufVars, ioVars, delivered, echoed, fin, aborted>>

(* The clean-up after Associate() or recvpost() failed. When it was the    *)
(* latter, decrement_io_count() has freed the session already.             *)
Abandon(t) ==
    /\ At(t, "abandon")
    /\ IF mem[cur[t]] = "live"
       THEN /\ session_map_lock = Free
            /\ session_map' = Erased(cur[t])
            /\ mem' = [mem EXCEPT ![cur[t]] = "freed"]
            /\ Goto(t, "loop")
            /\ UNCHANGED aborted
       ELSE /\ aborted' = "double_free"
            /\ UNCHANGED <<session_map, mem, pc>>
    /\ UNCHANGED <<mainVars, ret, cur, transferred, session_map_lock, next_sid,
                   sid, capacity, syncVars, bufVars, ioVars, clientVars>>

(***************************************************************************)
(* worker_thread_proc()                                                    *)
(***************************************************************************)

(* GetQueuedCompletionStatus() returns one of shutdown()'s packets. *)
DequeueNull(t) ==
    /\ At(t, "wait") /\ nulls > 0
    /\ nulls' = nulls - 1
    /\ Goto(t, "done")
    /\ UNCHANGED <<main_pc, running, listening, refused, ret, cur, transferred,
                   mapVars, objVars, syncVars, bufVars, ioVars, clientVars, aborted>>

(* ... or a completed operation; no bytes means end of stream or failure. *)
DequeuePacket(t) ==
    /\ At(t, "wait")
    /\ \E s \in Session, op \in Op :
          /\ io[s][op] = "done"
          /\ io' = [io EXCEPT ![s][op] = "idle"]
          /\ cur' = [cur EXCEPT ![t] = s]
          /\ transferred' = [transferred EXCEPT ![t] = internal_high[s][op]]
          /\ Goto(t, IF internal_high[s][op] = 0 THEN "dec"
                     ELSE IF op = "recv" THEN "recv_lock" ELSE "send_lock")
    /\ UNCHANGED <<mainVars, ret, mapVars, objVars, syncVars, bufVars, wsabuf,
                   internal_high, landed, clientVars, aborted>>

(* A receive: take the lock and the bytes the kernel has written. *)
EnterRecv(t) ==
    LET s == cur[t]
    IN  /\ At(t, "recv_lock") /\ lock[s] = Free
        /\ lock' = [lock EXCEPT ![s] = t]
        /\ recv_buffer' = [recv_buffer EXCEPT ![s] = @ \o SubSeq(landed[s], 1, transferred[t])]
        /\ landed' = [landed EXCEPT ![s] = Drop(@, transferred[t])]
        /\ Goto(t, "recvpost")
        /\ UNCHANGED <<mainVars, ret, cur, transferred, mapVars, objVars,
                       io_count, sending, send_buffer, io, wsabuf,
                       internal_high, clientVars, aborted>>

(* InterlockedCompareExchange(&session->sending, 1, 0) == 0 *)
SendStarts(s) == sending[s] = 0

(* Move all that was received to the send buffer, in at most two parts, and
   start a send unless one is going on. *)
Echo(t) ==
    LET s == cur[t]
    IN  /\ At(t, "echo")
        /\ IF recv_buffer[s] = << >>
           THEN /\ Goto(t, "leave")
                /\ UNCHANGED <<ret, sending, bufVars, aborted>>
           ELSE IF Free_size(send_buffer[s], capacity[s]["send"]) < Len(recv_buffer[s])
           THEN /\ aborted' = "send_full"
                /\ UNCHANGED <<pc, ret, sending, bufVars>>
           ELSE /\ send_buffer' = [send_buffer EXCEPT ![s] = @ \o recv_buffer[s]]
                /\ recv_buffer' = [recv_buffer EXCEPT ![s] = << >>]
                /\ sending' = [sending EXCEPT ![s] = 1]
                /\ ret' = [ret EXCEPT ![t] = "unsend"]
                /\ Goto(t, IF SendStarts(s) THEN "sendpost" ELSE "leave")
                /\ UNCHANGED aborted
        /\ UNCHANGED <<mainVars, cur, transferred, mapVars, objVars, lock,
                       io_count, ioVars, clientVars>>

(* sendpost() up to the call of WSASend() *)
SendPost(t) ==
    LET s == cur[t]
    IN  /\ At(t, "sendpost")
        /\ IF send_buffer[s] = << >>
           THEN /\ Goto(t, ret[t])
                /\ UNCHANGED <<io_count, wsabuf, internal_high>>
           ELSE /\ wsabuf' = [wsabuf EXCEPT ![s]["send"] = Len(send_buffer[s])]
                /\ internal_high' = [internal_high EXCEPT ![s]["send"] = 0]
                /\ io_count' = [io_count EXCEPT ![s] = @ + 1]
                /\ Goto(t, "wsasend")
        /\ UNCHANGED <<mainVars, ret, cur, transferred, mapVars, objVars, lock,
                       sending, bufVars, io, landed, clientVars, aborted>>

(* WSASend(): only the receive path looks at what sendpost() returns. *)
WSASend(t) ==
    /\ At(t, "wsasend")
    /\ Submit(t, "send", "leave", ret[t])
    /\ UNCHANGED <<mainVars, cur, transferred, mapVars, objVars, syncVars,
                   bufVars, wsabuf, internal_high, landed, delivered, echoed,
                   fin, aborted>>

(* sendpost() failed on the receive path: nobody is sending. *)
Unsend(t) ==
    /\ At(t, "unsend")
    /\ sending' = [sending EXCEPT ![cur[t]] = 0]
    /\ Goto(t, "leave")
    /\ UNCHANGED <<mainVars, ret, cur, transferred, mapVars, objVars, lock,
                   io_count, bufVars, ioVars, clientVars, aborted>>

Rest(s, n) == Drop(send_buffer[s], n)
SendingAfter(s, rest) == IF rest = << >> THEN 0 ELSE sending[s]

(* A send: take the lock, drop what was sent, and send the rest. *)
EnterSend(t) ==
    LET s == cur[t]
        rest == Rest(s, transferred[t])
    IN  /\ At(t, "send_lock") /\ lock[s] = Free
        /\ lock' = [lock EXCEPT ![s] = t]
        /\ send_buffer' = [send_buffer EXCEPT ![s] = rest]
        /\ ret' = [ret EXCEPT ![t] = "leave"]
        /\ sending' = [sending EXCEPT ![s] = SendingAfter(s, rest)]
        /\ Goto(t, IF rest = << >> THEN "recheck" ELSE "sendpost")
        /\ UNCHANGED <<mainVars, cur, transferred, mapVars, objVars, io_count,
                       recv_buffer, ioVars, clientVars, aborted>>

(* The second look at the send buffer once sending is 0 *)
Recheck(t) ==
    LET s == cur[t]
        again == send_buffer[s] # << >> /\ SendStarts(s)
    IN  /\ At(t, "recheck")
        /\ sending' = [sending EXCEPT ![s] = IF again THEN 1 ELSE @]
        /\ Goto(t, IF again THEN "sendpost" ELSE "leave")
        /\ UNCHANGED <<mainVars, ret, cur, transferred, mapVars, objVars, lock,
                       io_count, bufVars, ioVars, clientVars, aborted>>

Unlocked(s) == [lock EXCEPT ![s] = Free]

(* LeaveCriticalSection(), then decrement_io_count() for the packet. *)
Leave(t) ==
    /\ At(t, "leave")
    /\ lock' = Unlocked(cur[t])
    /\ ret' = [ret EXCEPT ![t] = "loop"]
    /\ Goto(t, "dec")
    /\ UNCHANGED <<mainVars, cur, transferred, mapVars, objVars, io_count,
                   sending, bufVars, ioVars, clientVars, aborted>>

(***************************************************************************)
(* The kernel and the clients                                              *)
(***************************************************************************)

Complete(s, op, n) ==
    /\ Up /\ io[s][op] = "posted"
    /\ io' = [io EXCEPT ![s][op] = "done"]
    /\ internal_high' = [internal_high EXCEPT ![s][op] = n]

(* Bytes arrive: at most the window that was posted. *)
KernelRecv(s) ==
    /\ \E n \in 1 .. MaxBytes - delivered[s] :
          /\ n <= wsabuf[s]["recv"]
          /\ Complete(s, "recv", n)
          /\ landed' = [landed EXCEPT ![s] = @ \o Bytes(delivered[s], n)]
          /\ delivered' = [delivered EXCEPT ![s] = @ + n]
    /\ UNCHANGED <<mainVars, threadVars, mapVars, objVars, syncVars, bufVars,
                   wsabuf, echoed, fin, failed, aborted>>

(* The client has shut down its side and all its bytes were received. *)
KernelEof(s) ==
    /\ Complete(s, "recv", 0)
    /\ fin' = [fin EXCEPT ![s] = TRUE]
    /\ UNCHANGED <<mainVars, threadVars, mapVars, objVars, syncVars, bufVars,
                   wsabuf, landed, delivered, echoed, failed, aborted>>

(* The client takes some of the bytes from the front of the send buffer. *)
KernelSend(s) ==
    /\ \E n \in 1 .. wsabuf[s]["send"] :
          /\ Complete(s, "send", n)
          /\ echoed' = [echoed EXCEPT ![s] = @ \o SubSeq(send_buffer[s], 1, n)]
    /\ UNCHANGED <<mainVars, threadVars, mapVars, objVars, syncVars, bufVars,
                   wsabuf, landed, delivered, fin, failed, aborted>>

(* The connection is reset: what was posted fails. *)
KernelFail(s) ==
    /\ "io" \in Failures
    /\ \E op \in Op : Complete(s, op, 0)
    /\ failed' = [failed EXCEPT ![s] = TRUE]
    /\ UNCHANGED <<mainVars, threadVars, mapVars, objVars, syncVars, bufVars,
                   wsabuf, landed, delivered, echoed, fin, aborted>>

(***************************************************************************)
(* The specification                                                       *)
(***************************************************************************)
Main == \/ Start \/ SpawnAccept \/ SpawnWorker \/ Shutdown
        \/ CloseListenSock \/ PostNulls \/ Join \/ Exit

AcceptStep(t) == \/ AcceptClient(t) \/ AcceptNothing(t) \/ Emplace(t)
                 \/ Associate(t) \/ Abandon(t)

WorkerStep(t) == \/ DequeueNull(t) \/ DequeuePacket(t) \/ EnterRecv(t)
                 \/ Echo(t) \/ SendPost(t) \/ WSASend(t) \/ Unsend(t)
                 \/ EnterSend(t) \/ Recheck(t) \/ Leave(t)

ThreadStep(t) == \/ LoopTop(t) \/ RecvPost(t) \/ WSARecv(t) \/ Decrement(t)
                 \/ Erase(t) \/ Drain(t) \/ Reap(t)
                 \/ AcceptStep(t) \/ WorkerStep(t)

Kernel(s) == \/ KernelRecv(s) \/ KernelEof(s) \/ KernelSend(s) \/ KernelFail(s)

(* The process has ended, or main() waits for a worker that waits for a    *)
(* packet that was not posted.                                             *)
WaitsInVain ==
    refused > 0 /\ nulls = 0 /\ main_pc = "join_workers" /\ \E w \in Worker : pc[w] = "wait"
Terminated == (~Up \/ WaitsInVain) /\ UNCHANGED vars

Next == \/ Main
        \/ \E t \in Thread : ThreadStep(t)
        \/ \E s \in Session : Kernel(s)
        \/ Terminated

Spec == Init /\ [][Next]_vars

(* Threads are scheduled, and main() runs until it waits for the user; a   *)
(* user presses ENTER, a client sends or closes, when it pleases.          *)
ThreadFairness == /\ WF_vars(Start \/ SpawnAccept \/ SpawnWorker)
                  /\ WF_vars(CloseListenSock \/ PostNulls \/ Join \/ Exit)
                  /\ \A t \in Thread : WF_vars(ThreadStep(t))

(* Clients that read what they are sent. *)
ReadingClients == \A s \in Session : WF_vars(KernelSend(s) \/ KernelFail(s))

FairSpec == Spec /\ ThreadFairness /\ ReadingClients

(***************************************************************************)
(* Who uses a session, and what its io_count counts.                       *)
(***************************************************************************)
Idle == {"none", "loop", "wait", "done", "accept"}
Fresh == {"emplace", "associate", "recvpost"}   \* of the accept thread
Reaping == {"erase", "drain", "reap"}
Locked == {"recvpost", "wsarecv", "echo", "sendpost", "wsasend", "unsend",
           "recheck", "leave"}                  \* of a worker

Uses(t, s) == pc[t] \notin Idle /\ cur[t] = s
HoldsLock(t, s) == /\ t \in Worker /\ cur[t] = s
                   /\ \/ pc[t] \in Locked
                      \/ pc[t] = "dec" /\ ret[t] # "loop"

(* A reference is an operation the kernel or the port has, the packet a    *)
(* worker is working on, or the operation a thread is just posting.        *)
OwnsPacket(t, s) == /\ t \in Worker /\ cur[t] = s
                    /\ pc[t] \notin Idle \cup Reaping
Posting(t, s) == /\ cur[t] = s
                 /\ \/ pc[t] \in {"wsarecv", "wsasend"}
                    \/ pc[t] = "dec" /\ ret[t] # "loop"

IoRefs(s) == {op \in Op : io[s][op] # "idle"}
PacketRefs(s) == {t \in Thread : OwnsPacket(t, s)}
PostRefs(s) == {t \in Thread : Posting(t, s)}
NoRefs(s) == IoRefs(s) = {} /\ PacketRefs(s) = {} /\ PostRefs(s) = {}

RecvChain(s) == \/ io[s]["recv"] # "idle"
                \/ \E t \in Thread : /\ Uses(t, s)
                                     /\ pc[t] \in Fresh \cup {"wsarecv", "recv_lock"}
SendChain(s) == \/ io[s]["send"] # "idle"
                \/ \E t \in Thread : cur[t] = s /\ pc[t] = "send_lock"

(* A connection as its client sees it: open from accept() until its        *)
(* Session is deleted.                                                     *)
Stage == [s \in Session |-> IF mem[s] = "none" THEN "none"
                            ELSE IF mem[s] = "live" THEN "open" ELSE "closed"]
Service == INSTANCE EchoService WITH Connection <- Session, stage <- Stage

(***************************************************************************)
(* Properties                                                              *)
(***************************************************************************)

ControlTypeOK ==
    /\ main_pc \in MainLabel /\ running \in BOOLEAN /\ listening \in BOOLEAN
    /\ pc \in [Thread -> Label] /\ ret \in [Thread -> Return]
    /\ cur \in [Thread -> Session \cup {NoSession}]
    /\ session_map \in [Sid -> Session \cup {NoSession}]
    /\ session_map_lock \in Thread \cup {Free} /\ next_sid \in Sid
    /\ mem \in [Session -> {"none", "live", "freed"}]
    /\ sid \in [Session -> Sid]
    /\ lock \in [Session -> Thread \cup {Free}]
    /\ io_count \in [Session -> Int]
    /\ sending \in [Session -> {0, 1}]
    /\ io \in [Session -> [Op -> {"idle", "posted", "done"}]]
    /\ aborted \in {"no", "bad_alloc", "recv_full", "send_full", "double_free"}

DataTypeOK ==
    /\ nulls \in Nat /\ refused \in Nat
    /\ transferred \in [Thread -> Nat]
    /\ capacity \in [Session -> [Op -> {0, Capacity}]]
    /\ recv_buffer \in [Session -> Seq(Nat)]
    /\ send_buffer \in [Session -> Seq(Nat)]
    /\ wsabuf \in [Session -> [Op -> Nat]]
    /\ internal_high \in [Session -> [Op -> Nat]]
    /\ landed \in [Session -> Seq(Nat)]
    /\ delivered \in [Session -> Nat]
    /\ echoed \in [Session -> Seq(Nat)]
    /\ fin \in [Session -> BOOLEAN] /\ failed \in [Session -> BOOLEAN]

(* Every variable has its type. *)
TypeOK == ControlTypeOK /\ DataTypeOK

(* io_count is the number of references, however the posting, completing   *)
(* and decrementing of several threads interleave.                         *)
RefCount ==
    \A s \in Session :
        io_count[s] = Cardinality(IoRefs(s)) + Cardinality(PacketRefs(s))
                      + Cardinality(PostRefs(s))

(* What RefCount and NoUseAfterFree rest on. A thread has a receive (send)  *)
(* token of a session while it handles that completion or posts the next;  *)
(* and it has the session to itself before the first receive is posted and *)
(* once the last reference is gone.                                        *)
RecvToken(t, s) == cur[t] = s /\ pc[t] \in {"recv_lock", "recvpost", "wsarecv"}
SendToken(t, s) == /\ cur[t] = s
                   /\ \/ pc[t] \in {"send_lock", "sendpost", "wsasend", "unsend"}
                      \/ pc[t] = "dec" /\ ret[t] = "unsend"
Exclusive(t) == \/ pc[t] \in Reaping
                \/ t = Acceptor /\ pc[t] \in Fresh \cup {"wsarecv", "dec"}
                \/ t = Acceptor /\ pc[t] = "abandon" /\ mem[cur[t]] = "live"
Alone(t) == /\ mem[cur[t]] = "live"
            /\ IoRefs(cur[t]) = {}
            /\ \A u \in Thread \ {t} : ~Uses(u, cur[t])

(* Which labels the two kinds of thread reach, and where they return to. *)
ControlFlow ==
    /\ \A t \in Thread : pc[t] \notin Idle => cur[t] \in Session
    /\ \A w \in Worker :
          /\ pc[w] \notin {"accept", "emplace", "associate", "abandon"}
          /\ ret[w] # "abandon"
          /\ pc[w] \in {"wait"} \cup Reaping => ret[w] = "loop"
          /\ pc[w] \in {"sendpost", "wsasend", "recheck"} => ret[w] \in {"unsend", "leave"}
    /\ pc[Acceptor] \in {"none", "loop", "done", "accept", "abandon", "wsarecv", "dec"}
                        \cup Fresh \cup Reaping
    /\ pc[Acceptor] \in {"dec"} \cup Reaping => ret[Acceptor] = "abandon"

OneRecv ==
    \A s \in Session, t \in Thread :
        RecvToken(t, s) => /\ io[s]["recv"] = "idle"
                           /\ \A u \in Thread \ {t} : ~RecvToken(u, s)

OneSend ==
    \A s \in Session :
        /\ sending[s] = 0 => io[s]["send"] = "idle"
        /\ \A t \in Thread :
              SendToken(t, s) => /\ sending[s] = 1
                                 /\ io[s]["send"] = "idle"
                                 /\ \A u \in Thread \ {t} : ~SendToken(u, s)

(* No thread touches a Session that was deleted, with one exception: the   *)
(* accept thread's clean-up after its recvpost() failed.                   *)
NoUseAfterFree ==
    \A t \in Thread : \/ pc[t] \in Idle
                      \/ mem[cur[t]] = "live"
                      \/ t = Acceptor /\ pc[t] = "abandon"

(* All of it together: io_count is right, and a Session that an operation, *)
(* a packet or a thread refers to is live.                                 *)
LifetimeInv ==
    /\ ControlTypeOK /\ ControlFlow /\ OneRecv /\ OneSend
    /\ \A t \in Thread : Exclusive(t) => Alone(t)
    /\ \A s \in Session : IoRefs(s) # {} => mem[s] = "live"
    /\ RefCount /\ NoUseAfterFree

(* decrement_io_count() deletes a session that no operation, no other      *)
(* thread and no holder of its lock knows any more.                        *)
ReapAlone ==
    \A t \in Thread : pc[t] \in Reaping =>
        /\ NoRefs(cur[t])
        /\ lock[cur[t]] = Free
        /\ \A u \in Thread \ {t} : ~Uses(u, cur[t])

(* An OVERLAPPED is cleared and posted only when neither the kernel nor    *)
(* the port has it, and no other thread is handling its last completion.   *)
NoOverlappedReuse ==
    \A t \in Thread :
        /\ pc[t] = "wsarecv" => /\ io[cur[t]]["recv"] = "idle"
                                /\ landed[cur[t]] = << >>
        /\ pc[t] \in {"sendpost", "wsasend"} => ~SendChain(cur[t])

(* The kernel writes received bytes into free space only, and reads sent   *)
(* bytes that stay where they are until their completion is handled.       *)
WindowsSafe ==
    \A s \in Session :
        /\ io[s]["recv"] = "posted" =>
              wsabuf[s]["recv"] + Len(recv_buffer[s]) <= capacity[s]["recv"]
        /\ SendChain(s) => wsabuf[s]["send"] <= Len(send_buffer[s])

(* Bytes wait in the send buffer of a session whose lock is free only      *)
(* while a send is under way that will come back for them.                 *)
NoLostWakeup ==
    \A s \in Session :
        (lock[s] = Free /\ send_buffer[s] # << >> /\ ~failed[s]) =>
            sending[s] = 1 /\ SendChain(s)

(* What a client gets back is what it sent, in order and without a gap;    *)
(* what it has not got back is in the buffers, once and in order.          *)
EchoInOrder ==
    \A s \in Session :
        LET sent == IF io[s]["send"] = "done" THEN internal_high[s]["send"] ELSE 0
            handled == IF \E t \in Thread : cur[t] = s /\ pc[t] = "send_lock"
                       THEN transferred[CHOOSE t \in Thread : cur[t] = s /\ pc[t] = "send_lock"]
                       ELSE 0
        IN  echoed[s] \o Drop(send_buffer[s], sent + handled) \o recv_buffer[s] \o landed[s]
                = Bytes(0, delivered[s])

(* The server does what EchoService promises: a client gets back what it   *)
(* sent, in order and without a gap, nothing once its session is deleted,  *)
(* and a session on which nothing failed is deleted only when its client   *)
(* has closed its side and has got back all it sent.                       *)
ImplementsEchoService == Service!Spec

(* The map never leads to a deleted session, even when session ids wrap;   *)
(* when they do not, it has every session that has a reference.            *)
MapMatches ==
    /\ \A i \in Sid : session_map[i] # NoSession =>
          mem[session_map[i]] = "live" /\ sid[session_map[i]] = i
    /\ IsFiniteSet(Session) /\ Cardinality(Session) <= SidMod =>
          \A s \in Session : ~NoRefs(s) => session_map[sid[s]] = s

(* DebugBreak() in recvpost(): the receive buffer has room for a receive. *)
NeverRecvFull == aborted # "recv_full"

(* DebugBreak() in the worker: the send buffer has room for the echo. *)
NeverSendFull == aborted # "send_full"

(* What a client sent comes back to the last byte, unless the connection   *)
(* or the server ends: as a client sends MaxBytes at most, the server has  *)
(* caught up with it again and again.                                      *)
EchoComplete ==
    \A s \in Session :
        []<>(Len(echoed[s]) = delivered[s] \/ failed[s] \/ ~running \/ ~Up)

(* A session that no longer receives is freed, whichever of its operations *)
(* is the last, and whatever failed, unless the server ends first.         *)
EndedFreed ==
    \A s \in Session :
        (mem[s] = "live" /\ ~RecvChain(s)) ~> (mem[s] = "freed" \/ ~running \/ ~Up)

(* shutdown() comes to its end: no thread is left waiting for a packet, a  *)
(* connection or a lock.  A packet that could not be posted, which         *)
(* shutdown() does not look at, leaves at most one worker waiting for      *)
(* ever, and shutdown() waits for that worker.                             *)
ShutdownEnds ==
    main_pc = "close" ~>
        \/ ~Up
        \/ refused > 0 /\ Cardinality({w \in Worker : pc[w] # "done"}) <= refused
=============================================================================
