--------------------------- MODULE EchoDataProofs ---------------------------
(***************************************************************************)
(* Proofs about the bytes that pass through EchoServer, for any number of  *)
(* workers, sessions and bytes: where they are, in which order, and who    *)
(* will come back for them.                                                *)
(***************************************************************************)
EXTENDS EchoServerProofs

(***************************************************************************)
(* The invariant. Its parts speak of one session: who holds its lock, what *)
(* the kernel has written or may write, how the bytes follow one another,  *)
(* and which thread or operation is under way for the bytes that wait.     *)
(***************************************************************************)
Is(t, s, labels) == cur[t] = s /\ pc[t] \in labels

Receiving == Fresh \cup {"wsarecv", "recv_lock"}

(* An operation that t was to post for s was refused. *)
Refused(t, s) ==
    /\ cur[t] = s
    /\ \/ pc[t] \in {"unsend", "abandon"}
       \/ pc[t] \in {"dec"} \cup Reaping /\ ret[t] # "loop"

(* t is between taking bytes into the receive buffer and moving them on. *)
Echoing(t, s) ==
    /\ t \in Worker /\ cur[t] = s
    /\ \/ pc[t] \in {"recvpost", "wsarecv", "echo"}
       \/ pc[t] = "dec" /\ ret[t] = "echo"

Held(s) ==
    /\ \A t \in Thread : HoldsLock(t, s) => lock[s] = t
    /\ lock[s] = Free \/ (lock[s] \in Worker /\ HoldsLock(lock[s], s))

Landing(s) ==
    /\ io[s]["recv"] = "done" => Len(landed[s]) = internal_high[s]["recv"]
    /\ \A t \in Thread : Is(t, s, {"recv_lock"}) => Len(landed[s]) = transferred[t]
    /\ Len(landed[s]) # 0 => \/ io[s]["recv"] = "done"
                             \/ \E t \in Thread : Is(t, s, {"recv_lock"})

Windows(s) ==
    LET room == wsabuf[s]["recv"] + Len(recv_buffer[s]) <= capacity[s]["recv"]
        full == wsabuf[s]["send"] <= Len(send_buffer[s])
    IN  /\ Len(recv_buffer[s]) + Len(landed[s]) <= capacity[s]["recv"]
        /\ io[s]["recv"] = "posted" => room
        /\ \A t \in Thread : Is(t, s, {"wsarecv"}) => room
        /\ io[s]["send"] # "idle" => full
        /\ \A t \in Thread : Is(t, s, {"send_lock", "wsasend"}) => full

(* n bytes at the front of the send buffer have been sent already. *)
Sent(s, n) ==
    /\ io[s]["send"] = "done" => n = internal_high[s]["send"]
    /\ \A t \in Thread : Is(t, s, {"send_lock"}) => n = transferred[t]
    /\ n # 0 => \/ io[s]["send"] = "done"
                \/ \E t \in Thread : Is(t, s, {"send_lock"})

(* What came back, the buffers and what has just landed, one after another. *)
Spans(x, y, z, n, e, a, b, c, d) ==
    /\ x + n <= y /\ y <= z /\ z <= d
    /\ e = Bytes(0, x + n) /\ a = Bytes(x, y - x)
    /\ b = Bytes(y, z - y) /\ c = Bytes(z, d - z)

Follow(n, e, a, b, c, d) == \E x, y, z \in Nat : Spans(x, y, z, n, e, a, b, c, d)

InOrder(s) ==
    \E n \in Nat : /\ Sent(s, n)
                   /\ Follow(n, echoed[s], send_buffer[s], recv_buffer[s], landed[s], delivered[s])

Waking(s) ==
    ~failed[s] =>
        /\ Len(send_buffer[s]) # 0 => sending[s] = 1
        /\ sending[s] = 1 => \/ io[s]["send"] # "idle"
                             \/ \E t \in Thread : SendToken(t, s)

Posts(s) ==
    /\ \A t \in Thread : Is(t, s, {"sendpost", "wsasend"}) => Len(send_buffer[s]) # 0
    /\ \A t \in Thread : Is(t, s, {"recheck"}) => Len(send_buffer[s]) = 0
    /\ \A t \in Thread : Refused(t, s) => failed[s]
    /\ Len(recv_buffer[s]) # 0 => \E t \in Thread : Echoing(t, s)

Ends(s) ==
    /\ io[s]["send"] = "done" /\ internal_high[s]["send"] = 0 => failed[s]
    /\ io[s]["recv"] = "done" /\ internal_high[s]["recv"] = 0 => failed[s] \/ fin[s]
    /\ mem[s] = "live" => \/ failed[s] \/ fin[s] \/ io[s]["recv"] # "idle"
                          \/ \E t \in Thread : Is(t, s, Receiving)
    /\ fin[s] => /\ mem[s] # "none"
                 /\ io[s]["recv"] # "posted"
                 /\ io[s]["recv"] = "done" => internal_high[s]["recv"] = 0
                 /\ \A t \in Thread : ~Is(t, s, Receiving)

SessionInv(s) ==
    Held(s) /\ Landing(s) /\ Windows(s) /\ InOrder(s) /\ Waking(s) /\ Posts(s) /\ Ends(s)

DataInv == DataTypeOK /\ \A s \in Session : SessionInv(s)

(***************************************************************************)
(* Runs of bytes                                                           *)
(***************************************************************************)

LEMMA BytesLen ==
  ASSUME NEW x \in Nat, NEW y \in Nat, x <= y
  PROVE  Len(Bytes(x, y - x)) = y - x /\ Bytes(x, y - x) \in Seq(Nat)
BY DEF Bytes

LEMMA BytesCat ==
  ASSUME NEW x \in Nat, NEW y \in Nat, NEW z \in Nat, x <= y, y <= z
  PROVE  Bytes(x, y - x) \o Bytes(y, z - y) = Bytes(x, z - x)
BY DEF Bytes

LEMMA BytesFront ==
  ASSUME NEW x \in Nat, NEW y \in Nat, NEW z \in Nat, x <= y, y <= z
  PROVE  SubSeq(Bytes(x, z - x), 1, y - x) = Bytes(x, y - x)
BY DEF Bytes

LEMMA BytesDrop ==
  ASSUME NEW x \in Nat, NEW y \in Nat, NEW z \in Nat, x <= y, y <= z
  PROVE  Drop(Bytes(x, z - x), y - x) = Bytes(y, z - y)
BY DEF Bytes, Drop

LEMMA BytesNone == \A x \in Nat : Bytes(x, x - x) = << >> /\ Bytes(x, 0) = << >>
BY DEF Bytes

(* The empty sequence is the one without bytes. *)
LEMMA EmptyLen ==
  ASSUME NEW q \in Seq(Nat)
  PROVE  Len(q) = 0 <=> q = << >>
OBVIOUS

LEMMA DropType ==
  ASSUME NEW q \in Seq(Nat), NEW n \in Nat
  PROVE  Drop(q, n) \in Seq(Nat) /\ (n <= Len(q) => Len(Drop(q, n)) = Len(q) - n)
BY DEF Drop

LEMMA Whole ==
  ASSUME NEW q \in Seq(Nat)
  PROVE  /\ SubSeq(q, 1, Len(q)) = q
         /\ Drop(q, Len(q)) \in Seq(Nat) /\ Len(Drop(q, Len(q))) = 0
<1>1. Len(q) \in Nat /\ Len(q) <= Len(q)
  OBVIOUS
<1>2. SubSeq(q, 1, Len(q)) = q
  OBVIOUS
<1>3. Len(q) - Len(q) = 0
  BY <1>1
<1> QED  BY <1>1, <1>2, <1>3, DropType

LEMMA FrontType ==
  ASSUME NEW q \in Seq(Nat), NEW n \in Nat, n <= Len(q)
  PROVE  SubSeq(q, 1, n) \in Seq(Nat) /\ Len(SubSeq(q, 1, n)) = n
OBVIOUS

(***************************************************************************)
(* What the steps that move bytes do to the sequence of all of them.       *)
(***************************************************************************)

(* All that was received moves behind what waits to be sent. *)
LEMMA FollowEcho ==
  ASSUME NEW e, NEW a, NEW b, NEW c, NEW d \in Nat, NEW n \in Nat,
         Follow(n, e, a, b, c, d)
  PROVE  Follow(n, e, a \o b, << >>, c, d)
<1>1. PICK x \in Nat, y \in Nat, z \in Nat : Spans(x, y, z, n, e, a, b, c, d)
  BY Zenon DEF Follow
<1>2. /\ x + n <= y /\ x <= y /\ y <= z /\ z <= d
      /\ e = Bytes(0, x + n) /\ a = Bytes(x, y - x) /\ b = Bytes(y, z - y) /\ c = Bytes(z, d - z)
  BY <1>1, SMT DEF Spans
<1>3. a \o b = Bytes(x, z - x) /\ << >> = Bytes(z, z - z)
  BY <1>2, BytesCat, BytesNone
<1>4. Spans(x, z, z, n, e, a \o b, << >>, c, d)
  BY <1>2, <1>3 DEF Spans
<1> QED  BY <1>4, Zenon DEF Follow

(* What has landed is taken into the receive buffer. *)
LEMMA FollowRecv ==
  ASSUME NEW e, NEW a, NEW b, NEW c, NEW d \in Nat, NEW n \in Nat,
         Follow(n, e, a, b, c, d)
  PROVE  Follow(n, e, a, b \o SubSeq(c, 1, Len(c)), Drop(c, Len(c)), d)
<1>1. PICK x \in Nat, y \in Nat, z \in Nat : Spans(x, y, z, n, e, a, b, c, d)
  BY Zenon DEF Follow
<1>2. /\ x + n <= y /\ x <= y /\ y <= z /\ z <= d
      /\ e = Bytes(0, x + n) /\ a = Bytes(x, y - x) /\ b = Bytes(y, z - y) /\ c = Bytes(z, d - z)
  BY <1>1, SMT DEF Spans
<1>3. Len(c) = d - z
  BY <1>2, BytesLen
<1>4. SubSeq(Bytes(z, d - z), 1, d - z) = Bytes(z, d - z) /\ Drop(Bytes(z, d - z), d - z) = Bytes(d, d - d)
  <2>1. z <= d /\ d <= d  BY <1>2
  <2>2. SubSeq(Bytes(z, d - z), 1, d - z) = Bytes(z, d - z)
    BY <2>1, BytesFront
  <2>3. Drop(Bytes(z, d - z), d - z) = Bytes(d, d - d)
    BY <2>1, BytesDrop
  <2> QED  BY <2>2, <2>3
<1>5. b \o SubSeq(c, 1, Len(c)) = Bytes(y, d - y) /\ Drop(c, Len(c)) = Bytes(d, d - d)
  <2>1. SubSeq(c, 1, Len(c)) = c /\ Drop(c, Len(c)) = Bytes(d, d - d)
    BY <1>2, <1>3, <1>4, Zenon
  <2>2. b \o c = Bytes(y, d - y)
    BY <1>2, BytesCat
  <2> QED  BY <2>1, <2>2, Zenon
<1>6. Spans(x, y, d, n, e, a, Bytes(y, d - y), Bytes(d, d - d), d)
  BY <1>2 DEF Spans
<1>7. Follow(n, e, a, Bytes(y, d - y), Bytes(d, d - d), d)
  BY <1>6, Zenon DEF Follow
<1> QED  BY <1>5, <1>7, Zenon

(* The bytes that have been sent are in the send buffer. *)
LEMMA FollowFront ==
  ASSUME NEW e, NEW a, NEW b, NEW c, NEW d \in Nat, NEW n \in Nat,
         Follow(n, e, a, b, c, d)
  PROVE  n <= Len(a)
<1>1. PICK x \in Nat, y \in Nat, z \in Nat : Spans(x, y, z, n, e, a, b, c, d)
  BY Zenon DEF Follow
<1>2. x + n <= y /\ x <= y /\ a = Bytes(x, y - x)
  BY <1>1, SMT DEF Spans
<1>3. Len(a) = y - x
  BY <1>2, BytesLen
<1> QED  BY <1>2, <1>3

(* The n bytes at the front of the send buffer are dropped. *)
LEMMA FollowSend ==
  ASSUME NEW e, NEW a, NEW b, NEW c, NEW d \in Nat, NEW n \in Nat,
         Follow(n, e, a, b, c, d)
  PROVE  Follow(0, e, Drop(a, n), b, c, d)
<1>1. PICK x \in Nat, y \in Nat, z \in Nat : Spans(x, y, z, n, e, a, b, c, d)
  BY Zenon DEF Follow
<1>2. /\ x + n <= y /\ x <= y /\ y <= z /\ z <= d
      /\ e = Bytes(0, x + n) /\ a = Bytes(x, y - x) /\ b = Bytes(y, z - y) /\ c = Bytes(z, d - z)
  BY <1>1, SMT DEF Spans
<1>3. PICK w \in Nat : w = x + n
  OBVIOUS
<1>4. w - x = n /\ x <= w /\ w <= y /\ w + 0 = w
  BY <1>2, <1>3
<1>5. Drop(a, n) = Bytes(w, y - w)
  BY <1>2, <1>4, BytesDrop
<1>6. Spans(w, y, z, 0, e, Drop(a, n), b, c, d)
  BY <1>2, <1>3, <1>4, <1>5 DEF Spans
<1> QED  BY <1>6, Zenon DEF Follow

(* k bytes land that nothing is in front of. *)
LEMMA FollowLand ==
  ASSUME NEW e, NEW a, NEW b, NEW c, NEW d \in Nat, NEW n \in Nat,
         Follow(n, e, a, b, c, d), c = << >>, NEW k \in Nat
  PROVE  Follow(n, e, a, b, c \o Bytes(d, k), d + k)
<1>1. PICK x \in Nat, y \in Nat, z \in Nat : Spans(x, y, z, n, e, a, b, c, d)
  BY Zenon DEF Follow
<1>2. /\ x + n <= y /\ x <= y /\ y <= z /\ z <= d
      /\ e = Bytes(0, x + n) /\ a = Bytes(x, y - x) /\ b = Bytes(y, z - y) /\ c = Bytes(z, d - z)
  BY <1>1, SMT DEF Spans
<1>3. z = d
  <2>1. Len(c) = d - z  BY <1>2, BytesLen
  <2>2. Len(c) = 0  OBVIOUS
  <2> QED  BY <1>2, <2>1, <2>2
<1>4. PICK v \in Nat : v = d + k
  OBVIOUS
<1>5. v - d = k /\ d <= v
  BY <1>4
<1>6. c \o Bytes(d, k) = Bytes(z, v - z)
  <2>1. Bytes(d, k) \in Seq(Nat)  BY <1>5, BytesLen
  <2> QED  BY <1>3, <1>5, <2>1
<1>7. Spans(x, y, z, n, e, a, b, c \o Bytes(d, k), v)
  BY <1>2, <1>3, <1>5, <1>6 DEF Spans
<1> QED  BY <1>4, <1>7, Zenon DEF Follow

(* e, a run from the first byte, is extended by k bytes, to q. *)
Grows(e, q, k, d) == \E m \in Nat : e = Bytes(0, m) /\ m + k <= d /\ q = Bytes(0, m + k)

(* k bytes at the front of the send buffer come back. *)
LEMMA FollowBack ==
  ASSUME NEW e, NEW a, NEW b, NEW c, NEW d \in Nat, Follow(0, e, a, b, c, d),
         NEW k \in Nat, k <= Len(a)
  PROVE  /\ Follow(k, e \o SubSeq(a, 1, k), a, b, c, d)
         /\ Grows(e, e \o SubSeq(a, 1, k), k, d)
<1>1. PICK x \in Nat, y \in Nat, z \in Nat : Spans(x, y, z, 0, e, a, b, c, d)
  BY Zenon DEF Follow
<1>2. /\ x + 0 <= y /\ x <= y /\ y <= z /\ z <= d
      /\ e = Bytes(0, x + 0) /\ a = Bytes(x, y - x) /\ b = Bytes(y, z - y) /\ c = Bytes(z, d - z)
  BY <1>1, SMT DEF Spans
<1>3. PICK w \in Nat : w = x + k
  OBVIOUS
<1>4. w - x = k /\ x <= w /\ w <= y /\ w <= d /\ x + 0 = x
  <2>1. Len(a) = y - x  BY <1>2, BytesLen
  <2> QED  BY <1>2, <1>3, <2>1
<1>5. SubSeq(a, 1, k) = Bytes(x, w - x)
  BY <1>2, <1>4, BytesFront
<1>6. e \o SubSeq(a, 1, k) = Bytes(0, w)
  <2>1. x - 0 = x /\ w - 0 = w /\ 0 \in Nat /\ 0 <= x  OBVIOUS
  <2>2. Bytes(0, x - 0) \o Bytes(x, w - x) = Bytes(0, w - 0)
    BY <1>4, <2>1, BytesCat
  <2> QED  BY <1>2, <1>4, <1>5, <2>1, <2>2
<1>7. Spans(x, y, z, k, e \o SubSeq(a, 1, k), a, b, c, d)
  BY <1>2, <1>3, <1>4, <1>6 DEF Spans
<1>8. Follow(k, e \o SubSeq(a, 1, k), a, b, c, d)
  BY <1>7, Zenon DEF Follow
<1>9. e = Bytes(0, x) /\ x + k <= d /\ e \o SubSeq(a, 1, k) = Bytes(0, x + k)
  BY <1>2, <1>3, <1>4, <1>6
<1> QED  BY <1>8, <1>9 DEF Grows

(***************************************************************************)
(* A step works on one session; the invariant of the others is kept.       *)
(***************************************************************************)
SameThread(u) == UNCHANGED <<pc[u], ret[u], cur[u], transferred[u]>>
Away(u, s) == cur[u] # s \/ pc[u] \in Idle

SameSession(s) ==
    UNCHANGED <<io[s], wsabuf[s], internal_high[s], landed[s], lock[s], sending[s],
                mem[s], capacity[s], recv_buffer[s], send_buffer[s], delivered[s],
                echoed[s], fin[s], failed[s]>>

SameFor(s) ==
    /\ SameSession(s)
    /\ \A u \in Thread : SameThread(u) \/ (Away(u, s) /\ Away(u, s)')

LEMMA Elsewhere ==
  ASSUME NEW s \in Session, SessionInv(s), SameFor(s)
  PROVE  SessionInv(s)'
<1> USE DEF Is, Idle, Fresh, Reaping, Locked
<1>1. /\ UNCHANGED <<io[s], wsabuf[s], internal_high[s], landed[s], lock[s], sending[s],
                     mem[s], capacity[s], recv_buffer[s], send_buffer[s], delivered[s],
                     echoed[s], fin[s], failed[s]>>
      /\ \A u \in Thread : SameThread(u) \/ (Away(u, s) /\ Away(u, s)')
  BY DEF SameFor, SameSession
<1>2. /\ \A u \in Thread : HoldsLock(u, s)' <=> HoldsLock(u, s)
      /\ \A u \in Thread : SendToken(u, s)' <=> SendToken(u, s)
      /\ \A u \in Thread : Refused(u, s)' <=> Refused(u, s)
      /\ \A u \in Thread : Echoing(u, s)' <=> Echoing(u, s)
  BY <1>1 DEF HoldsLock, SendToken, Refused, Echoing, SameThread, Away
<1>3. /\ \A u \in Thread : Is(u, s, {"recv_lock"})' <=> Is(u, s, {"recv_lock"})
      /\ \A u \in Thread : Is(u, s, {"send_lock"})' <=> Is(u, s, {"send_lock"})
      /\ \A u \in Thread : Is(u, s, {"wsarecv"})' <=> Is(u, s, {"wsarecv"})
      /\ \A u \in Thread : Is(u, s, {"recheck"})' <=> Is(u, s, {"recheck"})
      /\ \A u \in Thread : Is(u, s, {"send_lock", "wsasend"})' <=> Is(u, s, {"send_lock", "wsasend"})
      /\ \A u \in Thread : Is(u, s, {"sendpost", "wsasend"})' <=> Is(u, s, {"sendpost", "wsasend"})
      /\ \A u \in Thread : Is(u, s, Receiving)' <=> Is(u, s, Receiving)
  BY <1>1 DEF SameThread, Away, Receiving
<1>4. \A u \in Thread : Is(u, s, {"recv_lock", "send_lock"})' => transferred'[u] = transferred[u]
  BY <1>1 DEF SameThread, Away
<1>5. Held(s)'
  <2>1. Worker \subseteq Thread  BY DEF Thread
  <2> QED  BY <1>1, <1>2, <2>1 DEF SessionInv, Held
<1> HIDE DEF Is
<1>6. \A u \in Thread : Is(u, s, {"recv_lock"})' \/ Is(u, s, {"send_lock"})'
                            => transferred'[u] = transferred[u]
  BY <1>4 DEF Is
<1>7. Landing(s)'
  BY <1>1, <1>3, <1>6 DEF SessionInv, Landing
<1>8. Windows(s)'
  BY <1>1, <1>3 DEF SessionInv, Windows
<1>9. InOrder(s)'
  <2>1. PICK n \in Nat : /\ Sent(s, n)
                         /\ Follow(n, echoed[s], send_buffer[s], recv_buffer[s], landed[s], delivered[s])
    BY DEF SessionInv, InOrder
  <2>2. Sent(s, n)'
    BY <1>1, <1>3, <1>6, <2>1 DEF Sent
  <2>3. Follow(n, echoed'[s], send_buffer'[s], recv_buffer'[s], landed'[s], delivered'[s])
    BY <1>1, <2>1
  <2> QED  BY <2>2, <2>3 DEF InOrder
<1>10. Waking(s)'
  BY <1>1, <1>2 DEF SessionInv, Waking
<1>11. Posts(s)'
  BY <1>1, <1>2, <1>3 DEF SessionInv, Posts
<1>12. Ends(s)'
  BY <1>1, <1>3 DEF SessionInv, Ends
<1> QED  BY <1>5, <1>7, <1>8, <1>9, <1>10, <1>11, <1>12 DEF SessionInv

(* A step of t on session s. *)
OnlyAt(t, s) ==
    /\ \A u \in Thread \ {t} : SameThread(u)
    /\ \A x \in Session \ {s} : SameSession(x) /\ Away(t, x) /\ Away(t, x)'

LEMMA Local ==
  ASSUME NEW t \in Thread, NEW s \in Session, OnlyAt(t, s),
         \A x \in Session : SessionInv(x), SessionInv(s)'
  PROVE  \A x \in Session : SessionInv(x)'
<1>1. \A x \in Session \ {s} : SameFor(x)
  BY DEF OnlyAt, SameFor
<1> QED  BY <1>1, Elsewhere

(***************************************************************************)
(* Steps that move no byte                                                 *)
(***************************************************************************)
Good == LifetimeInv /\ LifetimeInv' /\ DataInv

SameBytes(s) ==
    UNCHANGED <<wsabuf[s], internal_high[s], landed[s], capacity[s], recv_buffer[s],
                send_buffer[s], delivered[s], echoed[s]>>

LEMMA BytesStay ==
  ASSUME NEW t \in Thread, NEW s \in Session, SessionInv(s), OnlyAt(t, s),
         SameBytes(s), UNCHANGED io[s],
         pc[t] \notin {"recv_lock", "send_lock"},
         pc'[t] \notin {"recv_lock", "send_lock", "wsarecv", "wsasend"}
  PROVE  Landing(s)' /\ Windows(s)' /\ InOrder(s)'
<1>1. UNCHANGED <<io[s], wsabuf[s], internal_high[s], landed[s], capacity[s], recv_buffer[s],
                  send_buffer[s], delivered[s], echoed[s]>>
  BY DEF SameBytes
<1>2. /\ \A u \in Thread : Is(u, s, {"recv_lock"})' <=> Is(u, s, {"recv_lock"})
      /\ \A u \in Thread : Is(u, s, {"send_lock"})' <=> Is(u, s, {"send_lock"})
      /\ \A u \in Thread : Is(u, s, {"wsarecv"})' => Is(u, s, {"wsarecv"})
      /\ \A u \in Thread : Is(u, s, {"send_lock", "wsasend"})' => Is(u, s, {"send_lock", "wsasend"})
      /\ \A u \in Thread : Is(u, s, {"recv_lock"})' \/ Is(u, s, {"send_lock"})'
                              => transferred'[u] = transferred[u]
  BY DEF Is, OnlyAt, SameThread
<1>3. Landing(s)'
  BY <1>1, <1>2 DEF SessionInv, Landing
<1>4. Windows(s)'
  BY <1>1, <1>2 DEF SessionInv, Windows
<1>5. InOrder(s)'
  <2>1. PICK n \in Nat : /\ Sent(s, n)
                         /\ Follow(n, echoed[s], send_buffer[s], recv_buffer[s], landed[s], delivered[s])
    BY DEF SessionInv, InOrder
  <2>2. Sent(s, n)'
    BY <1>1, <1>2, <2>1 DEF Sent
  <2>3. Follow(n, echoed'[s], send_buffer'[s], recv_buffer'[s], landed'[s], delivered'[s])
    BY <1>1, <2>1
  <2> QED  BY <2>2, <2>3 DEF InOrder
<1> QED  BY <1>3, <1>4, <1>5

(* A session's io, buffers and windows are those of DataTypeOK. *)
LEMMA Types ==
  ASSUME LifetimeInv, DataTypeOK, NEW s \in Session
  PROVE  /\ recv_buffer[s] \in Seq(Nat) /\ send_buffer[s] \in Seq(Nat)
         /\ landed[s] \in Seq(Nat) /\ echoed[s] \in Seq(Nat) /\ delivered[s] \in Nat
         /\ \A op \in {"recv", "send"} : /\ wsabuf[s][op] \in Nat /\ internal_high[s][op] \in Nat
                                         /\ capacity[s][op] \in {0, Capacity} /\ capacity[s][op] \in Nat
                                         /\ io[s][op] \in {"idle", "posted", "done"}
         /\ fin[s] \in BOOLEAN /\ failed[s] \in BOOLEAN /\ sending[s] \in {0, 1}
         /\ \A u \in Thread : transferred[u] \in Nat /\ pc[u] \in Label /\ ret[u] \in Return
<1>1. "recv" \in Op /\ "send" \in Op  BY DEF Op
<1>2. /\ io[s] \in [Op -> {"idle", "posted", "done"}] /\ sending[s] \in {0, 1}
      /\ \A u \in Thread : pc[u] \in Label /\ ret[u] \in Return
  BY DEF LifetimeInv, ControlTypeOK
<1>3. /\ wsabuf[s] \in [Op -> Nat] /\ internal_high[s] \in [Op -> Nat]
      /\ capacity[s] \in [Op -> {0, Capacity}]
  BY DEF DataTypeOK
<1>4. /\ recv_buffer[s] \in Seq(Nat) /\ send_buffer[s] \in Seq(Nat)
      /\ landed[s] \in Seq(Nat) /\ echoed[s] \in Seq(Nat) /\ delivered[s] \in Nat
      /\ fin[s] \in BOOLEAN /\ failed[s] \in BOOLEAN
      /\ \A u \in Thread : transferred[u] \in Nat
  BY DEF DataTypeOK
<1>5. \A op \in {"recv", "send"} :
         /\ wsabuf[s][op] \in Nat /\ internal_high[s][op] \in Nat
         /\ capacity[s][op] \in {0, Capacity} /\ capacity[s][op] \in Nat
         /\ io[s][op] \in {"idle", "posted", "done"}
  BY <1>1, <1>2, <1>3, NumberAssumption
<1> QED  BY <1>2, <1>4, <1>5

(* Where a thread that is about its business is. *)
LEMMA Busy ==
  ASSUME LifetimeInv, NEW t \in Thread, pc[t] \notin Idle
  PROVE  /\ cur[t] \in Session
         /\ pc \in [Thread -> Label] /\ ret \in [Thread -> Return]
         /\ cur \in [Thread -> Session \cup {NoSession}]
         /\ mem \in [Session -> {"none", "live", "freed"}]
         /\ lock \in [Session -> Thread \cup {Free}]
         /\ sending \in [Session -> {0, 1}]
         /\ io \in [Session -> [Op -> {"idle", "posted", "done"}]]
         /\ t # Acceptor <=> t \in Worker
<1>1. t # Acceptor <=> t \in Worker
  BY ThreadAssumption DEF Thread
<1>2. cur[t] \in Session
  BY DEF LifetimeInv, ControlFlow
<1> QED  BY <1>1, <1>2 DEF LifetimeInv, ControlTypeOK

(* Steps that give a reference up, and those of a fresh session. *)
LEMMA DataReap ==
  ASSUME Good, NEW t \in Thread,
         \/ Decrement(t) \/ Erase(t) \/ Drain(t) \/ Reap(t) \/ Associate(t)
         \/ Emplace(t) /\ aborted' = aborted
         \/ Abandon(t) /\ mem[cur[t]] = "live"
  PROVE  DataInv'
<1> USE DEF At, Goto, Idle, Fresh, Reaping, Locked
<1>1. pc[t] \notin Idle
  BY DEF Decrement, Erase, Drain, Reap, Emplace, Associate, Abandon
<1>0. PICK s \in Session : s = cur[t]
  BY <1>1, Busy DEF Good
<1>2. /\ cur[t] = s /\ (t # Acceptor <=> t \in Worker)
      /\ pc \in [Thread -> Label] /\ mem \in [Session -> {"none", "live", "freed"}]
      /\ ret \in [Thread -> Return]
  BY <1>0, <1>1, Busy DEF Good
<1>19. Emplace(t) /\ aborted' = aborted => pc' = [pc EXCEPT ![t] = "associate"]
  BY DEF Emplace, OutOfMemory, Up
<1>3. DataTypeOK /\ failed \in [Session -> BOOLEAN]
  BY DEF Good, DataInv, DataTypeOK
<1>4. /\ UNCHANGED <<cur, ret, transferred, io, wsabuf, internal_high, landed, capacity, recv_buffer,
                     send_buffer, delivered, echoed, nulls, refused, lock, sending, fin>>
      /\ \E l \in Label, m \in {"live", "freed"}, f \in BOOLEAN :
            /\ pc' = [pc EXCEPT ![t] = l]
            /\ mem' = [mem EXCEPT ![s] = m] \/ mem' = mem
            /\ failed' = [failed EXCEPT ![s] = f] \/ failed' = failed
  BY <1>2, <1>19 DEF Decrement, Erase, Drain, Reap, Emplace, Associate, Abandon, Label, Return,
              mainVars, objVars, syncVars, bufVars, ioVars, clientVars
<1>5. \/ pc[t] = "dec" /\ pc'[t] \in {"erase", ret[t]} /\ UNCHANGED <<mem[s], failed[s]>>
      \/ pc[t] = "erase" /\ pc'[t] = "drain" /\ UNCHANGED <<mem[s], failed[s]>>
      \/ pc[t] = "drain" /\ pc'[t] = "reap" /\ UNCHANGED <<mem[s], failed[s]>>
      \/ pc[t] = "reap" /\ pc'[t] = ret[t] /\ mem'[s] = "freed" /\ UNCHANGED failed[s]
      \/ pc[t] = "emplace" /\ pc'[t] = "associate" /\ UNCHANGED <<mem[s], failed[s]>>
      \/ pc[t] = "associate" /\ pc'[t] = "recvpost" /\ UNCHANGED <<mem[s], failed[s]>>
      \/ pc[t] = "associate" /\ pc'[t] = "abandon" /\ failed'[s] /\ UNCHANGED mem[s]
      \/ pc[t] = "abandon" /\ pc'[t] = "loop" /\ mem'[s] = "freed" /\ UNCHANGED failed[s]
  BY <1>2, <1>3, <1>19 DEF Decrement, Erase, Drain, Reap, Emplace, Associate, Abandon,
              objVars, clientVars
<1>6. OnlyAt(t, s)
  BY <1>2, <1>3, <1>4 DEF OnlyAt, SameThread, SameSession, Away
<1>7. SameBytes(s) /\ UNCHANGED io[s] /\ cur'[t] = s /\ ret'[t] = ret[t]
      /\ UNCHANGED <<lock[s], sending[s], fin[s]>>
  BY <1>0, <1>4 DEF SameBytes
<1>8. /\ t \in Worker =>
            /\ pc[t] \in Reaping => ret[t] = "loop"
            /\ pc'[t] \in Reaping => ret[t] = "loop"
            /\ ret[t] # "abandon" /\ pc[t] \notin {"emplace", "associate", "abandon"}
      /\ t = Acceptor => (pc[t] \in {"dec"} \cup Reaping => ret[t] = "abandon")
  BY <1>7, <1>2 DEF Good, LifetimeInv, ControlFlow
<1>9. SessionInv(s) /\ \A x \in Session : SessionInv(x)
  BY <1>2 DEF Good, DataInv
<1>10. Landing(s)' /\ Windows(s)' /\ InOrder(s)'
  BY <1>2, <1>5, <1>6, <1>7, <1>8, <1>9, BytesStay DEF Return
<1>11. \A u \in Thread \ {t} : SameThread(u)
  BY <1>6 DEF OnlyAt
<1>12. Held(s)'
  <2>0. HoldsLock(t, s)' <=> HoldsLock(t, s)
    BY <1>2, <1>5, <1>7, <1>8 DEF HoldsLock, Return
  <2>1. \A u \in Thread : HoldsLock(u, s)' <=> HoldsLock(u, s)
    BY <1>11, <2>0 DEF HoldsLock, SameThread
  <2>2. Worker \subseteq Thread  BY DEF Thread
  <2> QED  BY <1>7, <1>9, <2>1, <2>2 DEF SessionInv, Held
<1>13. Waking(s)'
  <2>0. SendToken(t, s) => SendToken(t, s)'
    BY <1>2, <1>5, <1>7, <1>8 DEF SendToken, Return
  <2>1. \A u \in Thread : SendToken(u, s) => SendToken(u, s)'
    BY <1>11, <2>0 DEF SendToken, SameThread
  <2>2. failed[s] => failed'[s]
    BY <1>5
  <2> QED  BY <1>7, <1>9, <2>1, <2>2 DEF SessionInv, Waking, SameBytes
<1>14. Posts(s)'
  <2>0. /\ pc'[t] \notin {"sendpost", "wsasend", "recheck"}
        /\ Echoing(t, s) => Echoing(t, s)'
        /\ Refused(t, s)' => Refused(t, s) \/ failed'[s]
    BY <1>2, <1>5, <1>7, <1>8 DEF Echoing, Refused, Return
  <2>1. \A u \in Thread : /\ Is(u, s, {"sendpost", "wsasend"})' => Is(u, s, {"sendpost", "wsasend"})
                          /\ Is(u, s, {"recheck"})' => Is(u, s, {"recheck"})
                          /\ Echoing(u, s) => Echoing(u, s)'
                          /\ Refused(u, s)' => Refused(u, s) \/ failed'[s]
    BY <1>11, <2>0 DEF Is, Echoing, Refused, SameThread
  <2>2. failed[s] => failed'[s]
    BY <1>5
  <2> QED  BY <1>7, <1>9, <2>1, <2>2 DEF SessionInv, Posts, SameBytes
<1>15. Ends(s)'
  <2>1. \A u \in Thread : /\ Is(u, s, Receiving)' => Is(u, s, Receiving)
                          /\ Is(u, s, Receiving) => Is(u, s, Receiving)' \/ failed'[s]
    <3>1. /\ Is(t, s, Receiving)' => Is(t, s, Receiving)
          /\ Is(t, s, Receiving) => Is(t, s, Receiving)' \/ failed'[s]
      BY <1>2, <1>5, <1>7, <1>8 DEF Is, Receiving, Return
    <3> QED  BY <1>11, <3>1 DEF Is, SameThread
  <2>2. /\ failed[s] => failed'[s]
        /\ mem'[s] = "live" => mem[s] = "live"
        /\ mem'[s] = "none" => mem[s] = "none"
    BY <1>5
  <2> QED  BY <1>7, <1>9, <2>1, <2>2 DEF SessionInv, Ends, SameBytes
<1>16. SessionInv(s)'
  BY <1>10, <1>12, <1>13, <1>14, <1>15 DEF SessionInv
<1>17. \A x \in Session : SessionInv(x)'
  BY <1>2, <1>6, <1>9, <1>16, Local
<1>18. DataTypeOK'
  BY <1>3, <1>4 DEF DataTypeOK
<1> QED  BY <1>17, <1>18 DEF DataInv

(* Steps that only say where a thread without a session is, or end the run. *)
LEMMA DataIdle ==
  ASSUME LifetimeInv, DataInv,
         \A x \in Session : SameSession(x),
         UNCHANGED <<capacity, recv_buffer, send_buffer, wsabuf, internal_high, landed,
                     delivered, echoed, fin, failed>>,
         nulls' \in Nat, refused' \in Nat, transferred' \in [Thread -> Nat],
         \A u \in Thread : SameThread(u) \/ (pc[u] \in Idle /\ pc'[u] \in Idle)
  PROVE  DataInv'
<1>1. \A x \in Session : SameFor(x)
  BY DEF SameFor, Away
<1>2. \A x \in Session : SessionInv(x)'
  BY <1>1, Elsewhere DEF DataInv
<1>3. DataTypeOK'
  BY DEF DataInv, DataTypeOK
<1> QED  BY <1>2, <1>3 DEF DataInv

(* main() moves no byte; a thread it starts has no session. *)
LEMMA DataMain ==
  ASSUME LifetimeInv, DataInv, NotYetSpawned, Main
  PROVE  DataInv'
<1>1. UNCHANGED <<cur, ret, transferred, mapVars, objVars, syncVars, bufVars, ioVars, clientVars>>
  BY DEF Main, Start, SpawnAccept, SpawnWorker, Shutdown, CloseListenSock, PostNulls,
         Join, Exit, threadVars
<1>2. pc' = pc \/ \E t \in Thread : pc[t] = "none" /\ pc' = [pc EXCEPT ![t] = "loop"]
  BY DEF NotYetSpawned, Main, Start, SpawnAccept, SpawnWorker, SpawnFails, Shutdown,
         CloseListenSock, PostNulls, Join, Exit, threadVars, Goto, Thread
<1>3. nulls' \in Nat /\ refused' \in Nat /\ transferred' \in [Thread -> Nat]
  <2>1. nulls \in Nat /\ refused \in Nat /\ transferred \in [Thread -> Nat]
    BY DEF DataInv, DataTypeOK
  <2>2. PacketsToPost \in Nat
    BY ThreadAssumption, FS_CardinalityType DEF PacketsToPost
  <2>3. CASE PostNulls
    <3>1. refused' \in 0 .. PacketsToPost /\ nulls' = nulls + PacketsToPost - refused'
      BY <2>2, <2>3 DEF PostNulls
    <3>2. refused' \in Nat /\ nulls' \in Nat
      <4>1. \A n, p \in Nat : \A r \in 0 .. p : r \in Nat /\ n + p - r \in Nat
        OBVIOUS
      <4> QED  BY <2>1, <2>2, <3>1, <4>1
    <3> QED  BY <1>1, <2>1, <3>2
  <2>4. CASE ~PostNulls
    <3>1. UNCHANGED <<nulls, refused>>
      BY <2>4 DEF Main, Start, SpawnAccept, SpawnWorker, Shutdown, CloseListenSock, Join, Exit
    <3> QED  BY <1>1, <2>1, <3>1
  <2> QED  BY <2>3, <2>4
<1>4. \A u \in Thread : SameThread(u) \/ (pc[u] \in Idle /\ pc'[u] \in Idle)
  <2>1. pc \in [Thread -> Label]
    BY DEF LifetimeInv, ControlTypeOK
  <2> QED  BY <1>1, <1>2, <2>1 DEF SameThread, Idle
<1>5. /\ \A x \in Session : SameSession(x)
      /\ UNCHANGED <<capacity, recv_buffer, send_buffer, wsabuf, internal_high, landed,
                     delivered, echoed, fin, failed>>
  BY <1>1 DEF SameSession, objVars, syncVars, bufVars, ioVars, clientVars
<1> QED  BY <1>3, <1>4, <1>5, DataIdle

(* Steps of a thread without a session, and those that end the process. *)
LEMMA DataAway ==
  ASSUME LifetimeInv, DataInv, NEW t \in Thread,
         \/ LoopTop(t) \/ AcceptNothing(t) \/ DequeueNull(t)
         \/ (RecvPost(t) \/ Echo(t) \/ Abandon(t) \/ Emplace(t)) /\ aborted' # aborted
  PROVE  DataInv'
<1> USE DEF At, Goto, Idle
<1>1. /\ nulls \in Nat /\ refused \in Nat /\ transferred \in [Thread -> Nat]
      /\ pc \in [Thread -> Label] /\ ret \in [Thread -> Return]
      /\ cur \in [Thread -> Session \cup {NoSession}]
  BY DEF LifetimeInv, ControlTypeOK, DataInv, DataTypeOK
<1>2. CASE LoopTop(t) \/ AcceptNothing(t) \/ DequeueNull(t)
  <2>1. /\ \A u \in Thread : SameThread(u) \/ (pc[u] \in Idle /\ pc'[u] \in Idle)
        /\ nulls' \in Nat /\ refused' \in Nat /\ transferred' \in [Thread -> Nat]
    <3>1. /\ pc[t] \in Idle
          /\ \E l \in Idle : pc' = [pc EXCEPT ![t] = l]
          /\ \/ UNCHANGED <<ret, cur, transferred>>
             \/ /\ ret' = [ret EXCEPT ![t] = "loop"]
                /\ cur' = [cur EXCEPT ![t] = NoSession]
                /\ transferred' = [transferred EXCEPT ![t] = 0]
          /\ nulls' = nulls \/ (nulls > 0 /\ nulls' = nulls - 1)
          /\ refused' = refused
      BY <1>2 DEF LoopTop, AcceptNothing, DequeueNull, mainVars
    <3>2. \A u \in Thread : SameThread(u) \/ (pc[u] \in Idle /\ pc'[u] \in Idle)
      <4>1. pc'[t] \in Idle
        BY <1>1, <3>1
      <4>2. \A u \in Thread \ {t} : pc'[u] = pc[u]
        BY <1>1, <3>1
      <4>3. \A u \in Thread \ {t} : UNCHANGED <<ret[u], cur[u], transferred[u]>>
        BY <1>1, <3>1
      <4> QED  BY <3>1, <4>1, <4>2, <4>3 DEF SameThread
    <3> QED  BY <1>1, <3>1, <3>2
  <2>2. UNCHANGED <<objVars, syncVars, bufVars, ioVars, clientVars>>
    BY <1>2 DEF LoopTop, AcceptNothing, DequeueNull
  <2>3. /\ \A x \in Session : SameSession(x)
        /\ UNCHANGED <<capacity, recv_buffer, send_buffer, wsabuf, internal_high, landed,
                       delivered, echoed, fin, failed>>
    BY <2>2 DEF SameSession, objVars, syncVars, bufVars, ioVars, clientVars
  <2> QED  BY <2>1, <2>3, DataIdle
<1>3. CASE (RecvPost(t) \/ Echo(t) \/ Abandon(t) \/ Emplace(t)) /\ aborted' # aborted
  <2>1. UNCHANGED <<nulls, refused, pc, cur, ret, transferred, mem, capacity, lock, sending,
                    bufVars, ioVars, clientVars>>
    <3>1. CASE RecvPost(t)
      BY <1>3, <3>1, Zenon DEF RecvPost, mainVars, objVars, bufVars, ioVars, clientVars
    <3>2. CASE Echo(t)
      BY <1>3, <3>2, Zenon DEF Echo, mainVars, objVars, bufVars, ioVars, clientVars
    <3>3. CASE Abandon(t)
      BY <1>3, <3>3, Zenon DEF Abandon, mainVars, objVars, syncVars, bufVars, ioVars, clientVars
    <3>4. CASE Emplace(t)
      BY <1>3, <3>4, Zenon DEF Emplace, mainVars, objVars, syncVars, bufVars, ioVars, clientVars
    <3> QED  BY <1>3, <3>1, <3>2, <3>3, <3>4
  <2>2. /\ \A u \in Thread : SameThread(u)
        /\ \A x \in Session : SameSession(x)
        /\ UNCHANGED <<capacity, recv_buffer, send_buffer, wsabuf, internal_high, landed,
                       delivered, echoed, fin, failed>>
        /\ nulls' \in Nat /\ refused' \in Nat /\ transferred' \in [Thread -> Nat]
    BY <1>1, <2>1 DEF SameThread, SameSession, bufVars, ioVars, clientVars
  <2> QED  BY <2>2, DataIdle
<1> QED  BY <1>2, <1>3

(* Steps of a worker with the lock that move no byte, and refusals. *)
LEMMA DataHold ==
  ASSUME Good, NEW t \in Thread,
         \/ Unsend(t) \/ Recheck(t) \/ Leave(t)
         \/ Echo(t) /\ recv_buffer[cur[t]] = << >>
         \/ (WSARecv(t) \/ WSASend(t)) /\ pc'[t] = "dec"
  PROVE  DataInv'
<1> USE DEF At, Goto, Idle, Fresh, Reaping, Locked
<1>1. pc[t] \notin Idle
  BY DEF Unsend, Recheck, Leave, Echo, WSARecv, WSASend
<1>0. PICK s \in Session : s = cur[t]
  BY <1>1, Busy DEF Good
<1>2. /\ cur[t] = s /\ (t # Acceptor <=> t \in Worker)
      /\ pc \in [Thread -> Label] /\ ret \in [Thread -> Return]
      /\ lock \in [Session -> Thread \cup {Free}] /\ sending \in [Session -> {0, 1}]
  BY <1>0, <1>1, Busy DEF Good
<1>3. DataTypeOK /\ failed \in [Session -> BOOLEAN] /\ send_buffer[s] \in Seq(Nat)
  BY DEF Good, DataInv, DataTypeOK
<1>4. SessionInv(s) /\ \A x \in Session : SessionInv(x)
  BY DEF Good, DataInv
<1>5. /\ UNCHANGED <<cur, transferred, io, wsabuf, internal_high, landed, capacity, recv_buffer,
                     send_buffer, delivered, echoed, nulls, refused, fin, mem>>
      /\ \E l \in Label, r \in Return, f \in BOOLEAN, k \in Thread \cup {Free}, b \in {0, 1} :
            /\ pc' = [pc EXCEPT ![t] = l]
            /\ ret' = [ret EXCEPT ![t] = r] \/ ret' = ret
            /\ lock' = [lock EXCEPT ![s] = k] \/ lock' = lock
            /\ sending' = [sending EXCEPT ![s] = b] \/ sending' = sending
            /\ failed' = [failed EXCEPT ![s] = f] \/ failed' = failed
      /\ \/ /\ pc[t] = "unsend" /\ pc'[t] = "leave" /\ sending'[s] = 0
            /\ UNCHANGED <<ret[t], lock[s], failed[s]>>
         \/ /\ pc[t] = "recheck" /\ pc'[t] = "leave"
            /\ UNCHANGED <<ret[t], lock[s], failed[s], sending[s]>>
         \/ /\ pc[t] = "leave" /\ pc'[t] = "dec" /\ lock'[s] = Free /\ ret'[t] = "loop"
            /\ UNCHANGED <<failed[s], sending[s]>>
         \/ /\ pc[t] = "echo" /\ pc'[t] = "leave" /\ Len(recv_buffer[s]) = 0
            /\ UNCHANGED <<ret[t], lock[s], failed[s], sending[s]>>
         \/ /\ pc[t] \in {"wsarecv", "wsasend"} /\ pc'[t] = "dec" /\ failed'[s]
            /\ pc[t] = "wsasend" => UNCHANGED ret[t]
            /\ pc[t] = "wsarecv" => ret'[t] = (IF t = Acceptor THEN "abandon" ELSE "echo")
            /\ UNCHANGED <<lock[s], sending[s]>>
  <2> USE DEF Label, Return, mainVars, objVars, syncVars, bufVars, ioVars, clientVars
  <2>1. CASE Unsend(t)
    BY <1>2, <1>3, <2>1 DEF Unsend
  <2>2. CASE Recheck(t)
    <3>1. send_buffer[s] = << >>
      <4>1. pc[t] = "recheck"  BY <2>2 DEF Recheck
      <4>2. Len(send_buffer[s]) = 0
        BY <1>2, <1>4, <4>1 DEF SessionInv, Posts, Is
      <4> QED  BY <1>3, <4>2, EmptyLen
    <3>2. pc' = [pc EXCEPT ![t] = "leave"]
      BY <1>2, <2>2, <3>1 DEF Recheck
    <3>3. sending' = sending
      BY <1>2, <2>2, <3>1 DEF Recheck
    <3> QED  BY <1>2, <1>3, <2>2, <3>2, <3>3 DEF Recheck
  <2>3. CASE Leave(t)
    BY <1>2, <1>3, <2>3 DEF Leave, Unlocked
  <2>4. CASE Echo(t) /\ recv_buffer[cur[t]] = << >>
    <3>1. /\ pc' = [pc EXCEPT ![t] = "leave"]
          /\ UNCHANGED <<ret, sending, bufVars, aborted>>
      BY <2>4, Zenon DEF Echo
    <3>2. /\ pc[t] = "echo"
          /\ UNCHANGED <<mainVars, cur, transferred, mapVars, objVars, lock,
                         io_count, ioVars, clientVars>>
      BY <2>4 DEF Echo
    <3>3. Len(recv_buffer[s]) = 0
      BY <1>2, <2>4
    <3> QED  BY <1>2, <1>3, <3>1, <3>2, <3>3
  <2>5. CASE (WSARecv(t) \/ WSASend(t)) /\ pc'[t] = "dec"
    <3>1. /\ pc' = [pc EXCEPT ![t] = "dec"] /\ failed' = [failed EXCEPT ![s] = TRUE]
          /\ UNCHANGED io
      BY <1>2, <2>5 DEF WSARecv, WSASend, Submit, AfterRefusal
    <3>2. \/ pc[t] = "wsarecv" /\ ret' = [ret EXCEPT ![t] = IF t = Acceptor THEN "abandon" ELSE "echo"]
          \/ pc[t] = "wsasend" /\ ret' = [ret EXCEPT ![t] = ret[t]]
      BY <1>2, <2>5 DEF WSARecv, WSASend, Submit, AfterRefusal
    <3>3. UNCHANGED <<mainVars, cur, transferred, objVars, syncVars,
                      bufVars, wsabuf, internal_high, landed, delivered, echoed, fin>>
      BY <2>5 DEF WSARecv, WSASend
    <3> QED  BY <1>2, <1>3, <3>1, <3>2, <3>3
  <2> QED  BY <2>1, <2>2, <2>3, <2>4, <2>5
<1>6. OnlyAt(t, s)
  BY <1>2, <1>3, <1>5 DEF OnlyAt, SameThread, SameSession, Away
<1>7. SameBytes(s) /\ UNCHANGED <<io[s], fin[s], mem[s]>> /\ cur'[t] = s
  BY <1>0, <1>5 DEF SameBytes
<1>8. /\ \A u \in Thread \ {t} : SameThread(u)
      /\ t = Acceptor => pc[t] = "wsarecv"
      /\ t \in Worker => ret'[t] # "abandon"
      /\ pc[t] = "wsasend" => ret[t] \in {"unsend", "leave"}
  BY <1>2, <1>5, <1>6 DEF OnlyAt, Good, LifetimeInv, ControlFlow
<1>10. Landing(s)' /\ Windows(s)' /\ InOrder(s)'
  BY <1>4, <1>5, <1>6, <1>7, BytesStay
<1>12. Held(s)'
  <2>1. Worker \subseteq Thread  BY DEF Thread
  <2>2. CASE pc[t] = "leave"
    <3>1. HoldsLock(t, s) /\ ~HoldsLock(t, s)' /\ lock'[s] = Free
      BY <1>2, <1>5, <1>8, <2>2 DEF HoldsLock
    <3>2. \A u \in Thread \ {t} : ~HoldsLock(u, s)
      BY <1>4, <3>1 DEF SessionInv, Held
    <3>3. \A u \in Thread : ~HoldsLock(u, s)'
      BY <1>8, <3>1, <3>2 DEF HoldsLock, SameThread
    <3> QED  BY <3>1, <3>3 DEF Held
  <2>3. CASE pc[t] # "leave"
    <3>1. HoldsLock(t, s)' <=> HoldsLock(t, s)
      BY <1>2, <1>5, <1>7, <1>8, <2>3 DEF HoldsLock
    <3>2. \A u \in Thread : HoldsLock(u, s)' <=> HoldsLock(u, s)
      BY <1>8, <3>1 DEF HoldsLock, SameThread
    <3>3. lock'[s] = lock[s]
      BY <1>5, <2>3
    <3> QED  BY <1>4, <2>1, <3>2, <3>3 DEF SessionInv, Held
  <2> QED  BY <2>2, <2>3
<1>13. Waking(s)'
  <2>0. failed'[s] \/ ((SendToken(t, s) => SendToken(t, s)') /\ sending'[s] = sending[s])
    <3>1. pc[t] = "unsend" => failed[s]
      BY <1>2, <1>4 DEF SessionInv, Posts, Refused
    <3> QED  BY <1>2, <1>5, <1>7, <1>8, <3>1 DEF SendToken
  <2>1. failed'[s] \/ \A u \in Thread : SendToken(u, s) => SendToken(u, s)'
    BY <1>8, <2>0 DEF SendToken, SameThread
  <2>2. failed[s] => failed'[s]
    BY <1>5
  <2> QED  BY <1>4, <1>7, <2>0, <2>1, <2>2 DEF SessionInv, Waking, SameBytes
<1>14. Posts(s)'
  <2>0. /\ pc'[t] \notin {"sendpost", "wsasend", "recheck"}
        /\ Echoing(t, s) => Echoing(t, s)' \/ Len(recv_buffer[s]) = 0
        /\ Refused(t, s)' => Refused(t, s) \/ failed'[s]
    BY <1>2, <1>5, <1>7, <1>8 DEF Echoing, Refused
  <2>1. /\ \A u \in Thread : Is(u, s, {"sendpost", "wsasend"})' => Is(u, s, {"sendpost", "wsasend"})
        /\ \A u \in Thread : Is(u, s, {"recheck"})' => Is(u, s, {"recheck"})
        /\ \A u \in Thread : Echoing(u, s) => Echoing(u, s)' \/ Len(recv_buffer[s]) = 0
        /\ \A u \in Thread : Refused(u, s)' => Refused(u, s) \/ failed'[s]
    BY <1>8, <2>0 DEF Is, Echoing, Refused, SameThread
  <2>2. failed[s] => failed'[s]
    BY <1>5
  <2> QED  BY <1>4, <1>7, <2>1, <2>2 DEF SessionInv, Posts, SameBytes
<1>15. Ends(s)'
  <2>1. /\ \A u \in Thread : Is(u, s, Receiving)' => Is(u, s, Receiving)
        /\ \A u \in Thread : Is(u, s, Receiving) => Is(u, s, Receiving)' \/ failed'[s]
    <3>1. /\ Is(t, s, Receiving)' => Is(t, s, Receiving)
          /\ Is(t, s, Receiving) => Is(t, s, Receiving)' \/ failed'[s]
      BY <1>2, <1>5, <1>7, <1>8 DEF Is, Receiving
    <3> QED  BY <1>8, <3>1 DEF Is, SameThread
  <2>2. failed[s] => failed'[s]
    BY <1>5
  <2> QED  BY <1>4, <1>7, <2>1, <2>2 DEF SessionInv, Ends, SameBytes
<1>16. SessionInv(s)'
  BY <1>10, <1>12, <1>13, <1>14, <1>15 DEF SessionInv
<1>17. \A x \in Session : SessionInv(x)'
  BY <1>4, <1>6, <1>16, Local
<1>18. DataTypeOK'
  BY <1>3, <1>5 DEF DataTypeOK
<1> QED  BY <1>17, <1>18 DEF DataInv

(***************************************************************************)
(* Posting an operation                                                    *)
(***************************************************************************)

(* Who has the receive (send) of a session has it alone. *)
LEMMA RecvAlone ==
  ASSUME LifetimeInv, NEW s \in Session, NEW t \in Thread, RecvToken(t, s)
  PROVE  /\ io[s]["recv"] = "idle"
         /\ \A u \in Thread \ {t} : ~Is(u, s, {"recv_lock"}) /\ ~Is(u, s, {"wsarecv"})
BY DEF LifetimeInv, OneRecv, RecvToken, Is

LEMMA SendAlone ==
  ASSUME LifetimeInv, NEW s \in Session, NEW t \in Thread, SendToken(t, s)
  PROVE  /\ io[s]["send"] = "idle" /\ sending[s] = 1
         /\ \A u \in Thread \ {t} : /\ ~Is(u, s, {"send_lock"})
                                    /\ ~Is(u, s, {"send_lock", "wsasend"})
                                    /\ ~Is(u, s, {"sendpost", "wsasend"})
BY DEF LifetimeInv, OneSend, SendToken, Is

(* The window of a receive is set: nobody else handles one of s. *)
LEMMA DataRecvPost ==
  ASSUME Good, NEW t \in Thread, RecvPost(t), pc'[t] # "recvpost"
  PROVE  DataInv'
<1> USE DEF At, Goto, Idle, Fresh, Reaping, Locked
<1>1. pc[t] = "recvpost" /\ pc[t] \notin Idle
  BY DEF RecvPost
<1>0. PICK s \in Session : s = cur[t]
  BY <1>1, Busy DEF Good
<1>2. /\ cur[t] = s /\ (t # Acceptor <=> t \in Worker)
      /\ pc \in [Thread -> Label]
  BY <1>0, <1>1, Busy DEF Good
<1>3. DataTypeOK /\ SessionInv(s) /\ \A x \in Session : SessionInv(x)
  BY DEF Good, DataInv
<1>4. /\ wsabuf \in [Session -> [Op -> Nat]] /\ internal_high \in [Session -> [Op -> Nat]]
      /\ "recv" \in Op /\ "send" \in Op
  BY <1>3 DEF DataTypeOK, Op
<1>5. Free_size(recv_buffer[s], capacity[s]["recv"]) \in Nat
  <2>1. Len(recv_buffer[s]) + Len(landed[s]) <= capacity[s]["recv"]
    BY <1>3 DEF SessionInv, Windows
  <2>2. Len(recv_buffer[s]) \in Nat /\ Len(landed[s]) \in Nat /\ capacity[s]["recv"] \in Nat
    BY <1>3, Types DEF Good
  <2>3. \A a, b, c \in Nat : b + c <= a => a - b \in Nat
    OBVIOUS
  <2> QED  BY <2>1, <2>2, <2>3 DEF Free_size
<1>6. /\ pc' = [pc EXCEPT ![t] = "wsarecv"]
      /\ wsabuf' = [wsabuf EXCEPT ![s]["recv"] = Free_size(recv_buffer[s], capacity[s]["recv"])]
      /\ internal_high' = [internal_high EXCEPT ![s]["recv"] = 0]
      /\ UNCHANGED <<mainVars, ret, cur, transferred, mapVars, objVars, lock,
                     sending, bufVars, io, landed, clientVars>>
  BY <1>1, <1>2 DEF RecvPost
<1>7. /\ wsabuf'[s]["recv"] = Free_size(recv_buffer[s], capacity[s]["recv"])
      /\ wsabuf'[s]["send"] = wsabuf[s]["send"]
      /\ internal_high'[s]["send"] = internal_high[s]["send"]
      /\ \A x \in Session \ {s} : UNCHANGED <<wsabuf[x], internal_high[x]>>
  BY <1>4, <1>6
<1>8. /\ pc'[t] = "wsarecv" /\ cur'[t] = s /\ ret'[t] = ret[t]
      /\ \A u \in Thread \ {t} : SameThread(u)
      /\ UNCHANGED <<io[s], landed[s], lock[s], sending[s], mem[s], capacity[s], recv_buffer[s],
                     send_buffer[s], delivered[s], echoed[s], fin[s], failed[s]>>
  BY <1>2, <1>6 DEF SameThread, objVars, bufVars, clientVars
<1>9. OnlyAt(t, s)
  BY <1>2, <1>6, <1>7, <1>8 DEF OnlyAt, SameSession, Away, objVars, bufVars, clientVars
<1>10. RecvToken(t, s)
  BY <1>1, <1>2 DEF RecvToken
<1>11. /\ io[s]["recv"] = "idle"
       /\ \A u \in Thread \ {t} : ~Is(u, s, {"recv_lock"}) /\ ~Is(u, s, {"wsarecv"})
  BY <1>10, RecvAlone DEF Good
<1>12. /\ \A u \in Thread : Is(u, s, {"recv_lock"})' => Is(u, s, {"recv_lock"}) /\ u # t
       /\ \A u \in Thread : Is(u, s, {"send_lock"})' <=> Is(u, s, {"send_lock"})
       /\ \A u \in Thread : Is(u, s, {"send_lock"})' => transferred'[u] = transferred[u]
       /\ \A u \in Thread : Is(u, s, {"send_lock", "wsasend"})' <=> Is(u, s, {"send_lock", "wsasend"})
       /\ \A u \in Thread : Is(u, s, {"sendpost", "wsasend"})' <=> Is(u, s, {"sendpost", "wsasend"})
       /\ \A u \in Thread : Is(u, s, {"recheck"})' <=> Is(u, s, {"recheck"})
       /\ \A u \in Thread : Is(u, s, Receiving)' <=> Is(u, s, Receiving)
       /\ \A u \in Thread : Is(u, s, {"recv_lock"}) => Is(u, s, {"recv_lock"})'
  BY <1>1, <1>2, <1>8 DEF Is, SameThread, Receiving
<1>13. /\ \A u \in Thread : HoldsLock(u, s)' <=> HoldsLock(u, s)
       /\ \A u \in Thread : SendToken(u, s)' <=> SendToken(u, s)
       /\ \A u \in Thread : Refused(u, s)' <=> Refused(u, s)
       /\ \A u \in Thread : Echoing(u, s)' <=> Echoing(u, s)
  BY <1>1, <1>2, <1>8 DEF HoldsLock, SendToken, Refused, Echoing, SameThread
<1>14. Held(s)'
  <2>1. Worker \subseteq Thread  BY DEF Thread
  <2> QED  BY <1>3, <1>8, <1>13, <2>1 DEF SessionInv, Held
<1>15. Landing(s)'
  BY <1>3, <1>8, <1>11, <1>12 DEF SessionInv, Landing
<1>16. Windows(s)'
  <2>1. Len(recv_buffer[s]) \in Nat /\ capacity[s]["recv"] \in Nat
    BY <1>3, Types DEF Good
  <2>2. wsabuf'[s]["recv"] + Len(recv_buffer'[s]) <= capacity'[s]["recv"]
    BY <1>7, <1>8, <2>1 DEF Free_size
  <2> QED  BY <1>3, <1>7, <1>8, <1>12, <2>2 DEF SessionInv, Windows
<1>17. InOrder(s)'
  <2>1. PICK n \in Nat : /\ Sent(s, n)
                         /\ Follow(n, echoed[s], send_buffer[s], recv_buffer[s], landed[s], delivered[s])
    BY <1>3 DEF SessionInv, InOrder
  <2>2. Sent(s, n)'
    BY <1>7, <1>8, <1>12, <2>1 DEF Sent
  <2>3. Follow(n, echoed'[s], send_buffer'[s], recv_buffer'[s], landed'[s], delivered'[s])
    BY <1>8, <2>1
  <2> QED  BY <2>2, <2>3 DEF InOrder
<1>18. Waking(s)' /\ Posts(s)'
  BY <1>3, <1>8, <1>12, <1>13 DEF SessionInv, Waking, Posts
<1>19. Ends(s)'
  BY <1>3, <1>7, <1>8, <1>11, <1>12 DEF SessionInv, Ends
<1>20. SessionInv(s)'
  BY <1>14, <1>15, <1>16, <1>17, <1>18, <1>19 DEF SessionInv
<1>21. \A x \in Session : SessionInv(x)'
  BY <1>3, <1>9, <1>20, Local
<1>22. DataTypeOK'
  <2>1. wsabuf' \in [Session -> [Op -> Nat]] /\ internal_high' \in [Session -> [Op -> Nat]]
    BY <1>4, <1>5, <1>6
  <2> QED  BY <1>3, <1>6, <2>1 DEF DataTypeOK, mainVars, objVars, bufVars, clientVars
<1> QED  BY <1>21, <1>22 DEF DataInv

(* The window of a send is set: nobody else handles one of s. *)
LEMMA DataSendPost ==
  ASSUME Good, NEW t \in Thread, SendPost(t)
  PROVE  DataInv'
<1> USE DEF At, Goto, Idle, Fresh, Reaping, Locked
<1>1. pc[t] = "sendpost" /\ pc[t] \notin Idle
  BY DEF SendPost
<1>0. PICK s \in Session : s = cur[t]
  BY <1>1, Busy DEF Good
<1>2. /\ cur[t] = s /\ (t # Acceptor <=> t \in Worker)
      /\ pc \in [Thread -> Label]
  BY <1>0, <1>1, Busy DEF Good
<1>3. DataTypeOK /\ SessionInv(s) /\ \A x \in Session : SessionInv(x)
  BY DEF Good, DataInv
<1>4. /\ wsabuf \in [Session -> [Op -> Nat]] /\ internal_high \in [Session -> [Op -> Nat]]
      /\ "recv" \in Op /\ "send" \in Op
  BY <1>3 DEF DataTypeOK, Op
<1>5. send_buffer[s] # << >> /\ Len(send_buffer[s]) \in Nat
  <2>1. Len(send_buffer[s]) # 0
    BY <1>1, <1>2, <1>3 DEF SessionInv, Posts, Is
  <2>2. send_buffer[s] \in Seq(Nat)
    BY <1>3, Types DEF Good
  <2> QED  BY <2>1, <2>2
<1>6. /\ pc' = [pc EXCEPT ![t] = "wsasend"]
      /\ wsabuf' = [wsabuf EXCEPT ![s]["send"] = Len(send_buffer[s])]
      /\ internal_high' = [internal_high EXCEPT ![s]["send"] = 0]
      /\ UNCHANGED <<mainVars, ret, cur, transferred, mapVars, objVars, lock,
                     sending, bufVars, io, landed, clientVars>>
  BY <1>1, <1>2, <1>5 DEF SendPost
<1>7. /\ wsabuf'[s]["send"] = Len(send_buffer[s])
      /\ wsabuf'[s]["recv"] = wsabuf[s]["recv"]
      /\ internal_high'[s]["recv"] = internal_high[s]["recv"]
      /\ \A x \in Session \ {s} : UNCHANGED <<wsabuf[x], internal_high[x]>>
  BY <1>4, <1>6
<1>8. /\ pc'[t] = "wsasend" /\ cur'[t] = s /\ ret'[t] = ret[t]
      /\ \A u \in Thread \ {t} : SameThread(u)
      /\ UNCHANGED <<io[s], landed[s], lock[s], sending[s], mem[s], capacity[s], recv_buffer[s],
                     send_buffer[s], delivered[s], echoed[s], fin[s], failed[s]>>
  BY <1>2, <1>6 DEF SameThread, objVars, bufVars, clientVars
<1>9. OnlyAt(t, s)
  BY <1>2, <1>6, <1>7, <1>8 DEF OnlyAt, SameSession, Away, objVars, bufVars, clientVars
<1>10. SendToken(t, s)
  BY <1>1, <1>2 DEF SendToken
<1>11. io[s]["send"] = "idle"
  BY <1>10, SendAlone DEF Good
<1>12. /\ \A u \in Thread : Is(u, s, {"recv_lock"})' <=> Is(u, s, {"recv_lock"})
       /\ \A u \in Thread : Is(u, s, {"wsarecv"})' <=> Is(u, s, {"wsarecv"})
       /\ \A u \in Thread : Is(u, s, {"recv_lock"})' => transferred'[u] = transferred[u]
       /\ \A u \in Thread : Is(u, s, {"send_lock"})' <=> Is(u, s, {"send_lock"})
       /\ \A u \in Thread : Is(u, s, {"send_lock"})' => transferred'[u] = transferred[u]
       /\ \A u \in Thread : Is(u, s, {"sendpost", "wsasend"})' <=> Is(u, s, {"sendpost", "wsasend"})
       /\ \A u \in Thread : Is(u, s, {"recheck"})' <=> Is(u, s, {"recheck"})
       /\ \A u \in Thread : Is(u, s, Receiving)' <=> Is(u, s, Receiving)
  BY <1>1, <1>2, <1>8 DEF Is, SameThread, Receiving
<1>13. /\ \A u \in Thread : HoldsLock(u, s)' <=> HoldsLock(u, s)
       /\ \A u \in Thread : SendToken(u, s)' <=> SendToken(u, s)
       /\ \A u \in Thread : Refused(u, s)' <=> Refused(u, s)
       /\ \A u \in Thread : Echoing(u, s)' <=> Echoing(u, s)
  BY <1>1, <1>2, <1>8 DEF HoldsLock, SendToken, Refused, Echoing, SameThread
<1>14. Held(s)'
  <2>1. Worker \subseteq Thread  BY DEF Thread
  <2> QED  BY <1>3, <1>8, <1>13, <2>1 DEF SessionInv, Held
<1>15. Landing(s)'
  BY <1>3, <1>7, <1>8, <1>12 DEF SessionInv, Landing
<1>16. Windows(s)'
  <2>1. wsabuf'[s]["send"] <= Len(send_buffer'[s])
    BY <1>5, <1>7, <1>8
  <2> QED  BY <1>3, <1>7, <1>8, <1>12, <2>1 DEF SessionInv, Windows
<1>17. InOrder(s)'
  <2>1. PICK n \in Nat : /\ Sent(s, n)
                         /\ Follow(n, echoed[s], send_buffer[s], recv_buffer[s], landed[s], delivered[s])
    BY <1>3 DEF SessionInv, InOrder
  <2>2. Sent(s, n)'
    BY <1>8, <1>11, <1>12, <2>1 DEF Sent
  <2>3. Follow(n, echoed'[s], send_buffer'[s], recv_buffer'[s], landed'[s], delivered'[s])
    BY <1>8, <2>1
  <2> QED  BY <2>2, <2>3 DEF InOrder
<1>18. Waking(s)' /\ Posts(s)'
  BY <1>3, <1>8, <1>12, <1>13 DEF SessionInv, Waking, Posts
<1>19. Ends(s)'
  BY <1>3, <1>7, <1>8, <1>11, <1>12 DEF SessionInv, Ends
<1>20. SessionInv(s)'
  BY <1>14, <1>15, <1>16, <1>17, <1>18, <1>19 DEF SessionInv
<1>21. \A x \in Session : SessionInv(x)'
  BY <1>3, <1>9, <1>20, Local
<1>22. DataTypeOK'
  <2>1. wsabuf' \in [Session -> [Op -> Nat]] /\ internal_high' \in [Session -> [Op -> Nat]]
    BY <1>4, <1>5, <1>6
  <2> QED  BY <1>3, <1>6, <2>1 DEF DataTypeOK, mainVars, objVars, bufVars, clientVars
<1> QED  BY <1>21, <1>22 DEF DataInv

(* The kernel takes an operation: it has none of that kind yet. *)
LEMMA DataSubmitted ==
  ASSUME Good, NEW t \in Thread, WSARecv(t) \/ WSASend(t), pc'[t] # "dec"
  PROVE  DataInv'
<1> USE DEF At, Goto, Idle, Fresh, Reaping, Locked
<1>1. pc[t] \in {"wsarecv", "wsasend"} /\ pc[t] \notin Idle
  BY DEF WSARecv, WSASend
<1>0. PICK s \in Session : s = cur[t]
  BY <1>1, Busy DEF Good
<1>2. /\ cur[t] = s /\ (t # Acceptor <=> t \in Worker)
      /\ pc \in [Thread -> Label] /\ ret \in [Thread -> Return]
      /\ io \in [Session -> [Op -> {"idle", "posted", "done"}]]
      /\ "recv" \in Op /\ "send" \in Op
  BY <1>0, <1>1, Busy DEF Good, Op
<1>3. DataTypeOK /\ SessionInv(s) /\ \A x \in Session : SessionInv(x)
  BY DEF Good, DataInv
<1>4. PICK op \in {"recv", "send"}, l \in {"loop", "echo", "leave"} :
         /\ op = "recv" => pc[t] = "wsarecv" /\ l # "leave" /\ (l = "echo" <=> t \in Worker)
         /\ op = "send" => pc[t] = "wsasend" /\ l = "leave"
         /\ pc' = [pc EXCEPT ![t] = l]
         /\ io' = [io EXCEPT ![s][op] = "posted"]
         /\ UNCHANGED <<ret, failed, mainVars, cur, transferred, mapVars, objVars, syncVars,
                        bufVars, wsabuf, internal_high, landed, delivered, echoed, fin>>
  <2>1. CASE WSARecv(t)
    BY <1>2, <2>1 DEF WSARecv, Submit, AfterRefusal
  <2>2. CASE WSASend(t)
    BY <1>2, <2>2 DEF WSASend, Submit, AfterRefusal
  <2> QED  BY <2>1, <2>2
<1>5. /\ io'[s][op] = "posted"
      /\ \A o \in {"recv", "send"} : o # op => io'[s][o] = io[s][o]
      /\ \A x \in Session \ {s} : io'[x] = io[x]
  BY <1>2, <1>4
<1>6. /\ pc'[t] = l /\ cur'[t] = s /\ ret'[t] = ret[t]
      /\ \A u \in Thread \ {t} : SameThread(u)
      /\ UNCHANGED <<wsabuf[s], internal_high[s], landed[s], lock[s], sending[s], mem[s],
                     capacity[s], recv_buffer[s], send_buffer[s], delivered[s], echoed[s],
                     fin[s], failed[s]>>
  BY <1>2, <1>4 DEF SameThread, objVars, syncVars, bufVars
<1>7. OnlyAt(t, s)
  BY <1>2, <1>4, <1>5, <1>6 DEF OnlyAt, SameSession, Away, objVars, syncVars, bufVars
<1>8. op = "recv" => /\ io[s]["recv"] = "idle"
                     /\ \A u \in Thread : ~Is(u, s, {"recv_lock"})
  <2>1. op = "recv" => RecvToken(t, s) /\ ~Is(t, s, {"recv_lock"})
    BY <1>2, <1>4 DEF RecvToken, Is
  <2> QED  BY <2>1, RecvAlone DEF Good
<1>9. op = "send" => /\ io[s]["send"] = "idle"
                     /\ \A u \in Thread : ~Is(u, s, {"send_lock"})
  <2>1. op = "send" => SendToken(t, s) /\ ~Is(t, s, {"send_lock"})
    BY <1>2, <1>4 DEF SendToken, Is
  <2> QED  BY <2>1, SendAlone DEF Good
<1>10. /\ \A u \in Thread : Is(u, s, {"recv_lock"})' <=> Is(u, s, {"recv_lock"})
       /\ \A u \in Thread : Is(u, s, {"recv_lock"})' => transferred'[u] = transferred[u]
       /\ \A u \in Thread : Is(u, s, {"send_lock"})' <=> Is(u, s, {"send_lock"})
       /\ \A u \in Thread : Is(u, s, {"send_lock"})' => transferred'[u] = transferred[u]
       /\ \A u \in Thread : Is(u, s, {"wsarecv"})' => Is(u, s, {"wsarecv"})
       /\ \A u \in Thread : Is(u, s, {"send_lock", "wsasend"})' => Is(u, s, {"send_lock", "wsasend"})
       /\ \A u \in Thread : Is(u, s, {"sendpost", "wsasend"})' => Is(u, s, {"sendpost", "wsasend"})
       /\ \A u \in Thread : Is(u, s, {"recheck"})' => Is(u, s, {"recheck"})
       /\ \A u \in Thread : Is(u, s, Receiving)' => Is(u, s, Receiving)
       /\ op = "send" => \A u \in Thread : Is(u, s, Receiving) => Is(u, s, Receiving)'
  BY <1>1, <1>2, <1>4, <1>6 DEF Is, SameThread, Receiving
<1>11. /\ HoldsLock(t, s)' <=> HoldsLock(t, s)
       /\ op = "recv" => (SendToken(t, s) => SendToken(t, s)')
       /\ Refused(t, s)' => Refused(t, s)
       /\ Echoing(t, s) => Echoing(t, s)'
  BY <1>1, <1>2, <1>4, <1>6 DEF HoldsLock, SendToken, Refused, Echoing
<1>12. /\ \A u \in Thread : HoldsLock(u, s)' <=> HoldsLock(u, s)
       /\ op = "recv" => \A u \in Thread : SendToken(u, s) => SendToken(u, s)'
       /\ \A u \in Thread : Refused(u, s)' => Refused(u, s)
       /\ \A u \in Thread : Echoing(u, s) => Echoing(u, s)'
  BY <1>6, <1>11 DEF HoldsLock, SendToken, Refused, Echoing, SameThread
<1>13. /\ op = "recv" => Is(t, s, {"wsarecv"})
       /\ op = "send" => Is(t, s, {"send_lock", "wsasend"})
  BY <1>2, <1>4 DEF Is
<1>14. Held(s)'
  <2>1. Worker \subseteq Thread  BY DEF Thread
  <2> QED  BY <1>3, <1>6, <1>12, <2>1 DEF SessionInv, Held
<1>15. Landing(s)'
  BY <1>3, <1>5, <1>6, <1>8, <1>10 DEF SessionInv, Landing
<1>16. Windows(s)'
  BY <1>3, <1>4, <1>5, <1>6, <1>10, <1>13 DEF SessionInv, Windows
<1>17. InOrder(s)'
  <2>1. PICK n \in Nat : /\ Sent(s, n)
                         /\ Follow(n, echoed[s], send_buffer[s], recv_buffer[s], landed[s], delivered[s])
    BY <1>3 DEF SessionInv, InOrder
  <2>2. Sent(s, n)'
    BY <1>5, <1>6, <1>9, <1>10, <2>1 DEF Sent
  <2>3. Follow(n, echoed'[s], send_buffer'[s], recv_buffer'[s], landed'[s], delivered'[s])
    BY <1>6, <2>1
  <2> QED  BY <2>2, <2>3 DEF InOrder
<1>18. Waking(s)' /\ Posts(s)'
  BY <1>3, <1>5, <1>6, <1>10, <1>12 DEF SessionInv, Waking, Posts
<1>19. Ends(s)'
  <2>1. op = "recv" => ~fin[s]
    BY <1>1, <1>2, <1>3, <1>4 DEF SessionInv, Ends, Is, Receiving
  <2> QED  BY <1>3, <1>5, <1>6, <1>10, <2>1 DEF SessionInv, Ends
<1>20. SessionInv(s)'
  BY <1>14, <1>15, <1>16, <1>17, <1>18, <1>19 DEF SessionInv
<1>21. \A x \in Session : SessionInv(x)'
  BY <1>3, <1>7, <1>20, Local
<1>22. DataTypeOK'
  BY <1>3, <1>4 DEF DataTypeOK, mainVars, objVars, bufVars
<1> QED  BY <1>21, <1>22 DEF DataInv

(***************************************************************************)
(* Moving the bytes                                                        *)
(***************************************************************************)

(* When t has the lock, or may take it, nobody else works under it. *)
LEMMA HolderAlone ==
  ASSUME LifetimeInv, NEW s \in Session, Held(s), NEW t \in Worker,
         lock[s] = Free \/ HoldsLock(t, s)
  PROVE  /\ \A u \in Thread \ {t} : ~HoldsLock(u, s)
         /\ \A u \in Thread \ {t} : ~Is(u, s, {"recheck"}) /\ ~Is(u, s, {"sendpost", "wsasend"})
<1>1. \A u \in Thread \ {t} : ~HoldsLock(u, s)
  <2>1. /\ \A u \in Thread : HoldsLock(u, s) => u \in Worker /\ lock[s] = u
        /\ Free \notin Worker /\ t \in Thread
    BY ThreadAssumption DEF Held, HoldsLock, Thread
  <2> QED  BY <2>1
<1>2. \A u \in Thread : u \in Worker \/ u = Acceptor
  BY DEF Thread
<1>3. \A u \in Worker : Is(u, s, {"recheck"}) \/ Is(u, s, {"sendpost", "wsasend"}) => HoldsLock(u, s)
  BY DEF Is, HoldsLock, Locked
<1>4. ~Is(Acceptor, s, {"recheck"}) /\ ~Is(Acceptor, s, {"sendpost", "wsasend"})
  BY DEF LifetimeInv, ControlFlow, Is, Fresh, Reaping
<1> QED  BY <1>1, <1>2, <1>3, <1>4

(* All that was received moves behind what is waiting to be sent. *)
LEMMA DataEcho ==
  ASSUME Good, NEW t \in Thread, Echo(t), recv_buffer[cur[t]] # << >>, aborted' = aborted
  PROVE  DataInv'
<1> USE DEF At, Goto, Idle, Fresh, Reaping, Locked
<1>1. pc[t] = "echo" /\ pc[t] \notin Idle
  BY DEF Echo
<1>0. PICK s \in Session : s = cur[t]
  BY <1>1, Busy DEF Good
<1>2. /\ cur[t] = s /\ t \in Worker
      /\ pc \in [Thread -> Label] /\ ret \in [Thread -> Return] /\ sending \in [Session -> {0, 1}]
  BY <1>0, <1>1, Busy DEF Good, LifetimeInv, ControlFlow
<1>3. DataTypeOK /\ SessionInv(s) /\ \A x \in Session : SessionInv(x)
  BY DEF Good, DataInv
<1>4. /\ recv_buffer \in [Session -> Seq(Nat)] /\ send_buffer \in [Session -> Seq(Nat)]
      /\ recv_buffer[s] \in Seq(Nat) /\ send_buffer[s] \in Seq(Nat)
  BY <1>3 DEF DataTypeOK
<1>5. aborted # "send_full"
  BY <1>1 DEF Echo, Up
<1>6. /\ send_buffer' = [send_buffer EXCEPT ![s] = send_buffer[s] \o recv_buffer[s]]
      /\ recv_buffer' = [recv_buffer EXCEPT ![s] = << >>]
      /\ sending' = [sending EXCEPT ![s] = 1]
      /\ ret' = [ret EXCEPT ![t] = "unsend"]
      /\ pc' = [pc EXCEPT ![t] = IF sending[s] = 0 THEN "sendpost" ELSE "leave"]
      /\ UNCHANGED <<mainVars, cur, transferred, mapVars, objVars, lock,
                     io_count, ioVars, clientVars>>
  BY <1>2, <1>5, Zenon DEF Echo, SendStarts
<1>7. /\ send_buffer'[s] = send_buffer[s] \o recv_buffer[s]
      /\ recv_buffer'[s] = << >> /\ sending'[s] = 1
      /\ \A x \in Session \ {s} : UNCHANGED <<send_buffer[x], recv_buffer[x], sending[x]>>
  BY <1>2, <1>4, <1>6
<1>8. /\ pc'[t] = (IF sending[s] = 0 THEN "sendpost" ELSE "leave") /\ cur'[t] = s
      /\ \A u \in Thread \ {t} : SameThread(u)
      /\ UNCHANGED <<io[s], wsabuf[s], internal_high[s], landed[s], lock[s], mem[s],
                     capacity[s], delivered[s], echoed[s], fin[s], failed[s]>>
  BY <1>2, <1>6 DEF SameThread, objVars, ioVars, clientVars
<1>9. OnlyAt(t, s)
  BY <1>2, <1>6, <1>7, <1>8 DEF OnlyAt, SameSession, Away, objVars, ioVars, clientVars
<1>10. /\ Len(recv_buffer'[s]) = 0
       /\ Len(send_buffer'[s]) = Len(send_buffer[s]) + Len(recv_buffer[s])
       /\ Len(recv_buffer[s]) \in Nat /\ Len(send_buffer[s]) \in Nat /\ Len(recv_buffer[s]) # 0
  BY <1>2, <1>4, <1>7, EmptyLen
<1>11. /\ \A u \in Thread : Is(u, s, {"recv_lock"})' <=> Is(u, s, {"recv_lock"})
       /\ \A u \in Thread : Is(u, s, {"recv_lock"})' => transferred'[u] = transferred[u]
       /\ \A u \in Thread : Is(u, s, {"send_lock"})' <=> Is(u, s, {"send_lock"})
       /\ \A u \in Thread : Is(u, s, {"send_lock"})' => transferred'[u] = transferred[u]
       /\ \A u \in Thread : Is(u, s, {"wsarecv"})' <=> Is(u, s, {"wsarecv"})
       /\ \A u \in Thread : Is(u, s, {"send_lock", "wsasend"})' <=> Is(u, s, {"send_lock", "wsasend"})
       /\ \A u \in Thread : Is(u, s, {"recheck"})' => Is(u, s, {"recheck"}) /\ u # t
       /\ \A u \in Thread : Is(u, s, Receiving)' <=> Is(u, s, Receiving)
  BY <1>1, <1>2, <1>8 DEF Is, SameThread, Receiving
<1>12. /\ HoldsLock(t, s)' /\ HoldsLock(t, s)
       /\ ~SendToken(t, s) /\ (sending[s] = 0 => SendToken(t, s)')
       /\ ~Refused(t, s)'
  BY <1>1, <1>2, <1>8 DEF HoldsLock, SendToken, Refused
<1>13. /\ \A u \in Thread : HoldsLock(u, s)' <=> HoldsLock(u, s)
       /\ \A u \in Thread : SendToken(u, s) => SendToken(u, s)'
       /\ \A u \in Thread : Refused(u, s)' => Refused(u, s)
  BY <1>8, <1>12 DEF HoldsLock, SendToken, Refused, SameThread
<1>14. Held(s)'
  <2>1. Worker \subseteq Thread  BY DEF Thread
  <2> QED  BY <1>3, <1>8, <1>13, <2>1 DEF SessionInv, Held
<1>15. Landing(s)'
  BY <1>3, <1>8, <1>11 DEF SessionInv, Landing
<1>16. Windows(s)'
  <2>1. /\ Len(landed[s]) \in Nat /\ capacity[s]["recv"] \in Nat
        /\ wsabuf[s]["recv"] \in Nat /\ wsabuf[s]["send"] \in Nat
    BY <1>3, Types DEF Good
  <2>2. /\ Len(recv_buffer[s]) + Len(landed[s]) <= capacity[s]["recv"]
            => Len(recv_buffer'[s]) + Len(landed'[s]) <= capacity'[s]["recv"]
        /\ wsabuf[s]["recv"] + Len(recv_buffer[s]) <= capacity[s]["recv"]
            => wsabuf'[s]["recv"] + Len(recv_buffer'[s]) <= capacity'[s]["recv"]
        /\ wsabuf[s]["send"] <= Len(send_buffer[s])
            => wsabuf'[s]["send"] <= Len(send_buffer'[s])
    <3>1. PICK sb \in Nat, rb \in Nat : sb = Len(send_buffer[s]) /\ rb = Len(recv_buffer[s])
      BY <1>10
    <3>2. Len(send_buffer'[s]) = sb + rb /\ Len(recv_buffer'[s]) = 0
      BY <1>10, <3>1
    <3>3. PICK lb \in Nat, cr \in Nat, wr \in Nat, ws \in Nat :
             /\ lb = Len(landed[s]) /\ cr = capacity[s]["recv"]
             /\ wr = wsabuf[s]["recv"] /\ ws = wsabuf[s]["send"]
      BY <2>1, Zenon
    <3>4. /\ rb + lb <= cr => 0 + lb <= cr
          /\ wr + rb <= cr => wr + 0 <= cr
          /\ ws <= sb => ws <= sb + rb
      OBVIOUS
    <3> QED  BY <1>8, <3>1, <3>2, <3>3, <3>4, Zenon
  <2> QED  BY <1>3, <1>8, <1>11, <2>2 DEF SessionInv, Windows
<1>17. InOrder(s)'
  <2>1. PICK n \in Nat : /\ Sent(s, n)
                         /\ Follow(n, echoed[s], send_buffer[s], recv_buffer[s], landed[s], delivered[s])
    BY <1>3 DEF SessionInv, InOrder
  <2>2. Sent(s, n)'
    BY <1>8, <1>11, <2>1 DEF Sent
  <2>3. delivered[s] \in Nat
    BY <1>3, Types DEF Good
  <2>10. Follow(n, echoed'[s], send_buffer'[s], recv_buffer'[s], landed'[s], delivered'[s])
    BY <1>4, <1>7, <1>8, <2>1, <2>3, FollowEcho
  <2> QED  BY <2>2, <2>10 DEF InOrder
<1>18. Waking(s)'
  BY <1>2, <1>3, <1>7, <1>8, <1>12, <1>13 DEF SessionInv, Waking
<1>19. Posts(s)'
  <2>1. \A u \in Thread : ~Is(u, s, {"recheck"})'
    <3>1. \A u \in Thread \ {t} : ~Is(u, s, {"recheck"})
      BY <1>2, <1>3, <1>12, HolderAlone DEF Good, SessionInv
    <3> QED  BY <1>11, <3>1
  <2>2. Len(send_buffer'[s]) # 0
    <3>1. \A a, b \in Nat : b # 0 => a + b # 0
      OBVIOUS
    <3> QED  BY <1>10, <3>1
  <2> QED  BY <1>3, <1>8, <1>10, <1>13, <2>1, <2>2 DEF SessionInv, Posts
<1>20. Ends(s)'
  BY <1>3, <1>8, <1>11 DEF SessionInv, Ends
<1>21. SessionInv(s)'
  BY <1>14, <1>15, <1>16, <1>17, <1>18, <1>19, <1>20 DEF SessionInv
<1>22. \A x \in Session : SessionInv(x)'
  BY <1>3, <1>9, <1>21, Local
<1>23. DataTypeOK'
  <2>1. recv_buffer' \in [Session -> Seq(Nat)] /\ send_buffer' \in [Session -> Seq(Nat)]
    BY <1>4, <1>6
  <2> QED  BY <1>3, <1>6, <2>1 DEF DataTypeOK, mainVars, objVars, ioVars, clientVars
<1> QED  BY <1>22, <1>23 DEF DataInv

(* What has landed is taken into the receive buffer, under the lock. *)
LEMMA DataEnterRecv ==
  ASSUME Good, NEW t \in Thread, EnterRecv(t)
  PROVE  DataInv'
<1> USE DEF At, Goto, Idle, Fresh, Reaping, Locked
<1>1. pc[t] = "recv_lock" /\ pc[t] \notin Idle
  BY DEF EnterRecv
<1>0. PICK s \in Session : s = cur[t]
  BY <1>1, Busy DEF Good
<1>2. /\ cur[t] = s /\ t \in Worker
      /\ pc \in [Thread -> Label] /\ lock \in [Session -> Thread \cup {Free}]
  BY <1>0, <1>1, Busy DEF Good, LifetimeInv, ControlFlow
<1>3. DataTypeOK /\ SessionInv(s) /\ \A x \in Session : SessionInv(x)
  BY DEF Good, DataInv
<1>4. /\ recv_buffer \in [Session -> Seq(Nat)] /\ landed \in [Session -> Seq(Nat)]
      /\ recv_buffer[s] \in Seq(Nat) /\ landed[s] \in Seq(Nat)
  BY <1>3 DEF DataTypeOK
<1>5. transferred[t] = Len(landed[s])
  BY <1>1, <1>2, <1>3 DEF SessionInv, Landing, Is
<1>6. /\ recv_buffer' = [recv_buffer EXCEPT ![s] = recv_buffer[s] \o SubSeq(landed[s], 1, Len(landed[s]))]
      /\ landed' = [landed EXCEPT ![s] = Drop(landed[s], Len(landed[s]))]
      /\ lock' = [lock EXCEPT ![s] = t] /\ lock[s] = Free
      /\ pc' = [pc EXCEPT ![t] = "recvpost"]
      /\ UNCHANGED <<mainVars, ret, cur, transferred, mapVars, objVars,
                     io_count, sending, send_buffer, io, wsabuf,
                     internal_high, clientVars>>
  BY <1>2, <1>4, <1>5 DEF EnterRecv
<1>7. /\ recv_buffer'[s] = recv_buffer[s] \o SubSeq(landed[s], 1, Len(landed[s]))
      /\ landed'[s] = Drop(landed[s], Len(landed[s])) /\ lock'[s] = t
      /\ \A x \in Session \ {s} : UNCHANGED <<recv_buffer[x], landed[x], lock[x]>>
  BY <1>2, <1>4, <1>6
<1>8. /\ pc'[t] = "recvpost" /\ cur'[t] = s /\ ret'[t] = ret[t]
      /\ \A u \in Thread \ {t} : SameThread(u)
      /\ UNCHANGED <<io[s], wsabuf[s], internal_high[s], sending[s], mem[s], send_buffer[s],
                     capacity[s], delivered[s], echoed[s], fin[s], failed[s]>>
  BY <1>2, <1>6 DEF SameThread, objVars, clientVars
<1>9. OnlyAt(t, s)
  BY <1>2, <1>6, <1>7, <1>8 DEF OnlyAt, SameSession, Away, objVars, clientVars
<1>10. /\ Len(landed'[s]) = 0 /\ Len(landed[s]) \in Nat /\ Len(recv_buffer[s]) \in Nat
       /\ Len(recv_buffer'[s]) = Len(recv_buffer[s]) + Len(landed[s])
  <2>1. /\ Len(Drop(landed[s], Len(landed[s]))) = 0
        /\ SubSeq(landed[s], 1, Len(landed[s])) = landed[s]
    BY <1>4, Whole
  <2>2. Len(recv_buffer[s] \o landed[s]) = Len(recv_buffer[s]) + Len(landed[s])
    BY <1>4
  <2> QED  BY <1>4, <1>7, <2>1, <2>2
<1>11. /\ io[s]["recv"] = "idle"
       /\ \A u \in Thread \ {t} : ~Is(u, s, {"recv_lock"}) /\ ~Is(u, s, {"wsarecv"})
  <2>1. RecvToken(t, s)  BY <1>1, <1>2 DEF RecvToken
  <2> QED  BY <2>1, RecvAlone DEF Good
<1>12. \A u \in Thread \ {t} : ~HoldsLock(u, s)
  BY <1>2, <1>3, <1>6, HolderAlone DEF Good, SessionInv
<1>13. /\ \A u \in Thread : ~Is(u, s, {"recv_lock"})' /\ ~Is(u, s, {"wsarecv"})'
       /\ \A u \in Thread : Is(u, s, {"send_lock"})' <=> Is(u, s, {"send_lock"})
       /\ \A u \in Thread : Is(u, s, {"send_lock"})' => transferred'[u] = transferred[u]
       /\ \A u \in Thread : Is(u, s, {"send_lock", "wsasend"})' <=> Is(u, s, {"send_lock", "wsasend"})
       /\ \A u \in Thread : Is(u, s, {"sendpost", "wsasend"})' <=> Is(u, s, {"sendpost", "wsasend"})
       /\ \A u \in Thread : Is(u, s, {"recheck"})' <=> Is(u, s, {"recheck"})
       /\ \A u \in Thread : Is(u, s, Receiving)' <=> Is(u, s, Receiving)
  BY <1>1, <1>2, <1>8, <1>11 DEF Is, SameThread, Receiving
<1>14. /\ HoldsLock(t, s)' /\ Echoing(t, s)'
       /\ \A u \in Thread : HoldsLock(u, s)' => u = t
       /\ \A u \in Thread : SendToken(u, s)' <=> SendToken(u, s)
       /\ \A u \in Thread : Refused(u, s)' <=> Refused(u, s)
  BY <1>1, <1>2, <1>8, <1>12 DEF HoldsLock, SendToken, Refused, Echoing, SameThread
<1>15. Held(s)'
  BY <1>2, <1>7, <1>14 DEF Held
<1>16. Landing(s)'
  BY <1>8, <1>10, <1>11, <1>13 DEF Landing
<1>17. Windows(s)'
  <2>1. Len(recv_buffer'[s]) + Len(landed'[s]) = Len(recv_buffer[s]) + Len(landed[s])
    BY <1>10
  <2> QED  BY <1>3, <1>8, <1>11, <1>13, <2>1 DEF SessionInv, Windows
<1>18. InOrder(s)'
  <2>1. PICK n \in Nat : /\ Sent(s, n)
                         /\ Follow(n, echoed[s], send_buffer[s], recv_buffer[s], landed[s], delivered[s])
    BY <1>3 DEF SessionInv, InOrder
  <2>2. Sent(s, n)'
    BY <1>8, <1>13, <2>1 DEF Sent
  <2>3. delivered[s] \in Nat
    BY <1>3, Types DEF Good
  <2>4. Follow(n, echoed'[s], send_buffer'[s], recv_buffer'[s], landed'[s], delivered'[s])
    BY <1>7, <1>8, <2>1, <2>3, FollowRecv
  <2> QED  BY <2>2, <2>4 DEF InOrder
<1>19. Waking(s)' /\ Posts(s)'
  BY <1>3, <1>8, <1>13, <1>14 DEF SessionInv, Waking, Posts
<1>20. Ends(s)'
  BY <1>3, <1>8, <1>11, <1>13 DEF SessionInv, Ends
<1>21. SessionInv(s)'
  BY <1>15, <1>16, <1>17, <1>18, <1>19, <1>20 DEF SessionInv
<1>22. \A x \in Session : SessionInv(x)'
  BY <1>3, <1>9, <1>21, Local
<1>23. DataTypeOK'
  <2>1. /\ Drop(landed[s], Len(landed[s])) \in Seq(Nat)
        /\ SubSeq(landed[s], 1, Len(landed[s])) \in Seq(Nat)
    BY <1>4, Whole
  <2>2. recv_buffer' \in [Session -> Seq(Nat)] /\ landed' \in [Session -> Seq(Nat)]
    BY <1>4, <1>6, <2>1
  <2> QED  BY <1>3, <1>6, <2>2 DEF DataTypeOK, mainVars, objVars, clientVars
<1> QED  BY <1>22, <1>23 DEF DataInv

(* What was sent is dropped from the send buffer, under the lock. *)
LEMMA DataEnterSend ==
  ASSUME Good, NEW t \in Thread, EnterSend(t)
  PROVE  DataInv'
<1> USE DEF At, Goto, Idle, Fresh, Reaping, Locked
<1>1. pc[t] = "send_lock" /\ pc[t] \notin Idle
  BY DEF EnterSend
<1>0. PICK s \in Session : s = cur[t]
  BY <1>1, Busy DEF Good
<1>2. /\ cur[t] = s /\ t \in Worker
      /\ pc \in [Thread -> Label] /\ ret \in [Thread -> Return]
      /\ lock \in [Session -> Thread \cup {Free}] /\ sending \in [Session -> {0, 1}]
  BY <1>0, <1>1, Busy DEF Good, LifetimeInv, ControlFlow
<1>3. DataTypeOK /\ SessionInv(s) /\ \A x \in Session : SessionInv(x)
  BY DEF Good, DataInv
<1>4. send_buffer \in [Session -> Seq(Nat)] /\ send_buffer[s] \in Seq(Nat) /\ delivered[s] \in Nat
  BY <1>3 DEF DataTypeOK
<1>5. PICK n \in Nat : /\ Sent(s, n)
                       /\ Follow(n, echoed[s], send_buffer[s], recv_buffer[s], landed[s], delivered[s])
  BY <1>3 DEF SessionInv, InOrder
<1>6. n = transferred[t] /\ n <= Len(send_buffer[s])
  <2>1. n = transferred[t]
    BY <1>1, <1>2, <1>5 DEF Sent, Is
  <2> QED  BY <1>4, <1>5, <2>1, FollowFront
<1>7. PICK rest \in Seq(Nat) : rest = Drop(send_buffer[s], n)
  BY <1>4, DropType
<1>8. /\ send_buffer' = [send_buffer EXCEPT ![s] = rest]
      /\ sending' = [sending EXCEPT ![s] = IF rest = << >> THEN 0 ELSE sending[s]]
      /\ ret' = [ret EXCEPT ![t] = "leave"]
      /\ lock' = [lock EXCEPT ![s] = t] /\ lock[s] = Free
      /\ pc' = [pc EXCEPT ![t] = IF rest = << >> THEN "recheck" ELSE "sendpost"]
      /\ UNCHANGED <<mainVars, cur, transferred, mapVars, objVars, io_count,
                     recv_buffer, ioVars, clientVars>>
  BY <1>2, <1>6, <1>7 DEF EnterSend, Rest, SendingAfter
<1>9. /\ send_buffer'[s] = rest /\ lock'[s] = t
      /\ sending'[s] = (IF rest = << >> THEN 0 ELSE sending[s])
      /\ \A x \in Session \ {s} : UNCHANGED <<send_buffer[x], sending[x], lock[x]>>
  BY <1>2, <1>4, <1>8
<1>10. /\ pc'[t] = (IF rest = << >> THEN "recheck" ELSE "sendpost") /\ cur'[t] = s /\ ret'[t] = "leave"
       /\ \A u \in Thread \ {t} : SameThread(u)
       /\ UNCHANGED <<io[s], wsabuf[s], internal_high[s], landed[s], mem[s], recv_buffer[s],
                      capacity[s], delivered[s], echoed[s], fin[s], failed[s]>>
  BY <1>2, <1>8 DEF SameThread, objVars, ioVars, clientVars
<1>11. OnlyAt(t, s)
  BY <1>2, <1>8, <1>9, <1>10 DEF OnlyAt, SameSession, Away, objVars, ioVars, clientVars
<1>12. /\ io[s]["send"] = "idle" /\ sending[s] = 1
       /\ \A u \in Thread \ {t} : /\ ~Is(u, s, {"send_lock"})
                                  /\ ~Is(u, s, {"send_lock", "wsasend"})
                                  /\ ~Is(u, s, {"sendpost", "wsasend"})
  <2>1. SendToken(t, s)  BY <1>1, <1>2 DEF SendToken
  <2> QED  BY <2>1, SendAlone DEF Good
<1>13. /\ \A u \in Thread \ {t} : ~HoldsLock(u, s)
       /\ \A u \in Thread \ {t} : ~Is(u, s, {"recheck"})
  BY <1>2, <1>3, <1>8, HolderAlone DEF Good, SessionInv
<1>14. /\ \A u \in Thread : ~Is(u, s, {"send_lock"})' /\ ~Is(u, s, {"send_lock", "wsasend"})'
       /\ \A u \in Thread : Is(u, s, {"recheck"})' => rest = << >>
       /\ \A u \in Thread : Is(u, s, {"sendpost", "wsasend"})' => rest # << >>
       /\ \A u \in Thread : Is(u, s, {"recv_lock"})' <=> Is(u, s, {"recv_lock"})
       /\ \A u \in Thread : Is(u, s, {"wsarecv"})' <=> Is(u, s, {"wsarecv"})
       /\ \A u \in Thread : Is(u, s, {"recv_lock"})' => transferred'[u] = transferred[u]
       /\ \A u \in Thread : Is(u, s, Receiving)' <=> Is(u, s, Receiving)
  BY <1>1, <1>2, <1>10, <1>12, <1>13 DEF Is, SameThread, Receiving
<1>15. /\ HoldsLock(t, s)' /\ (rest # << >> => SendToken(t, s)')
       /\ \A u \in Thread : HoldsLock(u, s)' => u = t
       /\ \A u \in Thread : Refused(u, s)' => Refused(u, s)
       /\ \A u \in Thread : Echoing(u, s) => Echoing(u, s)'
  BY <1>1, <1>2, <1>10, <1>13 DEF HoldsLock, SendToken, Refused, Echoing, SameThread
<1>16. Len(send_buffer'[s]) = 0 <=> rest = << >>
  BY <1>7, <1>9, EmptyLen
<1>17. Held(s)'
  BY <1>2, <1>9, <1>15 DEF Held
<1>18. Landing(s)'
  BY <1>3, <1>10, <1>14 DEF SessionInv, Landing
<1>19. Windows(s)'
  BY <1>3, <1>10, <1>12, <1>14 DEF SessionInv, Windows
<1>20. InOrder(s)'
  <2>1. Follow(0, echoed'[s], send_buffer'[s], recv_buffer'[s], landed'[s], delivered'[s])
    BY <1>4, <1>5, <1>7, <1>9, <1>10, FollowSend
  <2>2. Sent(s, 0)'
    BY <1>10, <1>12, <1>14 DEF Sent
  <2> QED  BY <2>1, <2>2 DEF InOrder
<1>21. Waking(s)'
  BY <1>9, <1>12, <1>15, <1>16 DEF Waking
<1>22. Posts(s)'
  BY <1>3, <1>10, <1>14, <1>15, <1>16 DEF SessionInv, Posts
<1>23. Ends(s)'
  BY <1>3, <1>10, <1>12, <1>14 DEF SessionInv, Ends
<1>24. SessionInv(s)'
  BY <1>17, <1>18, <1>19, <1>20, <1>21, <1>22, <1>23 DEF SessionInv
<1>25. \A x \in Session : SessionInv(x)'
  BY <1>3, <1>11, <1>24, Local
<1>26. DataTypeOK'
  <2>1. send_buffer' \in [Session -> Seq(Nat)]
    BY <1>4, <1>7, <1>8
  <2> QED  BY <1>3, <1>8, <2>1 DEF DataTypeOK, mainVars, objVars, ioVars, clientVars
<1> QED  BY <1>25, <1>26 DEF DataInv

(***************************************************************************)
(* Taking a packet from the port                                           *)
(***************************************************************************)

(* A thread that was idle works on a completion: its references move. *)
LEMMA DataDequeue ==
  ASSUME Good, NEW t \in Thread, DequeuePacket(t)
  PROVE  DataInv'
<1> USE DEF At, Goto, Idle, Fresh, Reaping, Locked
<1>1. pc[t] = "wait" /\ pc[t] \in Idle
  BY DEF DequeuePacket
<1>2. PICK s \in Session, op \in Op :
         /\ io[s][op] = "done"
         /\ io' = [io EXCEPT ![s][op] = "idle"]
         /\ cur' = [cur EXCEPT ![t] = s]
         /\ transferred' = [transferred EXCEPT ![t] = internal_high[s][op]]
         /\ pc' = [pc EXCEPT ![t] = IF internal_high[s][op] = 0 THEN "dec"
                                    ELSE IF op = "recv" THEN "recv_lock" ELSE "send_lock"]
  BY DEF DequeuePacket
<1>3. /\ pc \in [Thread -> Label] /\ cur \in [Thread -> Session \cup {NoSession}]
      /\ io \in [Session -> [Op -> {"idle", "posted", "done"}]]
      /\ t \in Worker /\ ret[t] = "loop"
  BY <1>1, ThreadAssumption DEF Good, LifetimeInv, ControlTypeOK, ControlFlow, Thread
<1>4. DataTypeOK /\ SessionInv(s) /\ \A x \in Session : SessionInv(x)
  BY DEF Good, DataInv
<1>5. /\ transferred \in [Thread -> Nat] /\ internal_high[s][op] \in Nat
      /\ "recv" \in Op /\ "send" \in Op
  BY <1>4 DEF DataTypeOK, Op
<1>6. UNCHANGED <<mainVars, ret, mapVars, objVars, syncVars, bufVars, wsabuf,
                  internal_high, landed, clientVars>>
  BY DEF DequeuePacket
<1>7. /\ cur'[t] = s /\ transferred'[t] = internal_high[s][op] /\ ret'[t] = "loop"
      /\ pc'[t] = (IF internal_high[s][op] = 0 THEN "dec"
                   ELSE IF op = "recv" THEN "recv_lock" ELSE "send_lock")
      /\ io'[s][op] = "idle" /\ \A o \in Op \ {op} : io'[s][o] = io[s][o]
      /\ \A x \in Session \ {s} : io'[x] = io[x]
  BY <1>2, <1>3, <1>5, <1>6
<1>8. /\ \A u \in Thread \ {t} : SameThread(u)
      /\ UNCHANGED <<lock[s], wsabuf[s], internal_high[s], landed[s], sending[s], mem[s],
                     send_buffer[s], recv_buffer[s], capacity[s], delivered[s], echoed[s], fin[s], failed[s]>>
  BY <1>2, <1>3, <1>5, <1>6 DEF SameThread, objVars, syncVars, bufVars, clientVars
<1>9. OnlyAt(t, s)
  BY <1>1, <1>3, <1>6, <1>7, <1>8 DEF OnlyAt, SameSession, Away, objVars, syncVars, bufVars, clientVars
<1>10. /\ \A u \in Thread : HoldsLock(u, s)' <=> HoldsLock(u, s)
       /\ \A u \in Thread : Refused(u, s)' => Refused(u, s)
       /\ \A u \in Thread : Echoing(u, s) => Echoing(u, s)'
       /\ \A u \in Thread : SendToken(u, s) => SendToken(u, s)'
       /\ \A u \in Thread : Is(u, s, {"sendpost", "wsasend"})' <=> Is(u, s, {"sendpost", "wsasend"})
       /\ \A u \in Thread : Is(u, s, {"recheck"})' <=> Is(u, s, {"recheck"})
       /\ \A u \in Thread : Is(u, s, {"wsarecv"})' <=> Is(u, s, {"wsarecv"})
  BY <1>1, <1>3, <1>7, <1>8 DEF HoldsLock, Refused, Echoing, SendToken, Is, SameThread
<1>11. Held(s)'
  <2>1. Worker \subseteq Thread  BY DEF Thread
  <2> QED  BY <1>4, <1>8, <1>10, <2>1 DEF SessionInv, Held
<1>12. Posts(s)'
  BY <1>4, <1>8, <1>10 DEF SessionInv, Posts
<1>13. ASSUME op = "recv" PROVE SessionInv(s)'
  <2>1. /\ io[s]["recv"] = "done" /\ io'[s]["recv"] = "idle" /\ io'[s]["send"] = io[s]["send"]
        /\ transferred'[t] = internal_high[s]["recv"]
        /\ pc'[t] = (IF internal_high[s]["recv"] = 0 THEN "dec" ELSE "recv_lock")
    BY <1>2, <1>5, <1>7, <1>13
  <2>2. \A u \in Thread : ~Is(u, s, {"recv_lock"})
    BY <2>1 DEF Good, LifetimeInv, OneRecv, RecvToken, Is
  <2>3. /\ \A u \in Thread : Is(u, s, {"recv_lock"})' => u = t /\ internal_high[s]["recv"] # 0
        /\ internal_high[s]["recv"] # 0 => Is(t, s, {"recv_lock"})' /\ Is(t, s, Receiving)'
        /\ \A u \in Thread : Is(u, s, Receiving) => Is(u, s, Receiving)'
        /\ \A u \in Thread : Is(u, s, Receiving)' => Is(u, s, Receiving) \/ internal_high[s]["recv"] # 0
    BY <1>1, <1>7, <1>8, <2>1, <2>2 DEF Is, SameThread, Receiving
  <2>4. /\ \A u \in Thread : Is(u, s, {"send_lock"})' <=> Is(u, s, {"send_lock"})
        /\ \A u \in Thread : Is(u, s, {"send_lock"})' => transferred'[u] = transferred[u]
        /\ \A u \in Thread : Is(u, s, {"send_lock", "wsasend"})' <=> Is(u, s, {"send_lock", "wsasend"})
    BY <1>1, <1>7, <1>8, <2>1 DEF Is, SameThread
  <2>5. Landing(s)'
    <3>1. Len(landed[s]) = internal_high[s]["recv"]
      BY <1>4, <2>1 DEF SessionInv, Landing
    <3> QED  BY <1>8, <2>1, <2>3, <3>1 DEF Landing
  <2>6. Windows(s)'
    BY <1>4, <1>8, <1>10, <2>1, <2>4 DEF SessionInv, Windows
  <2>7. InOrder(s)'
    <3>1. PICK n \in Nat : /\ Sent(s, n)
                           /\ Follow(n, echoed[s], send_buffer[s], recv_buffer[s], landed[s], delivered[s])
      BY <1>4 DEF SessionInv, InOrder
    <3>2. Sent(s, n)'
      BY <1>8, <2>1, <2>4, <3>1 DEF Sent
    <3>3. Follow(n, echoed'[s], send_buffer'[s], recv_buffer'[s], landed'[s], delivered'[s])
      BY <1>8, <3>1
    <3> QED  BY <3>2, <3>3 DEF InOrder
  <2>8. Waking(s)'
    BY <1>4, <1>8, <1>10, <2>1 DEF SessionInv, Waking
  <2>9. Ends(s)'
    BY <1>4, <1>8, <2>1, <2>3 DEF SessionInv, Ends
  <2> QED  BY <1>11, <1>12, <2>5, <2>6, <2>7, <2>8, <2>9 DEF SessionInv
<1>14. ASSUME op = "send" PROVE SessionInv(s)'
  <2>1. /\ io[s]["send"] = "done" /\ io'[s]["send"] = "idle" /\ io'[s]["recv"] = io[s]["recv"]
        /\ transferred'[t] = internal_high[s]["send"]
        /\ pc'[t] = (IF internal_high[s]["send"] = 0 THEN "dec" ELSE "send_lock")
    BY <1>2, <1>5, <1>7, <1>14
  <2>2. \A u \in Thread : ~SendToken(u, s)
    BY <2>1 DEF Good, LifetimeInv, OneSend
  <2>3. \A u \in Thread : ~Is(u, s, {"send_lock"}) /\ ~Is(u, s, {"send_lock", "wsasend"})
    BY <2>2 DEF Is, SendToken
  <2>4. /\ \A u \in Thread : Is(u, s, {"send_lock"})' => u = t /\ internal_high[s]["send"] # 0
        /\ internal_high[s]["send"] # 0 => Is(t, s, {"send_lock"})' /\ SendToken(t, s)'
        /\ \A u \in Thread : Is(u, s, {"send_lock", "wsasend"})' => u = t
    BY <1>1, <1>7, <1>8, <2>1, <2>3 DEF Is, SameThread, SendToken
  <2>5. /\ \A u \in Thread : Is(u, s, {"recv_lock"})' <=> Is(u, s, {"recv_lock"})
        /\ \A u \in Thread : Is(u, s, {"recv_lock"})' => transferred'[u] = transferred[u]
        /\ \A u \in Thread : Is(u, s, Receiving)' <=> Is(u, s, Receiving)
    BY <1>1, <1>7, <1>8, <2>1 DEF Is, SameThread, Receiving
  <2>6. Landing(s)'
    BY <1>4, <1>8, <2>1, <2>5 DEF SessionInv, Landing
  <2>7. Windows(s)'
    BY <1>4, <1>8, <1>10, <2>1 DEF SessionInv, Windows
  <2>8. InOrder(s)'
    <3>1. PICK n \in Nat : /\ Sent(s, n)
                           /\ Follow(n, echoed[s], send_buffer[s], recv_buffer[s], landed[s], delivered[s])
      BY <1>4 DEF SessionInv, InOrder
    <3>2. n = internal_high[s]["send"]
      BY <2>1, <3>1 DEF Sent
    <3>3. Sent(s, n)'
      BY <1>8, <2>1, <2>4, <3>2 DEF Sent
    <3>4. Follow(n, echoed'[s], send_buffer'[s], recv_buffer'[s], landed'[s], delivered'[s])
      BY <1>8, <3>1
    <3> QED  BY <3>3, <3>4 DEF InOrder
  <2>9. Waking(s)'
    <3>1. internal_high[s]["send"] = 0 => failed[s]
      BY <1>4, <2>1 DEF SessionInv, Ends
    <3>2. ~failed[s] => sending[s] = 1
      BY <2>1 DEF Good, LifetimeInv, OneSend, ControlTypeOK
    <3> QED  BY <1>8, <2>4, <3>1, <3>2 DEF Waking
  <2>10. Ends(s)'
    BY <1>4, <1>8, <2>1, <2>5 DEF SessionInv, Ends
  <2> QED  BY <1>11, <1>12, <2>6, <2>7, <2>8, <2>9, <2>10 DEF SessionInv
<1>15. SessionInv(s)'
  BY <1>13, <1>14 DEF Op
<1>16. \A x \in Session : SessionInv(x)'
  BY <1>4, <1>9, <1>15, Local
<1>17. DataTypeOK'
  <2>1. transferred' \in [Thread -> Nat]
    BY <1>2, <1>5
  <2> QED  BY <1>4, <1>6, <2>1 DEF DataTypeOK, mainVars, objVars, bufVars, clientVars
<1> QED  BY <1>16, <1>17 DEF DataInv

(***************************************************************************)
(* A connection is accepted                                                *)
(***************************************************************************)

(* A Session that was never allocated: nothing refers to it. *)
LEMMA Unused ==
  ASSUME LifetimeInv, DataInv, NEW s \in Session, mem[s] = "none",
         pc[Acceptor] # "abandon"
  PROVE  /\ \A u \in Thread : cur[u] = s => pc[u] \in Idle
         /\ io[s]["recv"] = "idle" /\ io[s]["send"] = "idle"
         /\ Len(recv_buffer[s]) = 0 /\ Len(landed[s]) = 0 /\ ~fin[s]
<1>1. \A u \in Thread : cur[u] = s => pc[u] \in Idle
  BY DEF LifetimeInv, NoUseAfterFree
<1>2. io[s]["recv"] = "idle" /\ io[s]["send"] = "idle"
  BY DEF LifetimeInv, IoRefs, Op
<1>3. SessionInv(s)
  BY DEF DataInv
<1>4. \A u \in Thread : ~Echoing(u, s) /\ ~Is(u, s, {"recv_lock"})
  BY <1>1 DEF Echoing, Is, Idle
<1>5. Len(recv_buffer[s]) = 0
  BY <1>3, <1>4 DEF SessionInv, Posts
<1>6. Len(landed[s]) = 0
  BY <1>2, <1>3, <1>4 DEF SessionInv, Landing
<1>7. ~fin[s]
  BY <1>3 DEF SessionInv, Ends
<1> QED  BY <1>1, <1>2, <1>5, <1>6, <1>7

(* A Session is allocated: its receive is still to come. *)
LEMMA DataAccept ==
  ASSUME Good, NEW t \in Thread, AcceptClient(t)
  PROVE  DataInv'
<1> USE DEF At, Goto, Idle, Fresh, Reaping, Locked
<1>1. pc[t] = "accept"
  BY DEF AcceptClient
<1>2. PICK s \in Session, size \in [Op -> {0, Capacity}] :
         /\ mem[s] = "none"
         /\ mem' = [mem EXCEPT ![s] = "live"]
         /\ capacity' = [capacity EXCEPT ![s] = size]
         /\ cur' = [cur EXCEPT ![t] = s]
  <2>1. [Op -> IF "memory" \in Failures THEN {0, Capacity} ELSE {Capacity}] \subseteq [Op -> {0, Capacity}]
    <3>1. CASE "memory" \in Failures  BY <3>1
    <3>2. CASE "memory" \notin Failures  BY <3>2
    <3> QED  BY <3>1, <3>2
  <2>2. PICK s \in Session, size \in [Op -> IF "memory" \in Failures THEN {0, Capacity} ELSE {Capacity}] :
           /\ mem[s] = "none"
           /\ mem' = [mem EXCEPT ![s] = "live"]
           /\ capacity' = [capacity EXCEPT ![s] = size]
           /\ cur' = [cur EXCEPT ![t] = s]
    BY Zenon DEF AcceptClient
  <2> QED  BY <2>1, <2>2, Zenon
<1>3. /\ pc \in [Thread -> Label] /\ cur \in [Thread -> Session \cup {NoSession}]
      /\ mem \in [Session -> {"none", "live", "freed"}]
      /\ t = Acceptor /\ t \notin Worker
  BY <1>1, ThreadAssumption DEF Good, LifetimeInv, ControlTypeOK, ControlFlow, Thread
<1>4. DataTypeOK /\ SessionInv(s) /\ \A x \in Session : SessionInv(x)
  BY DEF Good, DataInv
<1>5. capacity \in [Session -> [Op -> {0, Capacity}]] /\ size["recv"] \in Nat
  BY <1>4, NumberAssumption DEF DataTypeOK, Op
<1>6. /\ pc' = [pc EXCEPT ![t] = "emplace"]
      /\ UNCHANGED <<mainVars, ret, transferred, syncVars, bufVars, ioVars, clientVars>>
  BY DEF AcceptClient
<1>7. /\ pc'[t] = "emplace" /\ cur'[t] = s /\ mem'[s] = "live" /\ capacity'[s] = size
      /\ \A x \in Session \ {s} : UNCHANGED <<mem[x], capacity[x]>>
      /\ \A u \in Thread \ {t} : SameThread(u)
      /\ UNCHANGED <<io[s], wsabuf[s], internal_high[s], landed[s], lock[s], sending[s],
                     recv_buffer[s], send_buffer[s], delivered[s], echoed[s], fin[s], failed[s]>>
  BY <1>2, <1>3, <1>5, <1>6 DEF SameThread, syncVars, bufVars, ioVars, clientVars
<1>8. OnlyAt(t, s)
  BY <1>1, <1>6, <1>7 DEF OnlyAt, SameSession, Away, syncVars, bufVars, ioVars, clientVars
<1>9. /\ \A u \in Thread : cur[u] = s => pc[u] \in Idle
      /\ io[s]["recv"] = "idle" /\ io[s]["send"] = "idle"
      /\ Len(recv_buffer[s]) = 0 /\ Len(landed[s]) = 0 /\ ~fin[s]
  BY <1>1, <1>2, <1>3, Unused DEF Good
<1>10. /\ \A u \in Thread : cur'[u] = s => pc'[u] \in Idle \/ (u = t /\ pc'[u] = "emplace")
  BY <1>3, <1>7, <1>9 DEF SameThread
<1>11. /\ \A u \in Thread : ~HoldsLock(u, s) /\ ~HoldsLock(u, s)'
       /\ \A u \in Thread : ~SendToken(u, s) /\ ~SendToken(u, s)'
       /\ \A u \in Thread : ~Refused(u, s)'
       /\ \A u \in Thread : ~Is(u, s, {"recv_lock"})'
       /\ \A u \in Thread : ~Is(u, s, {"send_lock"}) /\ ~Is(u, s, {"send_lock"})'
       /\ \A u \in Thread : ~Is(u, s, {"wsarecv"})'
       /\ \A u \in Thread : ~Is(u, s, {"recheck"})'
       /\ \A u \in Thread : ~Is(u, s, {"send_lock", "wsasend"})'
       /\ \A u \in Thread : ~Is(u, s, {"sendpost", "wsasend"})'
       /\ Is(t, s, Receiving)'
  BY <1>7, <1>9, <1>10 DEF HoldsLock, SendToken, Refused, Is, Receiving
<1>12. Held(s)'
  <2>1. Worker \subseteq Thread  BY DEF Thread
  <2> QED  BY <1>4, <1>7, <1>11, <2>1 DEF SessionInv, Held
<1>13. Landing(s)'
  BY <1>7, <1>9, <1>11 DEF Landing
<1>14. Windows(s)'
  BY <1>5, <1>7, <1>9, <1>11 DEF Windows
<1>15. InOrder(s)'
  <2>1. PICK n \in Nat : /\ Sent(s, n)
                         /\ Follow(n, echoed[s], send_buffer[s], recv_buffer[s], landed[s], delivered[s])
    BY <1>4 DEF SessionInv, InOrder
  <2>2. Sent(s, n)'
    BY <1>7, <1>9, <1>11, <2>1 DEF Sent
  <2>3. Follow(n, echoed'[s], send_buffer'[s], recv_buffer'[s], landed'[s], delivered'[s])
    BY <1>7, <2>1
  <2> QED  BY <2>2, <2>3 DEF InOrder
<1>16. Waking(s)'
  BY <1>4, <1>7, <1>11 DEF SessionInv, Waking
<1>17. Posts(s)'
  BY <1>7, <1>9, <1>11 DEF Posts
<1>18. Ends(s)'
  BY <1>7, <1>9, <1>11 DEF Ends
<1>19. SessionInv(s)'
  BY <1>12, <1>13, <1>14, <1>15, <1>16, <1>17, <1>18 DEF SessionInv
<1>20. \A x \in Session : SessionInv(x)'
  BY <1>4, <1>8, <1>19, Local
<1>21. DataTypeOK'
  <2>1. capacity' \in [Session -> [Op -> {0, Capacity}]]
    BY <1>2, <1>5
  <2> QED  BY <1>4, <1>6, <2>1 DEF DataTypeOK, mainVars, bufVars, ioVars, clientVars
<1> QED  BY <1>20, <1>21 DEF DataInv

(***************************************************************************)
(* The kernel                                                              *)
(***************************************************************************)

(* A completion of s: nothing happens to the other sessions. *)
OnlyOf(s) ==
    /\ UNCHANGED <<pc, ret, cur, transferred>>
    /\ \A x \in Session \ {s} : SameSession(x)

LEMMA KernelLocal ==
  ASSUME NEW s \in Session, OnlyOf(s), \A x \in Session : SessionInv(x), SessionInv(s)'
  PROVE  \A x \in Session : SessionInv(x)'
<1>1. \A x \in Session \ {s} : SameFor(x)
  BY DEF OnlyOf, SameFor, SameThread
<1> QED  BY <1>1, Elsewhere

LEMMA ThreadsStay ==
  ASSUME UNCHANGED <<pc, ret, cur, transferred>>, NEW s \in Session
  PROVE  /\ \A u \in Thread : HoldsLock(u, s)' <=> HoldsLock(u, s)
         /\ \A u \in Thread : SendToken(u, s)' <=> SendToken(u, s)
         /\ \A u \in Thread : Refused(u, s)' <=> Refused(u, s)
         /\ \A u \in Thread : Echoing(u, s)' <=> Echoing(u, s)
         /\ \A labels : \A u \in Thread : Is(u, s, labels)' <=> Is(u, s, labels)
         /\ \A u \in Thread : Is(u, s, Receiving)' <=> Is(u, s, Receiving)
         /\ \A u \in Thread : transferred'[u] = transferred[u]
BY DEF HoldsLock, SendToken, Refused, Echoing, Is, Receiving

(* A session whose receive is with the kernel or in the port. *)
LEMMA NoReceiver ==
  ASSUME LifetimeInv, NEW s \in Session, io[s]["recv"] # "idle"
  PROVE  /\ \A u \in Thread : ~Is(u, s, Receiving)
         /\ \A u \in Thread : ~Is(u, s, {"recv_lock"}) /\ ~Is(u, s, {"wsarecv"})
         /\ mem[s] = "live"
<1>1. "recv" \in IoRefs(s)
  BY DEF IoRefs, Op
<1>2. \A u \in Thread : ~RecvToken(u, s)
  BY DEF LifetimeInv, OneRecv
<1>3. \A u \in Thread : ~Is(u, s, {"emplace", "associate"})
  <2>1. SUFFICES ASSUME NEW u \in Thread, cur[u] = s, pc[u] \in {"emplace", "associate"} PROVE FALSE
    BY DEF Is
  <2>2. u = Acceptor
    BY <2>1, ThreadAssumption DEF Thread, LifetimeInv, ControlFlow
  <2>3. Exclusive(u)
    BY <2>1, <2>2 DEF Exclusive, Fresh
  <2>4. IoRefs(s) = {}
    BY <2>1, <2>3 DEF LifetimeInv, Alone
  <2> QED  BY <1>1, <2>4
<1>4. \A u \in Thread : ~Is(u, s, Receiving)
  BY <1>2, <1>3 DEF Is, Receiving, Fresh, RecvToken
<1>5. \A u \in Thread : ~Is(u, s, {"recv_lock"}) /\ ~Is(u, s, {"wsarecv"})
  BY <1>2 DEF Is, RecvToken
<1>6. mem[s] = "live"
  BY <1>1 DEF LifetimeInv
<1> QED  BY <1>4, <1>5, <1>6

(* A session whose send is with the kernel or in the port. *)
LEMMA NoSender ==
  ASSUME LifetimeInv, NEW s \in Session, io[s]["send"] # "idle"
  PROVE  \A u \in Thread : ~Is(u, s, {"send_lock"}) /\ ~Is(u, s, {"send_lock", "wsasend"})
BY DEF LifetimeInv, OneSend, SendToken, Is

(* A receive completes with n bytes. *)
LEMMA RecvDone ==
  ASSUME LifetimeInv, DataInv, NEW s \in Session, NEW n \in Nat,
         UNCHANGED <<pc, ret, cur, transferred>>,
         UNCHANGED <<wsabuf[s], lock[s], sending[s], mem[s], capacity[s], recv_buffer[s],
                     send_buffer[s], echoed[s]>>,
         n <= wsabuf[s]["recv"],
         io[s]["recv"] = "posted", io'[s]["recv"] = "done", io'[s]["send"] = io[s]["send"],
         internal_high'[s]["recv"] = n, internal_high'[s]["send"] = internal_high[s]["send"],
         landed'[s] = landed[s] \o Bytes(delivered[s], n), delivered'[s] = delivered[s] + n,
         failed[s] => failed'[s], n = 0 => failed'[s] \/ fin'[s], fin'[s] => fin[s] \/ n = 0
  PROVE  SessionInv(s)'
<1>1. DataTypeOK /\ SessionInv(s)
  BY DEF DataInv
<1>2. /\ \A u \in Thread : ~Is(u, s, Receiving)
      /\ \A u \in Thread : ~Is(u, s, {"recv_lock"}) /\ ~Is(u, s, {"wsarecv"})
      /\ mem[s] = "live"
  BY NoReceiver
<1>3. /\ \A u \in Thread : HoldsLock(u, s)' <=> HoldsLock(u, s)
      /\ \A u \in Thread : SendToken(u, s)' <=> SendToken(u, s)
      /\ \A u \in Thread : Refused(u, s)' <=> Refused(u, s)
      /\ \A u \in Thread : Echoing(u, s)' <=> Echoing(u, s)
      /\ \A labels : \A u \in Thread : Is(u, s, labels)' <=> Is(u, s, labels)
      /\ \A u \in Thread : Is(u, s, Receiving)' <=> Is(u, s, Receiving)
      /\ \A u \in Thread : transferred'[u] = transferred[u]
  BY ThreadsStay
<1>4. /\ landed[s] \in Seq(Nat) /\ delivered[s] \in Nat /\ Len(recv_buffer[s]) \in Nat
      /\ wsabuf[s]["recv"] \in Nat /\ capacity[s]["recv"] \in Nat
  BY <1>1, Types
<1>5. landed[s] = << >>
  BY <1>1, <1>2, <1>4, EmptyLen DEF SessionInv, Landing
<1>6. Len(landed'[s]) = n
  <2>1. Bytes(delivered[s], n) \in Seq(Nat) /\ Len(Bytes(delivered[s], n)) = n
    <3>1. PICK v \in Nat : v = delivered[s] + n  BY <1>4
    <3>2. v - delivered[s] = n /\ delivered[s] <= v  BY <1>4, <3>1
    <3>3. /\ Bytes(delivered[s], v - delivered[s]) \in Seq(Nat)
          /\ Len(Bytes(delivered[s], v - delivered[s])) = v - delivered[s]
      BY <1>4, <3>2, BytesLen
    <3> QED  BY <3>2, <3>3
  <2> QED  BY <1>5, <2>1
<1>7. Held(s)'
  <2>1. Worker \subseteq Thread  BY DEF Thread
  <2> QED  BY <1>1, <1>3, <2>1 DEF SessionInv, Held
<1>8. Landing(s)'
  BY <1>2, <1>3, <1>6 DEF Landing
<1>9. Windows(s)'
  <2>1. Len(recv_buffer[s]) + n <= capacity[s]["recv"]
    <3>1. wsabuf[s]["recv"] + Len(recv_buffer[s]) <= capacity[s]["recv"]
      BY <1>1 DEF SessionInv, Windows
    <3> QED  BY <1>4, <3>1
  <2> QED  BY <1>1, <1>2, <1>3, <1>6, <2>1 DEF SessionInv, Windows
<1>10. InOrder(s)'
  <2>1. PICK k \in Nat : /\ Sent(s, k)
                         /\ Follow(k, echoed[s], send_buffer[s], recv_buffer[s], landed[s], delivered[s])
    BY <1>1 DEF SessionInv, InOrder
  <2>2. Sent(s, k)'
    BY <1>3, <2>1 DEF Sent
  <2>3. Follow(k, echoed[s], send_buffer[s], recv_buffer[s],
               landed[s] \o Bytes(delivered[s], n), delivered[s] + n)
    BY <1>4, <1>5, <2>1, FollowLand, Zenon
  <2>4. Follow(k, echoed'[s], send_buffer'[s], recv_buffer'[s], landed'[s], delivered'[s])
    BY <2>3, Zenon
  <2> QED  BY <2>2, <2>4 DEF InOrder
<1>11. Waking(s)'
  BY <1>1, <1>3 DEF SessionInv, Waking
<1>12. Posts(s)'
  BY <1>1, <1>3 DEF SessionInv, Posts
<1>13. Ends(s)'
  BY <1>1, <1>2, <1>3 DEF SessionInv, Ends
<1> QED  BY <1>7, <1>8, <1>9, <1>10, <1>11, <1>12, <1>13 DEF SessionInv

(* A send completes with n bytes. *)
LEMMA SendDone ==
  ASSUME LifetimeInv, DataInv, NEW s \in Session, NEW n \in Nat,
         UNCHANGED <<pc, ret, cur, transferred>>,
         UNCHANGED <<wsabuf[s], lock[s], sending[s], mem[s], capacity[s], recv_buffer[s],
                     send_buffer[s], landed[s], delivered[s], fin[s]>>,
         n <= wsabuf[s]["send"],
         io[s]["send"] = "posted", io'[s]["send"] = "done", io'[s]["recv"] = io[s]["recv"],
         internal_high'[s]["send"] = n, internal_high'[s]["recv"] = internal_high[s]["recv"],
         echoed'[s] = echoed[s] \o SubSeq(send_buffer[s], 1, n),
         failed[s] => failed'[s], n = 0 => failed'[s]
  PROVE  SessionInv(s)'
<1>1. DataTypeOK /\ SessionInv(s)
  BY DEF DataInv
<1>2. \A u \in Thread : ~Is(u, s, {"send_lock"}) /\ ~Is(u, s, {"send_lock", "wsasend"})
  BY NoSender
<1>3. /\ \A u \in Thread : HoldsLock(u, s)' <=> HoldsLock(u, s)
      /\ \A u \in Thread : SendToken(u, s)' <=> SendToken(u, s)
      /\ \A u \in Thread : Refused(u, s)' <=> Refused(u, s)
      /\ \A u \in Thread : Echoing(u, s)' <=> Echoing(u, s)
      /\ \A labels : \A u \in Thread : Is(u, s, labels)' <=> Is(u, s, labels)
      /\ \A u \in Thread : Is(u, s, Receiving)' <=> Is(u, s, Receiving)
      /\ \A u \in Thread : transferred'[u] = transferred[u]
  BY ThreadsStay
<1>4. /\ send_buffer[s] \in Seq(Nat) /\ delivered[s] \in Nat
      /\ wsabuf[s]["send"] \in Nat
  BY <1>1, Types
<1>5. n <= Len(send_buffer[s])
  <2>1. wsabuf[s]["send"] <= Len(send_buffer[s]) /\ Len(send_buffer[s]) \in Nat
    BY <1>1, <1>4 DEF SessionInv, Windows
  <2> QED  BY <1>4, <2>1
<1>6. Held(s)'
  <2>1. Worker \subseteq Thread  BY DEF Thread
  <2> QED  BY <1>1, <1>3, <2>1 DEF SessionInv, Held
<1>7. Landing(s)'
  BY <1>1, <1>3 DEF SessionInv, Landing
<1>8. Windows(s)'
  BY <1>1, <1>3 DEF SessionInv, Windows
<1>9. InOrder(s)'
  <2>1. Follow(0, echoed[s], send_buffer[s], recv_buffer[s], landed[s], delivered[s])
    BY <1>1, <1>2 DEF SessionInv, InOrder, Sent
  <2>2. Follow(n, echoed'[s], send_buffer'[s], recv_buffer'[s], landed'[s], delivered'[s])
    BY <1>4, <1>5, <2>1, FollowBack
  <2>3. Sent(s, n)'
    BY <1>2, <1>3 DEF Sent
  <2> QED  BY <2>2, <2>3 DEF InOrder
<1>10. Waking(s)'
  BY <1>1, <1>3 DEF SessionInv, Waking
<1>11. Posts(s)'
  BY <1>1, <1>3 DEF SessionInv, Posts
<1>12. Ends(s)'
  BY <1>1, <1>3 DEF SessionInv, Ends
<1> QED  BY <1>6, <1>7, <1>8, <1>9, <1>10, <1>11, <1>12 DEF SessionInv

(* An operation completes, whatever the kernel made of it. *)
LEMMA DataKernel ==
  ASSUME LifetimeInv, LifetimeInv', DataInv, NEW s \in Session, Kernel(s)
  PROVE  DataInv'
<1>1. DataTypeOK /\ SessionInv(s) /\ \A x \in Session : SessionInv(x)
  BY DEF DataInv
<1>2. /\ internal_high \in [Session -> [Op -> Nat]]
      /\ io \in [Session -> [Op -> {"idle", "posted", "done"}]]
      /\ landed \in [Session -> Seq(Nat)] /\ delivered \in [Session -> Nat]
      /\ echoed \in [Session -> Seq(Nat)] /\ fin \in [Session -> BOOLEAN]
      /\ failed \in [Session -> BOOLEAN]
      /\ send_buffer[s] \in Seq(Nat) /\ \A o \in Op : wsabuf[s][o] \in Nat
  BY <1>1 DEF DataTypeOK, LifetimeInv, ControlTypeOK
<1>3. "recv" \in Op /\ "send" \in Op
  BY DEF Op
<1>4. UNCHANGED <<mainVars, threadVars, mapVars, objVars, syncVars, bufVars, wsabuf>>
  BY DEF Kernel, KernelRecv, KernelEof, KernelSend, KernelFail
<1>5. ASSUME NEW o \in Op, NEW n \in Nat, Complete(s, o, n)
      PROVE  /\ io[s][o] = "posted" /\ io'[s][o] = "done" /\ internal_high'[s][o] = n
             /\ \A p \in Op \ {o} : io'[s][p] = io[s][p] /\ internal_high'[s][p] = internal_high[s][p]
             /\ \A x \in Session \ {s} : UNCHANGED <<io[x], internal_high[x]>>
             /\ internal_high' \in [Session -> [Op -> Nat]]
  BY <1>2, <1>5 DEF Complete
<1>6. CASE KernelRecv(s)
  <2>1. PICK n \in 1 .. MaxBytes - delivered[s] :
           /\ n <= wsabuf[s]["recv"]
           /\ Complete(s, "recv", n)
           /\ landed' = [landed EXCEPT ![s] = @ \o Bytes(delivered[s], n)]
           /\ delivered' = [delivered EXCEPT ![s] = @ + n]
    BY <1>6 DEF KernelRecv
  <2>2. n \in Nat /\ n # 0 /\ delivered[s] \in Nat /\ landed[s] \in Seq(Nat)
    BY <1>2, <2>1, NumberAssumption
  <2>3. UNCHANGED <<echoed, fin, failed>>
    BY <1>6 DEF KernelRecv
  <2>4. /\ landed'[s] = landed[s] \o Bytes(delivered[s], n) /\ delivered'[s] = delivered[s] + n
        /\ \A x \in Session \ {s} : UNCHANGED <<landed[x], delivered[x]>>
    BY <1>2, <2>1
  <2>5. SessionInv(s)'
    <3>1. /\ io[s]["recv"] = "posted" /\ io'[s]["recv"] = "done" /\ internal_high'[s]["recv"] = n
          /\ io'[s]["send"] = io[s]["send"] /\ internal_high'[s]["send"] = internal_high[s]["send"]
      BY <1>3, <1>5, <2>1, <2>2
    <3>2. /\ UNCHANGED <<pc, ret, cur, transferred>>
          /\ UNCHANGED <<wsabuf[s], lock[s], sending[s], mem[s], capacity[s], recv_buffer[s],
                       send_buffer[s], echoed[s], fin[s], failed[s]>>
      BY <1>4, <2>3 DEF threadVars, objVars, syncVars, bufVars
    <3> QED  BY <2>1, <2>2, <2>4, <3>1, <3>2, RecvDone
  <2>6. OnlyOf(s)
    BY <1>3, <1>4, <1>5, <2>1, <2>2, <2>3, <2>4
       DEF OnlyOf, SameSession, threadVars, objVars, syncVars, bufVars
  <2>7. Bytes(delivered[s], n) \in Seq(Nat)
    <3>1. PICK v \in Nat : v = delivered[s] + n  BY <2>2
    <3>2. v - delivered[s] = n /\ delivered[s] <= v  BY <2>2, <3>1
    <3> QED  BY <2>2, <3>2, BytesLen
  <2>8. landed' \in [Session -> Seq(Nat)] /\ delivered' \in [Session -> Nat]
    <3>1. landed[s] \o Bytes(delivered[s], n) \in Seq(Nat) /\ delivered[s] + n \in Nat
      BY <2>2, <2>7
    <3> QED  BY <1>2, <2>1, <3>1
  <2>9. DataTypeOK'
    BY <1>1, <1>3, <1>4, <1>5, <2>1, <2>2, <2>3, <2>8 DEF DataTypeOK, mainVars, threadVars, objVars, bufVars
  <2> QED  BY <1>1, <2>5, <2>6, <2>9, KernelLocal DEF DataInv
<1>7. CASE KernelSend(s)
  <2>1. PICK n \in 1 .. wsabuf[s]["send"] :
           /\ Complete(s, "send", n)
           /\ echoed' = [echoed EXCEPT ![s] = @ \o SubSeq(send_buffer[s], 1, n)]
    BY <1>7 DEF KernelSend
  <2>2. n \in Nat /\ n # 0 /\ n <= wsabuf[s]["send"] /\ echoed[s] \in Seq(Nat)
    BY <1>2, <1>3, <2>1
  <2>3. UNCHANGED <<landed, delivered, fin, failed>>
    BY <1>7 DEF KernelSend
  <2>4. /\ echoed'[s] = echoed[s] \o SubSeq(send_buffer[s], 1, n)
        /\ \A x \in Session \ {s} : UNCHANGED echoed[x]
    BY <1>2, <2>1
  <2>5. SessionInv(s)'
    <3>1. /\ io[s]["send"] = "posted" /\ io'[s]["send"] = "done" /\ internal_high'[s]["send"] = n
          /\ io'[s]["recv"] = io[s]["recv"] /\ internal_high'[s]["recv"] = internal_high[s]["recv"]
      BY <1>3, <1>5, <2>1, <2>2
    <3>2. /\ UNCHANGED <<pc, ret, cur, transferred>>
          /\ UNCHANGED <<wsabuf[s], lock[s], sending[s], mem[s], capacity[s], recv_buffer[s],
                       send_buffer[s], landed[s], delivered[s], fin[s], failed[s]>>
      BY <1>4, <2>3 DEF threadVars, objVars, syncVars, bufVars
    <3> QED  BY <2>1, <2>2, <2>4, <3>1, <3>2, SendDone
  <2>6. OnlyOf(s)
    BY <1>3, <1>4, <1>5, <2>1, <2>2, <2>3, <2>4
       DEF OnlyOf, SameSession, threadVars, objVars, syncVars, bufVars
  <2>7. echoed' \in [Session -> Seq(Nat)]
    <3>1. io[s]["send"] = "posted"
      BY <1>3, <1>5, <2>1, <2>2
    <3>2. wsabuf[s]["send"] <= Len(send_buffer[s])
      BY <1>1, <3>1 DEF SessionInv, Windows
    <3>3. n <= Len(send_buffer[s])
      BY <1>2, <1>3, <2>2, <3>2
    <3>4. SubSeq(send_buffer[s], 1, n) \in Seq(Nat)
      BY <1>2, <2>2, <3>3, FrontType
    <3>5. echoed[s] \o SubSeq(send_buffer[s], 1, n) \in Seq(Nat)
      BY <2>2, <3>4
    <3> QED  BY <1>2, <2>1, <3>5
  <2>8. DataTypeOK'
    BY <1>1, <1>3, <1>4, <1>5, <2>1, <2>2, <2>3, <2>7 DEF DataTypeOK, mainVars, threadVars, objVars, bufVars
  <2> QED  BY <1>1, <2>5, <2>6, <2>8, KernelLocal DEF DataInv
<1>8. CASE KernelEof(s) \/ KernelFail(s)
  <2>1. PICK o \in Op : Complete(s, o, 0) /\ (KernelEof(s) => o = "recv")
    BY <1>3, <1>8 DEF KernelEof, KernelFail
  <2>2. UNCHANGED <<landed, delivered, echoed>>
    BY <1>8 DEF KernelEof, KernelFail
  <2>3. \/ o = "recv" /\ fin' = [fin EXCEPT ![s] = TRUE] /\ UNCHANGED failed
        \/ failed' = [failed EXCEPT ![s] = TRUE] /\ UNCHANGED fin
    BY <1>8, <2>1 DEF KernelEof, KernelFail
  <2>4. /\ landed[s] \in Seq(Nat) /\ delivered[s] \in Nat /\ echoed[s] \in Seq(Nat)
        /\ landed[s] \o Bytes(delivered[s], 0) = landed[s] /\ delivered[s] + 0 = delivered[s]
        /\ echoed[s] \o SubSeq(send_buffer[s], 1, 0) = echoed[s]
    <3>1. Bytes(delivered[s], 0) = << >> /\ SubSeq(send_buffer[s], 1, 0) = << >>
      BY <1>2, BytesNone
    <3>2. landed[s] \in Seq(Nat) /\ delivered[s] \in Nat /\ echoed[s] \in Seq(Nat)
      BY <1>2
    <3>3. delivered[s] + 0 = delivered[s]
      BY <3>2
    <3>4. landed[s] \o << >> = landed[s] /\ echoed[s] \o << >> = echoed[s]
      BY <3>2
    <3> QED  BY <3>1, <3>2, <3>3, <3>4, Zenon
  <2>5. /\ failed[s] => failed'[s]
        /\ o = "recv" => (failed'[s] \/ fin'[s])
        /\ o = "send" => (failed'[s] /\ fin'[s] = fin[s])
        /\ \A x \in Session \ {s} : UNCHANGED <<fin[x], failed[x]>>
    BY <1>2, <2>3
  <2>6. 0 \in Nat /\ 0 <= wsabuf[s]["recv"] /\ 0 <= wsabuf[s]["send"]
    BY <1>2, <1>3
  <2>7. /\ io[s][o] = "posted" /\ io'[s][o] = "done" /\ internal_high'[s][o] = 0
        /\ \A p \in Op \ {o} : io'[s][p] = io[s][p] /\ internal_high'[s][p] = internal_high[s][p]
        /\ \A x \in Session \ {s} : UNCHANGED <<io[x], internal_high[x]>>
        /\ internal_high' \in [Session -> [Op -> Nat]]
    BY <1>5, <2>1, <2>6
  <2>8. SessionInv(s)'
    <3>1. CASE o = "recv"
      BY <1>1, <1>3, <1>4, <2>2, <2>4, <2>5, <2>6, <2>7, <3>1, RecvDone
         DEF DataInv, threadVars, objVars, syncVars, bufVars
    <3>2. CASE o = "send"
      BY <1>1, <1>3, <1>4, <2>2, <2>4, <2>5, <2>6, <2>7, <3>2, SendDone
         DEF DataInv, threadVars, objVars, syncVars, bufVars
    <3> QED  BY <3>1, <3>2 DEF Op
  <2>9. OnlyOf(s)
    BY <1>4, <2>2, <2>5, <2>7
       DEF OnlyOf, SameSession, threadVars, objVars, syncVars, bufVars
  <2>10. DataTypeOK'
    BY <1>1, <1>2, <1>4, <2>2, <2>3, <2>7 DEF DataTypeOK, mainVars, threadVars, objVars, bufVars
  <2> QED  BY <1>1, <2>8, <2>9, <2>10, KernelLocal DEF DataInv
<1> QED  BY <1>6, <1>7, <1>8 DEF Kernel

(***************************************************************************)
(* The invariant holds                                                     *)
(***************************************************************************)

LEMMA DataInit == Init => DataInv
<1> SUFFICES ASSUME Init PROVE DataInv
  OBVIOUS
<1>1. DataTypeOK
  BY NumberAssumption DEF Init, DataTypeOK
<1>2. ASSUME NEW s \in Session PROVE SessionInv(s)
  <2> USE <1>2
  <2>1. /\ \A t \in Thread : pc[t] = "none" /\ ret[t] = "loop"
        /\ lock[s] = Free /\ io[s]["recv"] = "idle" /\ io[s]["send"] = "idle"
        /\ landed[s] = << >> /\ recv_buffer[s] = << >> /\ send_buffer[s] = << >> /\ echoed[s] = << >>
        /\ delivered[s] = 0 /\ sending[s] = 0 /\ mem[s] = "none" /\ ~fin[s]
        /\ capacity[s]["recv"] = Capacity
    BY DEF Init, Op
  <2>2. \A t \in Thread : /\ ~HoldsLock(t, s) /\ ~Refused(t, s) /\ ~Is(t, s, Receiving)
                          /\ ~Is(t, s, {"recv_lock"}) /\ ~Is(t, s, {"send_lock"})
                          /\ ~Is(t, s, {"wsarecv"}) /\ ~Is(t, s, {"recheck"})
                          /\ ~Is(t, s, {"send_lock", "wsasend"}) /\ ~Is(t, s, {"sendpost", "wsasend"})
    BY <2>1 DEF HoldsLock, Refused, Is, Receiving, Fresh, Locked, Reaping
  <2>3. Len(<< >>) = 0 /\ Capacity \in Nat
    BY NumberAssumption
  <2>4. Held(s)
    BY <2>1, <2>2 DEF Held
  <2>5. Landing(s)
    BY <2>1, <2>2, <2>3 DEF Landing
  <2>6. Windows(s)
    BY <2>1, <2>2, <2>3 DEF Windows
  <2>7. InOrder(s)
    <3>1. Sent(s, 0)
      BY <2>1, <2>2 DEF Sent
    <3>2. Spans(0, 0, 0, 0, << >>, << >>, << >>, << >>, 0)
      <4>1. Bytes(0, 0 + 0) = << >> /\ Bytes(0, 0 - 0) = << >>
        BY BytesNone
      <4> QED  BY <4>1 DEF Spans
    <3>3. Follow(0, << >>, << >>, << >>, << >>, 0)
      BY <3>2 DEF Follow
    <3> QED  BY <2>1, <3>1, <3>3 DEF InOrder
  <2>8. Waking(s) /\ Posts(s)
    BY <2>1, <2>2, <2>3 DEF Waking, Posts
  <2>9. Ends(s)
    BY <2>1 DEF Ends
  <2> QED  BY <2>4, <2>5, <2>6, <2>7, <2>8, <2>9 DEF SessionInv
<1> QED  BY <1>1, <1>2 DEF DataInv

LEMMA DataStep ==
  ASSUME LifetimeInv, LifetimeInv', NotYetSpawned, DataInv, [Next]_vars
  PROVE  DataInv'
<1> USE DEF Good
<1>1. CASE Main
  BY <1>1, DataMain
<1>2. ASSUME NEW t \in Thread, ThreadStep(t) PROVE DataInv'
  <2>1. CASE LoopTop(t) \/ AcceptNothing(t) \/ DequeueNull(t)
    BY <2>1, DataAway
  <2>2. CASE RecvPost(t)
    <3>1. CASE aborted' # aborted  BY <2>2, <3>1, DataAway
    <3>2. CASE aborted' = aborted
      <4>1. pc'[t] # "recvpost"
        <5>1. pc \in [Thread -> Label]  BY DEF LifetimeInv, ControlTypeOK
        <5>2. aborted # "recv_full"  BY <2>2 DEF RecvPost, At, Up
        <5>3. pc' = [pc EXCEPT ![t] = "wsarecv"]
          BY <2>2, <3>2, <5>2, Zenon DEF RecvPost, Goto
        <5> QED  BY <5>1, <5>3
      <4> QED  BY <2>2, <4>1, DataRecvPost
    <3> QED  BY <3>1, <3>2
  <2>3. CASE WSARecv(t) \/ WSASend(t)
    <3>1. CASE pc'[t] = "dec"  BY <2>3, <3>1, DataHold
    <3>2. CASE pc'[t] # "dec"  BY <2>3, <3>2, DataSubmitted
    <3> QED  BY <3>1, <3>2
  <2>4. CASE Decrement(t) \/ Erase(t) \/ Drain(t) \/ Reap(t) \/ Associate(t)
    BY <2>4, DataReap
  <2>13. CASE Emplace(t)
    <3>1. CASE aborted' = aborted  BY <2>13, <3>1, DataReap
    <3>2. CASE aborted' # aborted  BY <2>13, <3>2, DataAway
    <3> QED  BY <3>1, <3>2
  <2>5. CASE AcceptClient(t)
    BY <2>5, DataAccept
  <2>6. CASE Abandon(t)
    <3>1. CASE mem[cur[t]] = "live"  BY <2>6, <3>1, DataReap
    <3>2. CASE mem[cur[t]] # "live"
      <4>1. aborted' # aborted  BY <2>6, <3>2 DEF Abandon, At, Up
      <4> QED  BY <2>6, <4>1, DataAway
    <3> QED  BY <3>1, <3>2
  <2>7. CASE DequeuePacket(t)
    BY <2>7, DataDequeue
  <2>8. CASE EnterRecv(t)
    BY <2>8, DataEnterRecv
  <2>9. CASE Echo(t)
    <3>1. CASE recv_buffer[cur[t]] = << >>  BY <2>9, <3>1, DataHold
    <3>2. CASE recv_buffer[cur[t]] # << >> /\ aborted' = aborted  BY <2>9, <3>2, DataEcho
    <3>3. CASE aborted' # aborted  BY <2>9, <3>3, DataAway
    <3> QED  BY <3>1, <3>2, <3>3
  <2>10. CASE SendPost(t)
    BY <2>10, DataSendPost
  <2>11. CASE Unsend(t) \/ Recheck(t) \/ Leave(t)
    BY <2>11, DataHold
  <2>12. CASE EnterSend(t)
    BY <2>12, DataEnterSend
  <2> QED  BY <1>2, <2>1, <2>2, <2>3, <2>4, <2>5, <2>6, <2>7, <2>8, <2>9, <2>10, <2>11, <2>12, <2>13
           DEF ThreadStep, AcceptStep, WorkerStep
<1>3. ASSUME NEW s \in Session, Kernel(s) PROVE DataInv'
  BY <1>3, DataKernel
<1>4. CASE UNCHANGED vars
  <2>1. UNCHANGED <<mainVars, threadVars, objVars, syncVars, bufVars, ioVars, clientVars>>
    BY <1>4 DEF vars
  <2>2. /\ \A u \in Thread : SameThread(u)
        /\ \A x \in Session : SameSession(x)
        /\ UNCHANGED <<nulls, refused, transferred, capacity, recv_buffer, send_buffer, wsabuf,
                       internal_high, landed, delivered, echoed, fin, failed>>
    BY <2>1 DEF SameThread, SameSession, mainVars, threadVars, objVars, syncVars, bufVars, ioVars, clientVars
  <2>3. nulls' \in Nat /\ refused' \in Nat /\ transferred' \in [Thread -> Nat]
    BY <2>2 DEF DataInv, DataTypeOK
  <2> QED  BY <2>2, <2>3, DataIdle
<1> QED  BY <1>1, <1>2, <1>3, <1>4 DEF Next, Terminated

(* Where the bytes are and who will come back for them, for any instance. *)
THEOREM DataCorrect == Spec => []DataInv
<1>1. LifetimeInv /\ LifetimeInv' /\ NotYetSpawned /\ DataInv /\ [Next]_vars => DataInv'
  BY DataStep
<1> QED  BY <1>1, DataInit, LifetimeCorrect, NotYetSpawnedCorrect, PTL DEF Spec

(***************************************************************************)
(* The properties it implies                                               *)
(***************************************************************************)

(* Every variable has its type. *)
THEOREM TypeCorrect == Spec => []TypeOK
<1>1. LifetimeInv /\ DataInv => TypeOK
  BY DEF TypeOK, LifetimeInv, DataInv
<1> QED  BY <1>1, LifetimeCorrect, DataCorrect, PTL

(* The kernel writes into free space and reads bytes that stay in place. *)
THEOREM WindowsCorrect == Spec => []WindowsSafe
<1>1. DataInv => WindowsSafe
  <2> SUFFICES ASSUME DataInv, NEW s \in Session
               PROVE  /\ io[s]["recv"] = "posted" =>
                            wsabuf[s]["recv"] + Len(recv_buffer[s]) <= capacity[s]["recv"]
                      /\ SendChain(s) => wsabuf[s]["send"] <= Len(send_buffer[s])
    BY DEF WindowsSafe
  <2>1. SendChain(s) => \/ io[s]["send"] # "idle"
                        \/ \E t \in Thread : Is(t, s, {"send_lock", "wsasend"})
    BY DEF SendChain, Is
  <2> QED  BY <2>1 DEF DataInv, SessionInv, Windows
<1> QED  BY <1>1, DataCorrect, PTL

(* An OVERLAPPED is posted again only when its last completion is handled. *)
THEOREM NoOverlappedReuseCorrect == Spec => []NoOverlappedReuse
<1>1. LifetimeInv /\ DataInv => NoOverlappedReuse
  <2> SUFFICES ASSUME LifetimeInv, DataInv, NEW t \in Thread
               PROVE  /\ pc[t] = "wsarecv" => /\ io[cur[t]]["recv"] = "idle"
                                              /\ landed[cur[t]] = << >>
                      /\ pc[t] \in {"sendpost", "wsasend"} => ~SendChain(cur[t])
    BY DEF NoOverlappedReuse
  <2>1. ASSUME pc[t] = "wsarecv"
        PROVE  io[cur[t]]["recv"] = "idle" /\ landed[cur[t]] = << >>
    <3>1. PICK s \in Session : s = cur[t]
      BY <2>1, Busy DEF Idle
    <3>2. /\ io[s]["recv"] = "idle"
          /\ \A u \in Thread \ {t} : ~Is(u, s, {"recv_lock"})
      <4>1. RecvToken(t, s)  BY <2>1, <3>1 DEF RecvToken
      <4> QED  BY <4>1, RecvAlone
    <3>3. \A u \in Thread : ~Is(u, s, {"recv_lock"})
      BY <2>1, <3>2 DEF Is
    <3>4. Len(landed[s]) = 0
      BY <3>2, <3>3 DEF DataInv, SessionInv, Landing
    <3>5. landed[s] \in Seq(Nat)
      BY DEF DataInv, DataTypeOK
    <3> QED  BY <3>1, <3>2, <3>4, <3>5, EmptyLen
  <2>2. ASSUME pc[t] \in {"sendpost", "wsasend"}
        PROVE  ~SendChain(cur[t])
    <3>1. PICK s \in Session : s = cur[t]
      BY <2>2, Busy DEF Idle
    <3>2. SendToken(t, s)
      BY <2>2, <3>1 DEF SendToken
    <3>3. /\ io[s]["send"] = "idle"
          /\ \A u \in Thread \ {t} : ~Is(u, s, {"send_lock"})
      BY <3>2, SendAlone
    <3> QED  BY <2>2, <3>1, <3>3 DEF SendChain, Is
  <2> QED  BY <2>1, <2>2
<1> QED  BY <1>1, LifetimeCorrect, DataCorrect, PTL

(* Who holds the lock uses the session. *)
LEMMA LockUses ==
  ASSUME NEW s \in Session, Held(s), lock[s] # Free
  PROVE  lock[s] \in Thread /\ HoldsLock(lock[s], s) /\ Uses(lock[s], s)
<1>1. lock[s] \in Worker /\ HoldsLock(lock[s], s)
  BY DEF Held
<1>2. Uses(lock[s], s)
  BY <1>1 DEF HoldsLock, Uses, Locked, Idle
<1> QED  BY <1>1, <1>2 DEF Thread

(* decrement_io_count() deletes a session nobody knows any more. *)
THEOREM ReapAloneCorrect == Spec => []ReapAlone
<1>1. LifetimeInv /\ DataInv => ReapAlone
  <2> SUFFICES ASSUME LifetimeInv, DataInv, NEW t \in Thread, pc[t] \in Reaping
               PROVE  /\ NoRefs(cur[t])
                      /\ lock[cur[t]] = Free
                      /\ \A u \in Thread \ {t} : ~Uses(u, cur[t])
    BY DEF ReapAlone
  <2>1. PICK s \in Session : s = cur[t]
    BY Busy DEF Idle, Reaping
  <2>2. IoRefs(s) = {} /\ \A u \in Thread \ {t} : ~Uses(u, s)
    BY <2>1 DEF LifetimeInv, Exclusive, Alone
  <2>3. PacketRefs(s) = {}
    <3>1. \A u \in Thread : ~OwnsPacket(u, s)
      BY <2>2 DEF OwnsPacket, Uses
    <3> QED  BY <3>1 DEF PacketRefs
  <2>4. PostRefs(s) = {}
    <3>1. \A u \in Thread : ~Posting(u, s)
      BY <2>2 DEF Posting, Uses, Reaping, Idle
    <3> QED  BY <3>1 DEF PostRefs
  <2>5. lock[s] = Free
    <3>1. Held(s)  BY DEF DataInv, SessionInv
    <3>2. ~HoldsLock(t, s)  BY DEF HoldsLock, Locked, Reaping
    <3> QED  BY <2>2, <3>1, <3>2, LockUses
  <2> QED  BY <2>1, <2>2, <2>3, <2>4, <2>5 DEF NoRefs
<1> QED  BY <1>1, LifetimeCorrect, DataCorrect, PTL

(* Bytes wait in the send buffer of a session whose lock is free only      *)
(* while a send is under way that will come back for them.                 *)
THEOREM NoLostWakeupCorrect == Spec => []NoLostWakeup
<1>1. LifetimeInv /\ DataInv => NoLostWakeup
  <2> SUFFICES ASSUME LifetimeInv, DataInv, NEW s \in Session,
                      lock[s] = Free, send_buffer[s] # << >>, ~failed[s]
               PROVE  sending[s] = 1 /\ SendChain(s)
    BY DEF NoLostWakeup
  <2>1. Held(s) /\ Waking(s) /\ send_buffer[s] \in Seq(Nat)
    BY DEF DataInv, SessionInv, DataTypeOK
  <2>2. sending[s] = 1 /\ (io[s]["send"] # "idle" \/ \E t \in Thread : SendToken(t, s))
    BY <2>1, EmptyLen DEF Waking
  <2>3. ASSUME NEW t \in Thread, SendToken(t, s)
        PROVE  pc[t] = "send_lock"
    <3>1. t \in Worker
      BY <2>3 DEF Thread, SendToken, LifetimeInv, ControlFlow, Fresh, Reaping
    <3>2. ~HoldsLock(t, s)
      BY <2>1, <3>1, ThreadAssumption DEF Held, Thread
    <3> QED  BY <2>3, <3>1, <3>2 DEF SendToken, HoldsLock, Locked
  <2> QED  BY <2>2, <2>3 DEF SendChain, SendToken
<1> QED  BY <1>1, LifetimeCorrect, DataCorrect, PTL

(* All the bytes in their order are those that were received. *)
Joined(n, e, a, b, c, d) == e \o Drop(a, n) \o b \o c = Bytes(0, d)

LEMMA FollowWhole ==
  ASSUME NEW e, NEW a, NEW b, NEW c, NEW d \in Nat, NEW n \in Nat,
         Follow(n, e, a, b, c, d)
  PROVE  Joined(n, e, a, b, c, d)
<1>1. Follow(0, e, Drop(a, n), b, c, d)
  BY FollowSend
<1>2. PICK x \in Nat, y \in Nat, z \in Nat : Spans(x, y, z, 0, e, Drop(a, n), b, c, d)
  BY <1>1, Zenon DEF Follow
<1>3. /\ x + 0 = x /\ x - 0 = x /\ y - 0 = y /\ z - 0 = z /\ d - 0 = d
      /\ 0 <= x /\ 0 <= y /\ 0 <= z /\ 0 \in Nat
  OBVIOUS
<1>4. /\ x <= y /\ y <= z /\ z <= d
      /\ e = Bytes(0, x) /\ Drop(a, n) = Bytes(x, y - x)
      /\ b = Bytes(y, z - y) /\ c = Bytes(z, d - z)
  BY <1>2, <1>3, SMT DEF Spans
<1>5. e \o Drop(a, n) = Bytes(0, y)
  <2>1. Bytes(0, x - 0) \o Bytes(x, y - x) = Bytes(0, y - 0)
    BY <1>3, <1>4, BytesCat
  <2> QED  BY <1>3, <1>4, <2>1, Zenon
<1>6. Bytes(0, y) \o b = Bytes(0, z)
  <2>1. Bytes(0, y - 0) \o Bytes(y, z - y) = Bytes(0, z - 0)
    BY <1>3, <1>4, BytesCat
  <2> QED  BY <1>3, <1>4, <2>1, Zenon
<1>7. Bytes(0, z) \o c = Bytes(0, d)
  <2>1. Bytes(0, z - 0) \o Bytes(z, d - z) = Bytes(0, d - 0)
    BY <1>3, <1>4, BytesCat
  <2> QED  BY <1>3, <1>4, <2>1, Zenon
<1> QED  BY <1>5, <1>6, <1>7, Zenon DEF Joined

(* A client gets back what it sent, in order and without a gap. *)
THEOREM EchoInOrderCorrect == Spec => []EchoInOrder
<1>1. LifetimeInv /\ DataInv => EchoInOrder
  <2> SUFFICES ASSUME LifetimeInv, DataInv, NEW s \in Session
               PROVE  LET sent == IF io[s]["send"] = "done" THEN internal_high[s]["send"] ELSE 0
                          handled == IF \E t \in Thread : cur[t] = s /\ pc[t] = "send_lock"
                                     THEN transferred[CHOOSE t \in Thread : cur[t] = s /\ pc[t] = "send_lock"]
                                     ELSE 0
                      IN  echoed[s] \o Drop(send_buffer[s], sent + handled) \o recv_buffer[s] \o landed[s]
                              = Bytes(0, delivered[s])
    BY Zenon DEF EchoInOrder
  <2> DEFINE sent == IF io[s]["send"] = "done" THEN internal_high[s]["send"] ELSE 0
             handled == IF \E t \in Thread : cur[t] = s /\ pc[t] = "send_lock"
                        THEN transferred[CHOOSE t \in Thread : cur[t] = s /\ pc[t] = "send_lock"]
                        ELSE 0
  <2>1. PICK n \in Nat : /\ Sent(s, n)
                         /\ Follow(n, echoed[s], send_buffer[s], recv_buffer[s], landed[s], delivered[s])
    BY DEF DataInv, SessionInv, InOrder
  <2>2. sent + handled = n
    <3>1. CASE \E t \in Thread : cur[t] = s /\ pc[t] = "send_lock"
      <4>1. PICK t \in Thread : /\ cur[t] = s /\ pc[t] = "send_lock"
                                /\ t = CHOOSE u \in Thread : cur[u] = s /\ pc[u] = "send_lock"
        BY <3>1, Zenon
      <4>2. SendToken(t, s)  BY <4>1 DEF SendToken
      <4>3. io[s]["send"] = "idle"  BY <4>2, SendAlone
      <4>4. transferred[t] = n  BY <2>1, <4>1 DEF Sent, Is
      <4>5. sent = 0  BY <4>3
      <4>6. handled = n  BY <3>1, <4>1, <4>4, Zenon
      <4> QED  BY <4>5, <4>6
    <3>2. CASE ~\E t \in Thread : cur[t] = s /\ pc[t] = "send_lock"
      <4>1. handled = 0  BY <3>2
      <4>2. \A t \in Thread : ~Is(t, s, {"send_lock"})  BY <3>2 DEF Is
      <4>3. sent = n  BY <2>1, <4>2 DEF Sent
      <4> QED  BY <4>1, <4>3
    <3> QED  BY <3>1, <3>2
  <2>3. delivered[s] \in Nat
    BY DEF DataInv, DataTypeOK
  <2>4. Joined(n, echoed[s], send_buffer[s], recv_buffer[s], landed[s], delivered[s])
    BY <2>1, <2>3, FollowWhole, Zenon
  <2> HIDE DEF sent, handled
  <2>5. echoed[s] \o Drop(send_buffer[s], sent + handled) \o recv_buffer[s] \o landed[s]
           = Bytes(0, delivered[s])
    BY <2>2, <2>4, Zenon DEF Joined
  <2> QED  BY <2>5, Zenon DEF sent, handled
<1> QED  BY <1>1, LifetimeCorrect, DataCorrect, PTL

(***************************************************************************)
(* EchoServer implements EchoService                                       *)
(***************************************************************************)

LEMMA FollowEnd ==
  ASSUME NEW e, NEW a, NEW b, NEW c, NEW d \in Nat, NEW n \in Nat,
         Follow(n, e, a, b, c, d), Len(a) = 0, Len(b) = 0, Len(c) = 0
  PROVE  Len(e) = d
<1>1. PICK x \in Nat, y \in Nat, z \in Nat : Spans(x, y, z, n, e, a, b, c, d)
  BY Zenon DEF Follow
<1>2. /\ x + n <= y /\ x <= y /\ y <= z /\ z <= d
      /\ e = Bytes(0, x + n) /\ a = Bytes(x, y - x) /\ b = Bytes(y, z - y) /\ c = Bytes(z, d - z)
  BY <1>1, SMT DEF Spans
<1>3. y - x = 0 /\ z - y = 0 /\ d - z = 0
  BY <1>2, BytesLen
<1>4. x + n = d /\ d - 0 = d /\ 0 <= d /\ 0 \in Nat
  BY <1>2, <1>3
<1>5. Len(Bytes(0, d - 0)) = d - 0
  BY <1>4, BytesLen
<1> QED  BY <1>2, <1>4, <1>5

(* A session that is deleted: something failed, or its client is done. *)
LEMMA Finished ==
  ASSUME LifetimeInv, DataInv, NEW t \in Thread, NEW s \in Session, s = cur[t],
         pc[t] = "reap" \/ (pc[t] = "abandon" /\ mem[s] = "live")
  PROVE  mem[s] = "live" /\ (failed[s] \/ (fin[s] /\ Len(echoed[s]) = delivered[s]))
<1> USE DEF Idle, Reaping, Fresh
<1>1. SessionInv(s) /\ sending[s] \in {0, 1} /\ delivered[s] \in Nat
  BY DEF DataInv, DataTypeOK, LifetimeInv, ControlTypeOK
<1>2. t = Acceptor => failed[s]
  <2>1. ASSUME t = Acceptor PROVE Refused(t, s)
    BY <2>1 DEF Refused, LifetimeInv, ControlFlow
  <2> QED  BY <1>1, <2>1 DEF SessionInv, Posts
<1>3. pc[t] = "abandon" => t = Acceptor
  BY DEF LifetimeInv, ControlFlow, Thread
<1>4. Exclusive(t)
  BY <1>3 DEF Exclusive
<1>5. mem[s] = "live" /\ IoRefs(s) = {} /\ \A u \in Thread \ {t} : ~Uses(u, s)
  BY <1>4 DEF LifetimeInv, Alone
<1>6. io[s]["recv"] = "idle" /\ io[s]["send"] = "idle"
  BY <1>5 DEF IoRefs, Op
<1>7. ASSUME pc[t] = "reap", t \in Worker, ~failed[s]
      PROVE  fin[s] /\ Len(echoed[s]) = delivered[s]
  <2>1. \A u \in Thread : /\ ~Is(u, s, Receiving) /\ ~Is(u, s, {"recv_lock"})
                          /\ ~Echoing(u, s) /\ ~SendToken(u, s)
    BY <1>5, <1>7 DEF Is, Receiving, Echoing, SendToken, Uses
  <2>2. fin[s]
    BY <1>1, <1>5, <1>6, <1>7, <2>1 DEF SessionInv, Ends
  <2>3. Len(send_buffer[s]) = 0
    BY <1>1, <1>6, <1>7, <2>1 DEF SessionInv, Waking
  <2>4. Len(recv_buffer[s]) = 0
    BY <1>1, <2>1 DEF SessionInv, Posts
  <2>5. Len(landed[s]) = 0
    BY <1>1, <1>6, <2>1 DEF SessionInv, Landing
  <2>6. PICK n \in Nat : Follow(n, echoed[s], send_buffer[s], recv_buffer[s], landed[s], delivered[s])
    BY <1>1 DEF SessionInv, InOrder
  <2>7. Len(echoed[s]) = delivered[s]
    BY <1>1, <2>3, <2>4, <2>5, <2>6, FollowEnd
  <2> QED  BY <2>2, <2>7
<1>8. t = Acceptor \/ t \in Worker
  BY DEF Thread
<1> QED  BY <1>2, <1>3, <1>5, <1>7, <1>8

LEMMA ServiceInit == Init => Service!Init
BY DEF Init, Service!Init, Stage

LEMMA ServiceStutter ==
  ASSUME UNCHANGED <<mem, delivered, echoed, fin, failed>>
  PROVE  UNCHANGED Service!vars
BY DEF Service!vars, Stage

LEMMA ServiceClose ==
  ASSUME LifetimeInv, NEW s \in Session, mem[s] = "live",
         failed[s] \/ (fin[s] /\ Len(echoed[s]) = delivered[s]),
         mem' = [mem EXCEPT ![s] = "freed"], UNCHANGED clientVars
  PROVE  Service!Next
<1>1. mem \in [Session -> {"none", "live", "freed"}]
  BY DEF LifetimeInv, ControlTypeOK
<1>2. Stage[s] = "open" /\ Stage' = [Stage EXCEPT ![s] = "closed"]
  BY <1>1 DEF Stage
<1>3. Service!Close(s)
  BY <1>2 DEF Service!Close, clientVars
<1> QED  BY <1>3 DEF Service!Next

LEMMA ServiceBreak ==
  ASSUME LifetimeInv, NEW s \in Session, mem[s] = "live",
         failed' = [failed EXCEPT ![s] = TRUE], UNCHANGED <<mem, delivered, echoed, fin>>
  PROVE  Service!Next
<1>1. Stage[s] = "open" /\ Stage' = Stage
  BY DEF Stage
<1>2. Service!Break(s)
  BY <1>1 DEF Service!Break
<1> QED  BY <1>2 DEF Service!Next

LEMMA ServiceAccept ==
  ASSUME LifetimeInv, NEW t \in Thread, AcceptClient(t)
  PROVE  Service!Next
<1>1. PICK s \in Session : mem[s] = "none" /\ mem' = [mem EXCEPT ![s] = "live"]
  BY Zenon DEF AcceptClient
<1>2. mem \in [Session -> {"none", "live", "freed"}]
  BY DEF LifetimeInv, ControlTypeOK
<1>3. Stage[s] = "none" /\ Stage' = [Stage EXCEPT ![s] = "open"]
  BY <1>1, <1>2 DEF Stage
<1>4. Service!Accept(s)
  BY <1>3 DEF Service!Accept, AcceptClient, clientVars
<1> QED  BY <1>4 DEF Service!Next

LEMMA ServiceKernel ==
  ASSUME LifetimeInv, DataInv, NEW s \in Session, Kernel(s)
  PROVE  Service!Next
<1>1. /\ SessionInv(s) /\ delivered \in [Session -> Nat] /\ delivered[s] \in Nat
      /\ echoed \in [Session -> Seq(Nat)] /\ fin \in [Session -> BOOLEAN]
  BY DEF DataInv, DataTypeOK
<1>2. \E op \in Op : io[s][op] = "posted"
  BY DEF Kernel, KernelRecv, KernelEof, KernelSend, KernelFail, Complete, Op
<1>3. mem[s] = "live"
  BY <1>2 DEF LifetimeInv, IoRefs
<1>4. mem' = mem
  BY DEF Kernel, KernelRecv, KernelEof, KernelSend, KernelFail, objVars
<1>5. Stage[s] = "open" /\ Stage' = Stage
  BY <1>3, <1>4 DEF Stage
<1>6. io[s]["recv"] = "posted" => ~fin[s]
  BY <1>1 DEF SessionInv, Ends
<1>7. CASE KernelRecv(s)
  <2>1. PICK n \in 1 .. MaxBytes - delivered[s] : delivered' = [delivered EXCEPT ![s] = delivered[s] + n]
    BY <1>7 DEF KernelRecv
  <2>2. delivered[s] + n \in delivered[s] + 1 .. MaxBytes
    BY <1>1, <2>1, NumberAssumption
  <2>3. io[s]["recv"] = "posted" /\ UNCHANGED <<echoed, fin, failed>>
    BY <1>7 DEF KernelRecv, Complete
  <2>4. Service!Receive(s)
    BY <1>5, <1>6, <2>1, <2>2, <2>3 DEF Service!Receive
  <2> QED  BY <2>4 DEF Service!Next
<1>8. CASE KernelEof(s)
  <2>1. io[s]["recv"] = "posted" /\ fin' = [fin EXCEPT ![s] = TRUE] /\ UNCHANGED <<delivered, echoed, failed>>
    BY <1>8 DEF KernelEof, Complete
  <2>2. Service!CloseSide(s)
    BY <1>5, <1>6, <2>1 DEF Service!CloseSide
  <2> QED  BY <2>2 DEF Service!Next
<1>9. CASE KernelSend(s)
  <2>1. PICK k \in 1 .. wsabuf[s]["send"] :
           echoed' = [echoed EXCEPT ![s] = echoed[s] \o SubSeq(send_buffer[s], 1, k)]
    BY <1>9 DEF KernelSend
  <2>2. io[s]["send"] = "posted" /\ UNCHANGED <<delivered, fin, failed>>
    BY <1>9 DEF KernelSend, Complete
  <2>3. /\ k \in Nat /\ k # 0 /\ k <= Len(send_buffer[s])
        /\ Follow(0, echoed[s], send_buffer[s], recv_buffer[s], landed[s], delivered[s])
    <3>1. wsabuf[s]["send"] \in Nat /\ send_buffer[s] \in Seq(Nat)
      BY Types DEF DataInv
    <3>2. wsabuf[s]["send"] <= Len(send_buffer[s])
      BY <1>1, <2>2 DEF SessionInv, Windows
    <3>3. \A u \in Thread : ~Is(u, s, {"send_lock"})
      BY <2>2, NoSender
    <3>4. Follow(0, echoed[s], send_buffer[s], recv_buffer[s], landed[s], delivered[s])
      BY <1>1, <2>2, <3>3 DEF SessionInv, InOrder, Sent
    <3> QED  BY <2>1, <3>1, <3>2, <3>4
  <2>4. PICK m \in Nat : /\ echoed[s] = Bytes(0, m) /\ m + k <= delivered[s]
                         /\ echoed[s] \o SubSeq(send_buffer[s], 1, k) = Bytes(0, m + k)
    <3>1. delivered[s] \in Nat /\ k \in Nat /\ k <= Len(send_buffer[s])
      BY <1>1, <2>3
    <3>2. Grows(echoed[s], echoed[s] \o SubSeq(send_buffer[s], 1, k), k, delivered[s])
      BY <2>3, <3>1, FollowBack
    <3> QED  BY <3>2 DEF Grows
  <2>5. Len(echoed[s]) = m
    BY <2>4 DEF Bytes
  <2>6. Bytes(0, m + k) = Service!FirstBytes(m + k)
    BY <2>3 DEF Bytes, Service!FirstBytes
  <2>7. m + k \in Len(echoed[s]) + 1 .. delivered[s]
    BY <1>1, <2>3, <2>4, <2>5
  <2>8. Service!Echo(s)
    BY <1>5, <2>1, <2>2, <2>4, <2>6, <2>7 DEF Service!Echo
  <2> QED  BY <2>8 DEF Service!Next
<1>10. CASE KernelFail(s)
  BY <1>3, <1>4, <1>10, ServiceBreak DEF KernelFail
<1> QED  BY <1>7, <1>8, <1>9, <1>10 DEF Kernel

LEMMA ServiceThread ==
  ASSUME LifetimeInv, DataInv, NEW t \in Thread, ThreadStep(t)
  PROVE  Service!Next \/ UNCHANGED Service!vars
<1> USE DEF At, Idle
<1>1. CASE \/ LoopTop(t) \/ RecvPost(t) \/ Decrement(t) \/ Erase(t) \/ Drain(t)
           \/ AcceptNothing(t) \/ Emplace(t) \/ DequeueNull(t) \/ DequeuePacket(t)
           \/ EnterRecv(t) \/ Echo(t) \/ SendPost(t) \/ Unsend(t) \/ EnterSend(t)
           \/ Recheck(t) \/ Leave(t)
  <2>1. UNCHANGED <<objVars, clientVars>>
    BY <1>1, Zenon DEF LoopTop, RecvPost, Decrement, Erase, Drain, AcceptNothing, Emplace, DequeueNull,
           DequeuePacket, EnterRecv, Echo, SendPost, Unsend, EnterSend, Recheck, Leave
  <2> QED  BY <2>1, ServiceStutter DEF objVars, clientVars
<1>2. CASE AcceptClient(t)
  BY <1>2, ServiceAccept
<1>3. ASSUME NEW s \in Session, s = cur[t], failed' = [failed EXCEPT ![s] = TRUE], pc[t] # "abandon",
             pc[t] \notin Idle, UNCHANGED <<mem, delivered, echoed, fin>>
      PROVE  Service!Next
  <2>1. mem[s] = "live"
    BY <1>3 DEF LifetimeInv, NoUseAfterFree
  <2> QED  BY <1>3, <2>1, ServiceBreak
<1>4. CASE WSARecv(t) \/ WSASend(t) \/ Associate(t)
  <2>1. pc[t] \in {"wsarecv", "wsasend", "associate"} /\ UNCHANGED <<mem, delivered, echoed, fin>>
    BY <1>4 DEF WSARecv, WSASend, Associate, objVars
  <2>2. failed' = failed \/ failed' = [failed EXCEPT ![cur[t]] = TRUE]
    BY <1>4 DEF WSARecv, WSASend, Associate, Submit
  <2>3. PICK s \in Session : s = cur[t]
    BY <2>1, Busy
  <2> QED  BY <1>3, <2>1, <2>2, <2>3, ServiceStutter
<1>5. CASE Reap(t)
  <2>1. PICK s \in Session : s = cur[t]
    BY <1>5, Busy DEF Reap
  <2>2. pc[t] = "reap" /\ mem' = [mem EXCEPT ![s] = "freed"] /\ UNCHANGED clientVars
    BY <1>5, <2>1 DEF Reap
  <2> QED  BY <2>1, <2>2, Finished, ServiceClose
<1>6. CASE Abandon(t)
  <2>1. PICK s \in Session : s = cur[t]
    BY <1>6, Busy DEF Abandon
  <2>2. pc[t] = "abandon" /\ UNCHANGED clientVars
    BY <1>6 DEF Abandon
  <2>3. CASE mem[s] = "live"
    <3>1. mem' = [mem EXCEPT ![s] = "freed"]
      BY <1>6, <2>1, <2>3 DEF Abandon
    <3> QED  BY <2>1, <2>2, <2>3, <3>1, Finished, ServiceClose
  <2>4. CASE mem[s] # "live"
    <3>1. mem' = mem
      BY <1>6, <2>1, <2>4 DEF Abandon
    <3> QED  BY <2>2, <3>1, ServiceStutter DEF clientVars
  <2> QED  BY <2>3, <2>4
<1> QED  BY <1>1, <1>2, <1>4, <1>5, <1>6 DEF ThreadStep, AcceptStep, WorkerStep

(* What a client sees of the server is a behaviour of EchoService.         *)
THEOREM EchoServiceImplemented == Spec => ImplementsEchoService
<1>1. LifetimeInv /\ DataInv /\ [Next]_vars => [Service!Next]_(Service!vars)
  <2> SUFFICES ASSUME LifetimeInv, DataInv, [Next]_vars
               PROVE  Service!Next \/ UNCHANGED Service!vars
    OBVIOUS
  <2>1. CASE Main
    <3>1. UNCHANGED <<objVars, clientVars>>
      BY <2>1 DEF Main, Start, SpawnAccept, SpawnWorker, Shutdown, CloseListenSock, PostNulls, Join, Exit
    <3> QED  BY <3>1, ServiceStutter DEF objVars, clientVars
  <2>2. CASE \E t \in Thread : ThreadStep(t)
    BY <2>2, ServiceThread
  <2>3. CASE \E s \in Session : Kernel(s)
    BY <2>3, ServiceKernel
  <2>4. CASE UNCHANGED vars
    BY <2>4, ServiceStutter DEF vars, objVars, clientVars
  <2> QED  BY <2>1, <2>2, <2>3, <2>4 DEF Next, Terminated
<1> QED  BY <1>1, ServiceInit, LifetimeCorrect, DataCorrect, PTL DEF Spec, ImplementsEchoService, Service!Spec
=============================================================================
