-------------------------- MODULE EchoServerProofs --------------------------
(***************************************************************************)
(* Proofs about EchoServer for any number of workers, sessions and bytes.  *)
(***************************************************************************)
EXTENDS EchoServer, FiniteSetTheorems, TLAPS

USE ThreadAssumption, SessionAssumption, NumberAssumption

(* A counter that is incremented or decremented stays an integer. *)
LEMMA CounterType ==
  ASSUME NEW S, NEW f \in [S -> Int], NEW x
  PROVE  /\ [f EXCEPT ![x] = @ + 1] \in [S -> Int]
         /\ [f EXCEPT ![x] = @ - 1] \in [S -> Int]
<1>1. CASE x \in S  BY <1>1
<1>2. CASE x \notin S
  <2>1. /\ [f EXCEPT ![x] = @ + 1] = f
        /\ [f EXCEPT ![x] = @ - 1] = f
    BY <1>2
  <2> QED  BY <2>1
<1> QED  BY <1>1, <1>2

(* Control state keeps its types. *)
LEMMA ControlTypeInit == Init => ControlTypeOK
<1> SUFFICES ASSUME Init PROVE ControlTypeOK  OBVIOUS
<1>1. /\ main_pc \in MainLabel /\ running \in BOOLEAN /\ listening \in BOOLEAN
      /\ aborted \in {"no", "bad_alloc", "recv_full", "send_full", "double_free"}
  BY DEF Init, MainLabel
<1>2. /\ pc \in [Thread -> Label] /\ ret \in [Thread -> Return]
      /\ cur \in [Thread -> Session \cup {NoSession}]
  BY DEF Init, Label, Return
<1>3. 0 \in Sid
  BY DEF Sid
<1>4. /\ session_map \in [Sid -> Session \cup {NoSession}]
      /\ session_map_lock \in Thread \cup {Free} /\ next_sid \in Sid
  BY <1>3 DEF Init
<1>5. /\ mem \in [Session -> {"none", "live", "freed"}]
      /\ sid \in [Session -> Sid]
      /\ lock \in [Session -> Thread \cup {Free}]
      /\ io_count \in [Session -> Int]
      /\ sending \in [Session -> {0, 1}]
  BY <1>3 DEF Init
<1>6. io \in [Session -> [Op -> {"idle", "posted", "done"}]]
  BY DEF Init
<1> QED  BY <1>1, <1>2, <1>4, <1>5, <1>6 DEF ControlTypeOK

LEMMA ControlTypeMain ==
  ASSUME ControlTypeOK, Main
  PROVE  ControlTypeOK'
<1> Acceptor \in Thread /\ Worker \subseteq Thread  BY DEF Thread
<1> USE DEF ControlTypeOK, Goto, MainLabel, Label, threadVars, mapVars,
            objVars, syncVars, bufVars, ioVars, clientVars
<1>1. CASE Start  BY <1>1 DEF Start
<1>2. CASE SpawnAccept
  <2>1. /\ pc' \in [Thread -> Label] /\ running' \in BOOLEAN
        /\ main_pc' \in MainLabel
    BY <1>2, Acceptor \in Thread DEF SpawnAccept, SpawnFails
  <2> QED  BY <1>2, <2>1 DEF SpawnAccept
<1>3. CASE SpawnWorker
  <2>1. /\ pc' \in [Thread -> Label] /\ running' \in BOOLEAN
        /\ main_pc' \in MainLabel
    BY <1>3, Worker \subseteq Thread DEF SpawnWorker, SpawnFails
  <2>2. aborted' = aborted \/ aborted' = "bad_alloc"
    BY <1>3 DEF SpawnWorker, OutOfMemory
  <2> QED  BY <1>3, <2>1, <2>2 DEF SpawnWorker
<1>4. CASE Shutdown  BY <1>4 DEF Shutdown
<1>5. CASE CloseListenSock  BY <1>5 DEF CloseListenSock
<1>6. CASE PostNulls  BY <1>6 DEF PostNulls
<1>7. CASE Join  BY <1>7 DEF Join
<1>8. CASE Exit  BY <1>8 DEF Exit
<1> QED
  BY <1>1, <1>2, <1>3, <1>4, <1>5, <1>6, <1>7, <1>8 DEF Main

LEMMA ControlTypeSubmit ==
  ASSUME ControlTypeOK, NEW t \in Thread, NEW op \in Op, NEW label \in Label,
         NEW otherwise \in Return, Submit(t, op, label, otherwise)
  PROVE  /\ pc' \in [Thread -> Label] /\ ret' \in [Thread -> Return]
         /\ io' \in [Session -> [Op -> {"idle", "posted", "done"}]]
<1>1. "dec" \in Label  BY DEF Label
<1>2. CASE /\ io' = [io EXCEPT ![cur[t]][op] = "posted"]
           /\ pc' = [pc EXCEPT ![t] = label]
           /\ ret' = ret
  BY <1>2 DEF ControlTypeOK
<1>3. CASE /\ io' = io
           /\ pc' = [pc EXCEPT ![t] = "dec"]
           /\ ret' = [ret EXCEPT ![t] = otherwise]
  BY <1>1, <1>3 DEF ControlTypeOK
<1> QED  BY <1>2, <1>3, Zenon DEF Submit, Goto, AfterRefusal

LEMMA ControlTypeThread ==
  ASSUME ControlTypeOK, NEW t \in Thread, ThreadStep(t)
  PROVE  ControlTypeOK'
<1> USE DEF ControlTypeOK, At, Goto, Label, Return, mainVars, mapVars,
            objVars, syncVars, bufVars, ioVars, clientVars
<1>1. CASE LoopTop(t)  BY <1>1 DEF LoopTop
<1>2. CASE RecvPost(t)
  <2>1. \/ pc' = pc /\ io_count' = io_count /\ aborted' = "recv_full"
        \/ /\ pc' = [pc EXCEPT ![t] = "wsarecv"]
           /\ io_count' = [io_count EXCEPT ![cur[t]] = @ + 1]
           /\ aborted' = aborted
    BY <1>2, Zenon DEF RecvPost
  <2>2. /\ pc' \in [Thread -> Label] /\ io_count' \in [Session -> Int]
        /\ aborted' \in {"no", "bad_alloc", "recv_full", "send_full", "double_free"}
    BY <2>1, CounterType
  <2>3. UNCHANGED <<mainVars, ret, cur, mapVars, mem, sid, lock, sending, io>>
    BY <1>2 DEF RecvPost
  <2> QED  BY <2>2, <2>3
<1>3. CASE WSARecv(t)
  <2>1. "recv" \in Op  BY DEF Op
  <2>2. \/ Submit(t, "recv", "loop", "abandon")
        \/ Submit(t, "recv", "echo", "echo")
    BY <1>3, Zenon DEF WSARecv
  <2>3. /\ pc' \in [Thread -> Label] /\ ret' \in [Thread -> Return]
        /\ io' \in [Session -> [Op -> {"idle", "posted", "done"}]]
    BY <2>1, <2>2, ControlTypeSubmit
  <2>4. UNCHANGED <<mainVars, cur, mapVars, objVars, syncVars, aborted>>
    BY <1>3 DEF WSARecv
  <2> QED  BY <2>3, <2>4
<1>4. CASE Decrement(t)
  <2>1. pc' \in [Thread -> Label]
    BY <1>4 DEF Decrement
  <2>2. io_count' \in [Session -> Int]
    BY <1>4, CounterType DEF Decrement
  <2> QED  BY <1>4, <2>1, <2>2 DEF Decrement
<1>5. CASE Erase(t)  BY <1>5 DEF Erase, Erased
<1>6. CASE Drain(t)  BY <1>6 DEF Drain
<1>7. CASE Reap(t)  BY <1>7 DEF Reap
<1>8. CASE AcceptClient(t)
  <2>1. NextSid \in Sid  BY DEF NextSid, Sid
  <2> QED BY <1>8, <2>1 DEF AcceptClient
<1>9. CASE AcceptNothing(t)  BY <1>9 DEF AcceptNothing
<1>10. CASE Emplace(t)
  <2>1. aborted' = aborted \/ aborted' = "bad_alloc"  BY <1>10 DEF Emplace, OutOfMemory
  <2>2. session_map' \in [Sid -> Session \cup {NoSession}]
    <3>1. session_map' = session_map \/ session_map' = [session_map EXCEPT ![sid[cur[t]]] =
             IF @ = NoSession THEN cur[t] ELSE @]
      BY <1>10 DEF Emplace
    <3> QED  BY <3>1, <1>10 DEF Emplace
  <2>3. pc' \in [Thread -> Label]  BY <1>10 DEF Emplace
  <2> QED  BY <1>10, <2>1, <2>2, <2>3 DEF Emplace
<1>11. CASE Associate(t)  BY <1>11 DEF Associate
<1>12. CASE Abandon(t)  BY <1>12 DEF Abandon, Erased
<1>13. CASE DequeueNull(t)  BY <1>13 DEF DequeueNull
<1>14. CASE DequeuePacket(t)  BY <1>14 DEF DequeuePacket
<1>15. CASE EnterRecv(t)  BY <1>15 DEF EnterRecv
<1>16. CASE Echo(t)
  <2>1. \/ pc' = pc \/ \E l \in {"leave", "sendpost"} : pc' = [pc EXCEPT ![t] = l]
    BY <1>16, Zenon DEF Echo
  <2>2. \/ ret' = ret \/ ret' = [ret EXCEPT ![t] = "unsend"]
    BY <1>16, Zenon DEF Echo
  <2>3. \/ sending' = sending \/ sending' = [sending EXCEPT ![cur[t]] = 1]
    BY <1>16, Zenon DEF Echo
  <2>4. aborted' = aborted \/ aborted' = "send_full"
    BY <1>16, Zenon DEF Echo
  <2>5. pc' \in [Thread -> Label]  BY <2>1
  <2>6. ret' \in [Thread -> Return]  BY <2>2
  <2>7. sending' \in [Session -> {0, 1}]  BY <2>3
  <2>8. aborted' \in {"no", "bad_alloc", "recv_full", "send_full", "double_free"}  BY <2>4
  <2>9. UNCHANGED <<mainVars, cur, mapVars, mem, sid, lock, io_count, io>>
    BY <1>16 DEF Echo
  <2> QED  BY <2>5, <2>6, <2>7, <2>8, <2>9
<1>17. CASE SendPost(t)
  <2>1. \/ pc' = [pc EXCEPT ![t] = ret[t]] /\ io_count' = io_count
        \/ /\ pc' = [pc EXCEPT ![t] = "wsasend"]
           /\ io_count' = [io_count EXCEPT ![cur[t]] = @ + 1]
    BY <1>17, Zenon DEF SendPost
  <2>2. pc' \in [Thread -> Label] /\ io_count' \in [Session -> Int]
    BY <2>1, CounterType
  <2>3. UNCHANGED <<mainVars, ret, cur, mapVars, mem, sid, lock, sending, io,
                    aborted>>
    BY <1>17 DEF SendPost
  <2> QED  BY <2>2, <2>3
<1>18. CASE WSASend(t)
  <2>1. "send" \in Op /\ ret[t] \in Return  BY DEF Op
  <2>2. Submit(t, "send", "leave", ret[t])
    BY <1>18, Zenon DEF WSASend
  <2>3. /\ pc' \in [Thread -> Label] /\ ret' \in [Thread -> Return]
        /\ io' \in [Session -> [Op -> {"idle", "posted", "done"}]]
    BY <2>1, <2>2, ControlTypeSubmit
  <2>4. UNCHANGED <<mainVars, cur, mapVars, objVars, syncVars, aborted>>
    BY <1>18 DEF WSASend
  <2> QED  BY <2>3, <2>4
<1>19. CASE Unsend(t)  BY <1>19 DEF Unsend
<1>20. CASE EnterSend(t)  BY <1>20 DEF EnterSend, SendingAfter
<1>21. CASE Recheck(t)  BY <1>21 DEF Recheck, SendStarts
<1>22. CASE Leave(t)  BY <1>22 DEF Leave, Unlocked
<1> QED
  BY <1>1, <1>2, <1>3, <1>4, <1>5, <1>6, <1>7, <1>8, <1>9, <1>10, <1>11,
     <1>12, <1>13, <1>14, <1>15, <1>16, <1>17, <1>18, <1>19, <1>20, <1>21,
     <1>22 DEF ThreadStep, AcceptStep, WorkerStep

LEMMA ControlTypeKernel ==
  ASSUME ControlTypeOK, NEW s \in Session, Kernel(s)
  PROVE  ControlTypeOK'
<1>1. \E op \in Op : io' = [io EXCEPT ![s][op] = "done"]
  BY DEF Kernel, KernelRecv, KernelEof, KernelSend, KernelFail, Complete, Op
<1>2. UNCHANGED <<mainVars, threadVars, mapVars, objVars, syncVars, aborted>>
  BY DEF Kernel, KernelRecv, KernelEof, KernelSend, KernelFail
<1>3. io' \in [Session -> [Op -> {"idle", "posted", "done"}]]
  BY <1>1 DEF ControlTypeOK
<1> QED
  BY <1>2, <1>3 DEF ControlTypeOK, mainVars, threadVars, mapVars, objVars, syncVars

(* Whatever the threads, the kernel and the user do, every control variable *)
(* of the server keeps its type.                                           *)
THEOREM ControlTypeCorrect == Spec => []ControlTypeOK
<1>1. ControlTypeOK /\ [Next]_vars => ControlTypeOK'
  <2> SUFFICES ASSUME ControlTypeOK, [Next]_vars PROVE ControlTypeOK'  OBVIOUS
  <2>1. CASE Main  BY <2>1, ControlTypeMain
  <2>2. CASE \E t \in Thread : ThreadStep(t)  BY <2>2, ControlTypeThread
  <2>3. CASE \E s \in Session : Kernel(s)  BY <2>3, ControlTypeKernel
  <2>4. CASE UNCHANGED vars
    BY <2>4 DEF vars, mainVars, threadVars, mapVars, objVars, syncVars, ioVars, ControlTypeOK
  <2> QED  BY <2>1, <2>2, <2>3, <2>4 DEF Next, Terminated
<1> QED  BY <1>1, ControlTypeInit, PTL DEF Spec

(***************************************************************************)
(* Counting references. A step of one thread changes the sets that         *)
(* io_count counts by that thread at most.                                 *)
(***************************************************************************)
Bit(b) == IF b THEN 1 ELSE 0
OthersSame(t) ==
    \A u \in Thread \ {t} : pc'[u] = pc[u] /\ ret'[u] = ret[u] /\ cur'[u] = cur[u]

LEMMA CardinalityChange ==
  ASSUME NEW S, NEW T, NEW x, IsFiniteSet(S),
         \A y : y # x => (y \in T <=> y \in S)
  PROVE  /\ IsFiniteSet(T)
         /\ Cardinality(T) = Cardinality(S) + Bit(x \in T) - Bit(x \in S)
<1>0. Cardinality(S) \in Nat  BY FS_CardinalityType
<1>1. CASE x \in S <=> x \in T
  <2>1. S = T  BY <1>1
  <2> QED  BY <1>0, <2>1 DEF Bit
<1>2. CASE x \notin S /\ x \in T
  <2>1. T = S \cup {x}  BY <1>2
  <2>2. IsFiniteSet(T) /\ Cardinality(T) = Cardinality(S) + 1
    BY <1>2, <2>1, FS_AddElement
  <2> QED  BY <1>0, <1>2, <2>2 DEF Bit
<1>3. CASE x \in S /\ x \notin T
  <2>1. T = S \ {x}  BY <1>3
  <2>2. IsFiniteSet(T) /\ Cardinality(T) = Cardinality(S) - 1
    BY <1>3, <2>1, FS_RemoveElement
  <2> QED  BY <1>0, <1>3, <2>2 DEF Bit
<1> QED  BY <1>1, <1>2, <1>3

LEMMA ThreadFinite == IsFiniteSet(Thread)
  BY FS_AddElement DEF Thread

LEMMA RefsFinite ==
  ASSUME NEW s \in Session
  PROVE  IsFiniteSet(IoRefs(s)) /\ IsFiniteSet(PacketRefs(s)) /\ IsFiniteSet(PostRefs(s))
<1>1. IsFiniteSet(Op)
  <2>1. Op = ({} \cup {"recv"}) \cup {"send"}  BY DEF Op
  <2> QED  BY <2>1, FS_EmptySet, FS_AddElement
<1>2. IoRefs(s) \subseteq Op  BY DEF IoRefs
<1>3. PacketRefs(s) \subseteq Thread  BY DEF PacketRefs
<1>4. PostRefs(s) \subseteq Thread  BY DEF PostRefs
<1> QED  BY <1>1, <1>2, <1>3, <1>4, ThreadFinite, FS_Subset

LEMMA ThreadRefs ==
  ASSUME NEW s \in Session, NEW t \in Thread, OthersSame(t)
  PROVE  /\ Cardinality(PacketRefs(s)') = Cardinality(PacketRefs(s))
                + Bit(OwnsPacket(t, s)') - Bit(OwnsPacket(t, s))
         /\ Cardinality(PostRefs(s)') = Cardinality(PostRefs(s))
                + Bit(Posting(t, s)') - Bit(Posting(t, s))
<1>1. \A y : y # t => (y \in PacketRefs(s)' <=> y \in PacketRefs(s))
  BY DEF PacketRefs, OwnsPacket, OthersSame
<1>2. \A y : y # t => (y \in PostRefs(s)' <=> y \in PostRefs(s))
  BY DEF PostRefs, Posting, OthersSame
<1>3. /\ t \in PacketRefs(s) <=> OwnsPacket(t, s)
      /\ t \in PacketRefs(s)' <=> OwnsPacket(t, s)'
  BY DEF PacketRefs
<1>4. /\ t \in PostRefs(s) <=> Posting(t, s)
      /\ t \in PostRefs(s)' <=> Posting(t, s)'
  BY DEF PostRefs
<1>5. Cardinality(PacketRefs(s)') = Cardinality(PacketRefs(s))
                + Bit(t \in PacketRefs(s)') - Bit(t \in PacketRefs(s))
  BY <1>1, RefsFinite, CardinalityChange
<1>6. Cardinality(PostRefs(s)') = Cardinality(PostRefs(s))
                + Bit(t \in PostRefs(s)') - Bit(t \in PostRefs(s))
  BY <1>2, RefsFinite, CardinalityChange
<1> QED  BY <1>3, <1>4, <1>5, <1>6 DEF Bit

LEMMA IoRefsChange ==
  ASSUME NEW s \in Session, NEW op \in Op,
         \A o \in Op \ {op} : io'[s][o] = io[s][o]
  PROVE  Cardinality(IoRefs(s)') = Cardinality(IoRefs(s))
            + Bit(io'[s][op] # "idle") - Bit(io[s][op] # "idle")
<1>1. \A y : y # op => (y \in IoRefs(s)' <=> y \in IoRefs(s))
  BY DEF IoRefs
<1>2. /\ op \in IoRefs(s) <=> io[s][op] # "idle"
      /\ op \in IoRefs(s)' <=> io'[s][op] # "idle"
  BY DEF IoRefs
<1>3. Cardinality(IoRefs(s)') = Cardinality(IoRefs(s))
            + Bit(op \in IoRefs(s)') - Bit(op \in IoRefs(s))
  BY <1>1, RefsFinite, CardinalityChange
<1> QED  BY <1>2, <1>3 DEF Bit

(***************************************************************************)
(* Most steps move a thread on without making a token or taking a session, *)
(* and most of these without touching a reference.                         *)
(***************************************************************************)
Calm(t) ==
    /\ OthersSame(t)
    /\ UNCHANGED <<io, mem>>
    /\ Exclusive(t)' => Exclusive(t)
    /\ pc'[t] \notin Idle => /\ pc[t] \notin Idle /\ cur'[t] = cur[t]
                             /\ pc[t] = "abandon" => pc'[t] = "abandon"
                             /\ t = Acceptor /\ pc'[t] = "abandon" => pc[t] \in {"abandon", "associate"}
    /\ \A s \in Session :
          /\ RecvToken(t, s)' => RecvToken(t, s) \/ Exclusive(t)
          /\ SendToken(t, s)' => SendToken(t, s) /\ sending'[s] = sending[s]
          /\ \/ sending'[s] = sending[s]
             \/ sending'[s] = 0 /\ SendToken(t, s)

Quiet(t) ==
    /\ Calm(t)
    /\ UNCHANGED io_count
    /\ \A s \in Session : /\ OwnsPacket(t, s)' <=> OwnsPacket(t, s)
                          /\ Posting(t, s)' <=> Posting(t, s)

LEMMA CalmStep ==
  ASSUME LifetimeInv, ControlTypeOK', ControlFlow', NEW t \in Thread, Calm(t),
         RefCount'
  PROVE  LifetimeInv'
<1>1. OneRecv'
  <2> SUFFICES ASSUME NEW s \in Session, NEW u \in Thread, RecvToken(u, s)'
               PROVE  /\ io'[s]["recv"] = "idle"
                      /\ \A v \in Thread \ {u} : ~RecvToken(v, s)'
    BY DEF OneRecv
  <2>1. io'[s]["recv"] = io[s]["recv"]
    BY DEF Calm
  <2>2. \A v \in Thread \ {t} : RecvToken(v, s)' <=> RecvToken(v, s)
    BY DEF Calm, OthersSame, RecvToken
  <2>3. \A v \in Thread : RecvToken(v, s) =>
            io[s]["recv"] = "idle" /\ \A w \in Thread \ {v} : ~RecvToken(w, s)
    BY DEF LifetimeInv, OneRecv
  <2>4. CASE Exclusive(t) /\ RecvToken(t, s)'
    <3>1. cur[t] = s
      BY <2>4 DEF RecvToken, Calm, Idle
    <3>2. io[s]["recv"] = "idle" /\ \A v \in Thread \ {t} : ~RecvToken(v, s)
      BY <2>4, <3>1 DEF LifetimeInv, Alone, IoRefs, Op, Uses, RecvToken, Idle
    <3> QED  BY <2>1, <2>2, <2>4, <3>2
  <2>5. CASE RecvToken(t, s)' => RecvToken(t, s)
    BY <2>1, <2>2, <2>3, <2>5
  <2> QED  BY <2>4, <2>5 DEF Calm
<1>2. OneSend'
  <2> SUFFICES ASSUME NEW s \in Session
               PROVE  /\ sending'[s] = 0 => io'[s]["send"] = "idle"
                      /\ \A u \in Thread :
                           SendToken(u, s)' => /\ sending'[s] = 1
                                               /\ io'[s]["send"] = "idle"
                                               /\ \A v \in Thread \ {u} : ~SendToken(v, s)'
    BY DEF OneSend
  <2>1. \A u \in Thread \ {t} : SendToken(u, s)' <=> SendToken(u, s)
    BY DEF Calm, OthersSame, SendToken
  <2>2. io'[s]["send"] = io[s]["send"]
    BY DEF Calm
  <2>3. /\ sending[s] = 0 => io[s]["send"] = "idle"
        /\ \A u \in Thread :
              SendToken(u, s) => /\ sending[s] = 1
                                 /\ io[s]["send"] = "idle"
                                 /\ \A v \in Thread \ {u} : ~SendToken(v, s)
    BY DEF LifetimeInv, OneSend
  <2>4. /\ SendToken(t, s)' => SendToken(t, s) /\ sending'[s] = sending[s]
        /\ \/ sending'[s] = sending[s]
           \/ sending'[s] = 0 /\ SendToken(t, s)
    BY DEF Calm
  <2> QED  BY <2>1, <2>2, <2>3, <2>4
<1>3. \A u \in Thread : Exclusive(u)' => Alone(u)'
  BY DEF LifetimeInv, Calm, OthersSame, Exclusive, Alone, Uses, IoRefs, Idle, Fresh, Reaping
<1>4. \A s \in Session : IoRefs(s)' # {} => mem'[s] = "live"
  BY DEF LifetimeInv, Calm, IoRefs
<1>5. NoUseAfterFree'
  BY DEF LifetimeInv, NoUseAfterFree, Calm, OthersSame
<1> QED  BY <1>1, <1>2, <1>3, <1>4, <1>5 DEF LifetimeInv

LEMMA QuietStep ==
  ASSUME LifetimeInv, ControlTypeOK', ControlFlow', NEW t \in Thread, Quiet(t)
  PROVE  LifetimeInv'
<1>1. RefCount'
  <2> SUFFICES ASSUME NEW s \in Session
               PROVE  (io_count[s] = Cardinality(IoRefs(s)) + Cardinality(PacketRefs(s))
                                     + Cardinality(PostRefs(s)))'
    BY DEF RefCount
  <2>1. IoRefs(s)' = IoRefs(s) /\ io_count'[s] = io_count[s]
    BY DEF Quiet, Calm, IoRefs
  <2>2. /\ PacketRefs(s)' = PacketRefs(s)
        /\ PostRefs(s)' = PostRefs(s)
    BY DEF Quiet, Calm, OthersSame, PacketRefs, PostRefs, OwnsPacket, Posting
  <2> QED  BY <2>1, <2>2 DEF LifetimeInv, RefCount
<1> QED  BY <1>1, CalmStep DEF Quiet

(* A worker's step keeps ControlFlow if the worker does. *)
WorkerFlow(w) ==
    /\ pc[w] \notin Idle => cur[w] \in Session
    /\ pc[w] \notin {"accept", "emplace", "associate", "abandon"}
    /\ ret[w] # "abandon"
    /\ pc[w] \in {"wait"} \cup Reaping => ret[w] = "loop"
    /\ pc[w] \in {"sendpost", "wsasend", "recheck"} => ret[w] \in {"unsend", "leave"}

LEMMA WorkerFlowStep ==
  ASSUME ControlFlow, NEW t \in Worker, OthersSame(t), WorkerFlow(t)'
  PROVE  ControlFlow'
<1>1. Acceptor \in Thread \ {t}  BY DEF Thread
<1>2. pc'[Acceptor] = pc[Acceptor] /\ ret'[Acceptor] = ret[Acceptor]
  BY <1>1 DEF OthersSame
<1>3. \A u \in Thread : pc'[u] \notin Idle => cur'[u] \in Session
  BY DEF ControlFlow, OthersSame, WorkerFlow
<1>4. \A w \in Worker : WorkerFlow(w)'
  <2> SUFFICES ASSUME NEW w \in Worker, w # t PROVE WorkerFlow(w)'
    OBVIOUS
  <2>1. w \in Thread  BY DEF Thread
  <2> QED  BY <2>1 DEF ControlFlow, OthersSame, WorkerFlow
<1> QED  BY <1>2, <1>3, <1>4 DEF ControlFlow, WorkerFlow

LEMMA QuietAccept ==
  ASSUME LifetimeInv, NEW t \in Thread,
         LoopTop(t) \/ AcceptNothing(t) \/ Emplace(t) \/ Associate(t) \/ DequeueNull(t)
  PROVE  Quiet(t) /\ ControlFlow'
<1> USE DEF At, Goto, Idle, Fresh, Reaping
<1>1. /\ pc \in [Thread -> Label] /\ ret \in [Thread -> Return]
      /\ cur \in [Thread -> Session \cup {NoSession}] /\ ControlFlow
  BY DEF LifetimeInv, ControlTypeOK
<1>2. \/ /\ pc[t] = "loop" /\ ret' = [ret EXCEPT ![t] = "loop"]
         /\ cur' = [cur EXCEPT ![t] = NoSession]
         /\ \E l \in {"done", "accept", "wait"} :
               /\ pc' = [pc EXCEPT ![t] = l]
               /\ l = "accept" => t = Acceptor
               /\ l = "wait" => t # Acceptor
      \/ /\ <<pc[t], pc'>> \in {<<"accept", [pc EXCEPT ![t] = "loop"]>>,
                                <<"emplace", [pc EXCEPT ![t] = "associate"]>>,
                                <<"emplace", pc>>,
                                <<"associate", [pc EXCEPT ![t] = "recvpost"]>>,
                                <<"associate", [pc EXCEPT ![t] = "abandon"]>>,
                                <<"wait", [pc EXCEPT ![t] = "done"]>>}
         /\ UNCHANGED <<ret, cur>>
  BY DEF LoopTop, AcceptNothing, Emplace, Associate, DequeueNull
<1>3. UNCHANGED <<io, io_count, mem, sending>>
  BY DEF LoopTop, AcceptNothing, Emplace, Associate, DequeueNull, ioVars, objVars, syncVars
<1>4. OthersSame(t)
  BY <1>1, <1>2 DEF OthersSame
<1>5. ControlFlow'
  BY <1>1, <1>2 DEF ControlFlow, Thread
<1>6. Exclusive(t)' => Exclusive(t)
  BY <1>1, <1>2, <1>3 DEF Exclusive, ControlFlow, Thread
<1>7. \A s \in Session :
          /\ OwnsPacket(t, s)' <=> OwnsPacket(t, s)
          /\ Posting(t, s)' <=> Posting(t, s)
          /\ RecvToken(t, s)' => RecvToken(t, s) \/ Exclusive(t)
          /\ SendToken(t, s)' => SendToken(t, s)
  <2>1. Acceptor \notin Worker /\ (t \notin Worker => t = Acceptor)
    BY DEF Thread
  <2> QED
    BY <1>1, <1>2, <2>1 DEF OwnsPacket, Posting, RecvToken, SendToken, ControlFlow, Exclusive
<1> QED  BY <1>1, <1>2, <1>3, <1>4, <1>5, <1>6, <1>7 DEF Quiet, Calm

LEMMA QuietReap ==
  ASSUME LifetimeInv, NEW t \in Thread, Erase(t) \/ Drain(t)
  PROVE  Quiet(t) /\ ControlFlow'
<1> USE DEF At, Goto, Idle, Fresh, Reaping
<1>1. /\ pc \in [Thread -> Label] /\ ret \in [Thread -> Return]
      /\ cur \in [Thread -> Session \cup {NoSession}] /\ ControlFlow
  BY DEF LifetimeInv, ControlTypeOK
<1>2. /\ <<pc[t], pc'>> \in {<<"erase", [pc EXCEPT ![t] = "drain"]>>,
                             <<"drain", [pc EXCEPT ![t] = "reap"]>>}
      /\ UNCHANGED <<ret, cur>>
  BY DEF Erase, Drain
<1>3. UNCHANGED <<io, io_count, mem, sending>>
  BY DEF Erase, Drain, ioVars, objVars, syncVars
<1>4. OthersSame(t)
  BY <1>1, <1>2 DEF OthersSame
<1>5. ControlFlow'
  BY <1>1, <1>2 DEF ControlFlow, Thread
<1>6. Exclusive(t)' => Exclusive(t)
  BY <1>1, <1>2, <1>3 DEF Exclusive
<1>7. \A s \in Session :
          /\ OwnsPacket(t, s)' <=> OwnsPacket(t, s)
          /\ Posting(t, s)' <=> Posting(t, s)
          /\ ~RecvToken(t, s)' /\ ~SendToken(t, s)'
  BY <1>1, <1>2 DEF OwnsPacket, Posting, RecvToken, SendToken
<1> QED  BY <1>1, <1>2, <1>3, <1>4, <1>5, <1>6, <1>7 DEF Quiet, Calm

(* A worker that takes or leaves a session's lock, or stops sending. *)
LEMMA QuietLock ==
  ASSUME LifetimeInv, NEW t \in Thread,
         EnterRecv(t) \/ EnterSend(t) \/ Unsend(t) \/ Leave(t)
  PROVE  Quiet(t) /\ ControlFlow'
<1> USE DEF At, Goto, Idle, Fresh, Reaping
<1>1. /\ pc \in [Thread -> Label] /\ ret \in [Thread -> Return]
      /\ cur \in [Thread -> Session \cup {NoSession}] /\ ControlFlow
      /\ sending \in [Session -> {0, 1}]
  BY DEF LifetimeInv, ControlTypeOK
<1>2. /\ UNCHANGED cur
      /\ \/ /\ pc[t] = "recv_lock" /\ pc' = [pc EXCEPT ![t] = "recvpost"]
            /\ UNCHANGED <<ret, sending>>
         \/ /\ pc[t] = "send_lock" /\ pc' = [pc EXCEPT ![t] = "sendpost"]
            /\ ret' = [ret EXCEPT ![t] = "leave"]
            /\ sending' = [sending EXCEPT ![cur[t]] = @]
         \/ /\ pc[t] = "send_lock" /\ pc' = [pc EXCEPT ![t] = "recheck"]
            /\ ret' = [ret EXCEPT ![t] = "leave"]
            /\ sending' = [sending EXCEPT ![cur[t]] = 0]
         \/ /\ pc[t] = "unsend" /\ pc' = [pc EXCEPT ![t] = "leave"]
            /\ sending' = [sending EXCEPT ![cur[t]] = 0]
            /\ UNCHANGED ret
         \/ /\ pc[t] = "leave" /\ pc' = [pc EXCEPT ![t] = "dec"]
            /\ ret' = [ret EXCEPT ![t] = "loop"]
            /\ UNCHANGED sending
  BY DEF EnterRecv, EnterSend, SendingAfter, Unsend, Leave
<1>3. UNCHANGED <<io, io_count, mem>>
  BY DEF EnterRecv, EnterSend, Unsend, Leave, ioVars, objVars
<1>4. t \in Worker
  BY <1>1, <1>2 DEF ControlFlow, Thread
<1>5. OthersSame(t)
  BY <1>1, <1>2 DEF OthersSame
<1>6. ControlFlow'
  <2>1. WorkerFlow(t)  BY <1>1, <1>4 DEF ControlFlow, WorkerFlow, Thread
  <2>2. WorkerFlow(t)'  BY <1>1, <1>2, <2>1 DEF WorkerFlow
  <2> QED  BY <1>1, <1>4, <1>5, <2>2, WorkerFlowStep
<1>7. Exclusive(t)' => Exclusive(t)
  BY <1>1, <1>2, <1>4 DEF Exclusive
<1>8. \A s \in Session :
          /\ OwnsPacket(t, s)' <=> OwnsPacket(t, s)
          /\ Posting(t, s)' <=> Posting(t, s)
          /\ RecvToken(t, s)' => RecvToken(t, s)
  BY <1>1, <1>2, <1>4 DEF OwnsPacket, Posting, RecvToken
<1>9. \A s \in Session :
          /\ SendToken(t, s)' => SendToken(t, s) /\ sending'[s] = sending[s]
          /\ \/ sending'[s] = sending[s]
             \/ sending'[s] = 0 /\ SendToken(t, s)
  BY <1>1, <1>2 DEF SendToken
<1> QED  BY <1>1, <1>2, <1>3, <1>4, <1>5, <1>6, <1>7, <1>8, <1>9 DEF Quiet, Calm

(* A worker that moves on under the lock: the rest of Echo(), SendPost()   *)
(* and Recheck() is in the lemmas about references and tokens below.       *)
LEMMA QuietWorker ==
  ASSUME LifetimeInv, NEW t \in Thread,
         \/ Echo(t) /\ pc'[t] # "sendpost"
         \/ Recheck(t) /\ pc'[t] # "sendpost"
         \/ SendPost(t) /\ pc'[t] # "wsasend"
         \/ RecvPost(t) /\ pc'[t] # "wsarecv"
  PROVE  Quiet(t) /\ ControlFlow'
<1> USE DEF At, Goto, Idle, Fresh, Reaping
<1>1. /\ pc \in [Thread -> Label] /\ ret \in [Thread -> Return]
      /\ cur \in [Thread -> Session \cup {NoSession}] /\ ControlFlow
      /\ sending \in [Session -> {0, 1}]
  BY DEF LifetimeInv, ControlTypeOK
<1>2. \/ Echo(t) /\ pc' = pc /\ UNCHANGED <<cur, ret, sending, io, io_count, mem>>
      \/ RecvPost(t) /\ pc' = pc /\ UNCHANGED <<cur, ret, sending, io, io_count, mem>>
      \/ /\ pc[t] = "echo" /\ pc' = [pc EXCEPT ![t] = "leave"]
         /\ UNCHANGED <<cur, io, io_count, mem>>
         /\ \/ UNCHANGED <<ret, sending>>
            \/ /\ sending[cur[t]] # 0
               /\ sending' = [sending EXCEPT ![cur[t]] = 1]
               /\ ret' = [ret EXCEPT ![t] = "unsend"]
      \/ /\ pc[t] = "recheck" /\ pc' = [pc EXCEPT ![t] = "leave"]
         /\ sending' = [sending EXCEPT ![cur[t]] = @]
         /\ UNCHANGED <<cur, ret, io, io_count, mem>>
      \/ /\ pc[t] = "sendpost" /\ pc' = [pc EXCEPT ![t] = ret[t]]
         /\ UNCHANGED <<cur, ret, sending, io, io_count, mem>>
  <2>1. CASE Echo(t) /\ pc'[t] # "sendpost"
    BY <1>1, <2>1 DEF Echo, SendStarts, ioVars, objVars
  <2>2. CASE Recheck(t) /\ pc'[t] # "sendpost"
    BY <1>1, <2>2 DEF Recheck, ioVars, objVars
  <2>3. CASE SendPost(t) /\ pc'[t] # "wsasend"
    BY <1>1, <2>3, Zenon DEF SendPost, objVars
  <2>4. CASE RecvPost(t) /\ pc'[t] # "wsarecv"
    BY <1>1, <2>4, Zenon DEF RecvPost, objVars
  <2> QED  BY <2>1, <2>2, <2>3, <2>4
<1>3. CASE pc' = pc /\ UNCHANGED <<cur, ret, sending, io, io_count, mem>>
  <2>1. ControlFlow'
    BY <1>1, <1>3 DEF ControlFlow
  <2> QED
    BY <1>1, <1>3, <2>1 DEF Quiet, Calm, OthersSame, Exclusive, OwnsPacket, Posting,
                            RecvToken, SendToken
<1>4. CASE ~(pc' = pc /\ UNCHANGED <<cur, ret, sending, io, io_count, mem>>)
  <2>1. t \in Worker
    BY <1>1, <1>2, <1>4 DEF ControlFlow, Thread, Echo, RecvPost
  <2>2. OthersSame(t)
    BY <1>1, <1>2, <1>4 DEF OthersSame
  <2>3. WorkerFlow(t)
    BY <1>1, <2>1 DEF ControlFlow, WorkerFlow, Thread
  <2>4. WorkerFlow(t)'
    BY <1>1, <1>2, <1>4, <2>3 DEF WorkerFlow
  <2>5. ControlFlow'
    BY <1>1, <2>1, <2>2, <2>4, WorkerFlowStep
  <2>6. Exclusive(t)' => Exclusive(t)
    BY <1>1, <1>2, <1>4, <2>1, <2>3 DEF Exclusive, WorkerFlow
  <2>7. \A s \in Session :
            /\ OwnsPacket(t, s)' <=> OwnsPacket(t, s)
            /\ Posting(t, s)' <=> Posting(t, s)
            /\ RecvToken(t, s)' => RecvToken(t, s)
    BY <1>1, <1>2, <1>4, <2>1, <2>3 DEF OwnsPacket, Posting, RecvToken, WorkerFlow
  <2>8. \A s \in Session :
            /\ SendToken(t, s)' => SendToken(t, s) /\ sending'[s] = sending[s]
            /\ sending'[s] = sending[s]
    BY <1>1, <1>2, <1>4, <2>3 DEF SendToken, WorkerFlow
  <2>9. UNCHANGED <<io, io_count, mem>>
    BY <1>2, <1>4
  <2> QED
    BY <1>1, <1>2, <1>4, <2>2, <2>3, <2>5, <2>6, <2>7, <2>8, <2>9 DEF Quiet, Calm, WorkerFlow
<1> QED
  BY <1>3, <1>4

(* WSARecv() or WSASend() refuses the operation. *)
LEMMA QuietRefused ==
  ASSUME LifetimeInv, NEW t \in Thread, WSARecv(t) \/ WSASend(t), pc'[t] = "dec"
  PROVE  Quiet(t) /\ ControlFlow'
<1> USE DEF At, Goto, Idle, Fresh, Reaping
<1>1. /\ pc \in [Thread -> Label] /\ ret \in [Thread -> Return]
      /\ cur \in [Thread -> Session \cup {NoSession}] /\ ControlFlow
  BY DEF LifetimeInv, ControlTypeOK
<1>2. /\ UNCHANGED <<cur, sending, io, io_count, mem>>
      /\ pc' = [pc EXCEPT ![t] = "dec"]
      /\ \/ /\ pc[t] = "wsarecv" /\ t # Acceptor
            /\ ret' = [ret EXCEPT ![t] = "echo"]
         \/ /\ pc[t] = "wsarecv" /\ t = Acceptor
            /\ ret' = [ret EXCEPT ![t] = "abandon"]
         \/ pc[t] = "wsasend" /\ ret' = [ret EXCEPT ![t] = ret[t]]
  <2>1. CASE WSARecv(t)
    BY <1>1, <2>1 DEF WSARecv, Submit, AfterRefusal, objVars, syncVars
  <2>2. CASE WSASend(t)
    BY <1>1, <2>2 DEF WSASend, Submit, AfterRefusal, objVars, syncVars
  <2> QED  BY <2>1, <2>2
<1>3. OthersSame(t)
  BY <1>1, <1>2 DEF OthersSame
<1>4. CASE t = Acceptor
  <2>1. pc[t] = "wsarecv" /\ ret' = [ret EXCEPT ![t] = "abandon"]
    BY <1>1, <1>2, <1>4 DEF ControlFlow
  <2>2. ControlFlow'
    BY <1>1, <1>2, <1>4, <2>1 DEF ControlFlow, Thread
  <2> QED
    BY <1>1, <1>2, <1>3, <1>4, <2>1, <2>2
       DEF Quiet, Calm, Exclusive, OwnsPacket, Posting, RecvToken, SendToken
<1>5. CASE t \in Worker
  <2>1. t # Acceptor /\ WorkerFlow(t)
    BY <1>1, <1>5 DEF ControlFlow, WorkerFlow, Thread
  <2>2. WorkerFlow(t)'
    BY <1>1, <1>2, <2>1 DEF WorkerFlow
  <2>3. ControlFlow'
    BY <1>1, <1>3, <1>5, <2>2, WorkerFlowStep
  <2>4. \A s \in Session :
            /\ OwnsPacket(t, s)' <=> OwnsPacket(t, s)
            /\ Posting(t, s)' <=> Posting(t, s)
            /\ ~RecvToken(t, s)'
            /\ SendToken(t, s)' => SendToken(t, s)
    BY <1>1, <1>2, <1>5, <2>1 DEF OwnsPacket, Posting, RecvToken, SendToken, WorkerFlow
  <2> QED
    BY <1>1, <1>2, <1>3, <2>1, <2>3, <2>4 DEF Quiet, Calm, Exclusive
<1> QED  BY <1>4, <1>5 DEF Thread

(***************************************************************************)
(* Steps that make, pass on or drop a reference.                           *)
(***************************************************************************)

(* The kernel takes the operation: the posting thread's reference becomes  *)
(* the operation's.                                                        *)
LEMMA Submitted ==
  ASSUME LifetimeInv, NEW t \in Thread, WSARecv(t) \/ WSASend(t), pc'[t] # "dec"
  PROVE  LifetimeInv'
<1> DEFINE s == cur[t]
<1> USE DEF At, Goto, Idle, Fresh, Reaping
<1>1. /\ pc \in [Thread -> Label] /\ ret \in [Thread -> Return]
      /\ cur \in [Thread -> Session \cup {NoSession}] /\ ControlFlow
      /\ io \in [Session -> [Op -> {"idle", "posted", "done"}]]
  BY DEF LifetimeInv, ControlTypeOK
<1>2. PICK op \in Op, l \in {"loop", "echo", "leave"} :
         /\ UNCHANGED <<cur, ret, sending, io_count, mem>>
         /\ pc' = [pc EXCEPT ![t] = l]
         /\ io' = [io EXCEPT ![s][op] = "posted"]
         /\ \/ /\ op = "recv" /\ pc[t] = "wsarecv"
               /\ (t = Acceptor /\ l = "loop") \/ (t # Acceptor /\ l = "echo")
            \/ op = "send" /\ pc[t] = "wsasend" /\ l = "leave"
  <2>1. CASE WSARecv(t)
    BY <1>1, <2>1 DEF WSARecv, Submit, AfterRefusal, objVars, syncVars, Op
  <2>2. CASE WSASend(t)
    BY <1>1, <2>2 DEF WSASend, Submit, AfterRefusal, objVars, syncVars, Op
  <2> QED  BY <2>1, <2>2
<1>3. OthersSame(t)
  BY <1>1, <1>2 DEF OthersSame
<1>4. s \in Session /\ mem[s] = "live" /\ (t # Acceptor <=> t \in Worker)
  BY <1>1, <1>2 DEF LifetimeInv, ControlFlow, NoUseAfterFree, Thread
<1>5. ControlTypeOK'
  BY ControlTypeThread DEF LifetimeInv, ThreadStep, WorkerStep
<1>6. ControlFlow'
  <2>1. CASE t = Acceptor
    BY <1>1, <1>2, <2>1 DEF ControlFlow, Thread
  <2>2. CASE t \in Worker
    <3>1. WorkerFlow(t)'
      BY <1>1, <1>2, <2>2 DEF WorkerFlow, ControlFlow, Thread
    <3> QED  BY <1>1, <1>3, <2>2, <3>1, WorkerFlowStep
  <2> QED  BY <2>1, <2>2 DEF Thread
<1>7. /\ op = "recv" => RecvToken(t, s)
      /\ op = "send" => SendToken(t, s) /\ sending[s] = 1
      /\ io[s][op] = "idle"
  BY <1>2, <1>4 DEF LifetimeInv, OneRecv, OneSend, RecvToken, SendToken
<1>8. \A x \in Session, o \in Op :
         io'[x][o] = IF x = s /\ o = op THEN "posted" ELSE io[x][o]
  BY <1>1, <1>2, <1>4
<1>9. ~RecvToken(t, s)' /\ ~SendToken(t, s)' /\ ~Exclusive(t)' /\ ~Posting(t, s)'
  BY <1>1, <1>2 DEF RecvToken, SendToken, Exclusive, Posting
<1>10. OneRecv'
  <2> SUFFICES ASSUME NEW x \in Session, NEW u \in Thread, RecvToken(u, x)'
               PROVE  /\ io'[x]["recv"] = "idle"
                      /\ \A v \in Thread \ {u} : ~RecvToken(v, x)'
    BY DEF OneRecv
  <2>1. u # t /\ RecvToken(u, x)
    BY <1>2, <1>3, <1>9 DEF OthersSame, RecvToken
  <2>2. io[x]["recv"] = "idle" /\ \A v \in Thread \ {u} : ~RecvToken(v, x)
    BY <2>1 DEF LifetimeInv, OneRecv
  <2>3. ~(x = s /\ op = "recv")
    BY <1>7, <2>1, <2>2
  <2>4. \A v \in Thread : RecvToken(v, x)' => RecvToken(v, x)
    BY <1>2, <1>3, <1>9 DEF OthersSame, RecvToken
  <2> QED  BY <1>8, <2>2, <2>3, <2>4 DEF Op
<1>11. OneSend'
  <2> SUFFICES ASSUME NEW x \in Session
               PROVE  /\ sending'[x] = 0 => io'[x]["send"] = "idle"
                      /\ \A u \in Thread :
                           SendToken(u, x)' => /\ sending'[x] = 1
                                               /\ io'[x]["send"] = "idle"
                                               /\ \A v \in Thread \ {u} : ~SendToken(v, x)'
    BY DEF OneSend
  <2>1. \A v \in Thread : SendToken(v, x)' => SendToken(v, x) /\ v # t
    BY <1>2, <1>3, <1>9 DEF OthersSame, SendToken
  <2>2. /\ sending[x] = 0 => io[x]["send"] = "idle"
        /\ \A u \in Thread :
              SendToken(u, x) => /\ sending[x] = 1
                                 /\ io[x]["send"] = "idle"
                                 /\ \A v \in Thread \ {u} : ~SendToken(v, x)
    BY DEF LifetimeInv, OneSend
  <2>3. x = s /\ op = "send" => sending[x] = 1 /\ \A v \in Thread \ {t} : ~SendToken(v, x)
    BY <1>7, <2>2
  <2> QED  BY <1>2, <1>8, <2>1, <2>2, <2>3 DEF Op
<1>12. \A u \in Thread : Exclusive(u)' => Alone(u)'
  <2> SUFFICES ASSUME NEW u \in Thread, Exclusive(u)' PROVE Alone(u)'
    OBVIOUS
  <2>1. u # t /\ Exclusive(u)
    BY <1>2, <1>3, <1>9 DEF OthersSame, Exclusive
  <2>2. Alone(u)
    BY <2>1 DEF LifetimeInv
  <2>3. Uses(t, s)
    BY <1>2 DEF Uses
  <2>4. cur[u] # s /\ cur[u] \in Session
    BY <1>1, <2>1, <2>2, <2>3 DEF Alone, Exclusive, ControlFlow
  <2>5. IoRefs(cur[u])' = IoRefs(cur[u])
    BY <1>2, <1>8, <2>4 DEF IoRefs
  <2>6. \A v \in Thread, x \in Session : Uses(v, x)' => Uses(v, x)
    BY <1>2, <1>3 DEF OthersSame, Uses
  <2> QED  BY <1>2, <2>2, <2>4, <2>5, <2>6 DEF Alone
<1>13. \A x \in Session : IoRefs(x)' # {} => mem'[x] = "live"
  BY <1>2, <1>4, <1>8 DEF LifetimeInv, IoRefs
<1>14. RefCount'
  <2> SUFFICES ASSUME NEW x \in Session
               PROVE  (io_count[x] = Cardinality(IoRefs(x)) + Cardinality(PacketRefs(x))
                                     + Cardinality(PostRefs(x)))'
    BY DEF RefCount
  <2>1. io_count'[x] = Cardinality(IoRefs(x)) + Cardinality(PacketRefs(x))
                       + Cardinality(PostRefs(x))
    BY <1>2 DEF LifetimeInv, RefCount
  <2>2. /\ Cardinality(IoRefs(x)) \in Nat
        /\ Cardinality(PacketRefs(x)) \in Nat
        /\ Cardinality(PostRefs(x)) \in Nat
    BY RefsFinite, FS_CardinalityType
  <2>3. OwnsPacket(t, x)' <=> OwnsPacket(t, x)
    BY <1>1, <1>2 DEF OwnsPacket
  <2>4. Cardinality(PacketRefs(x)') = Cardinality(PacketRefs(x))
    BY <1>3, <2>2, <2>3, ThreadRefs DEF Bit
  <2>5. CASE x = s
    <3>1. Posting(t, x) /\ ~Posting(t, x)'
      BY <1>2, <1>9, <2>5 DEF Posting
    <3>2. Cardinality(PostRefs(x)') = Cardinality(PostRefs(x)) - 1
      BY <1>3, <2>2, <3>1, ThreadRefs DEF Bit
    <3>3. Cardinality(IoRefs(x)') = Cardinality(IoRefs(x)) + 1
      <4>1. \A o \in Op \ {op} : io'[x][o] = io[x][o]
        BY <1>8
      <4>2. io'[x][op] # "idle" /\ io[x][op] = "idle"
        BY <1>7, <1>8, <2>5
      <4> QED  BY <2>2, <4>1, <4>2, IoRefsChange DEF Bit
    <3> QED  BY <2>1, <2>2, <2>4, <3>2, <3>3
  <2>6. CASE x # s
    <3>1. IoRefs(x)' = IoRefs(x)
      BY <1>8, <2>6 DEF IoRefs
    <3>2. Posting(t, x)' <=> Posting(t, x)
      BY <1>2, <2>6 DEF Posting
    <3>3. Cardinality(PostRefs(x)') = Cardinality(PostRefs(x))
      BY <1>3, <2>2, <3>2, ThreadRefs DEF Bit
    <3> QED  BY <2>1, <2>4, <3>1, <3>3
  <2> QED  BY <2>5, <2>6
<1>15. NoUseAfterFree'
  BY <1>2, <1>3 DEF LifetimeInv, NoUseAfterFree, OthersSame
<1> QED
  BY <1>5, <1>6, <1>10, <1>11, <1>12, <1>13, <1>14, <1>15 DEF LifetimeInv

(* A thread is about to post an operation and counts it. *)
LEMMA Posted ==
  ASSUME LifetimeInv, NEW t \in Thread,
         \/ RecvPost(t) /\ pc'[t] = "wsarecv"
         \/ SendPost(t) /\ pc'[t] = "wsasend"
  PROVE  LifetimeInv'
<1> DEFINE s == cur[t]
<1> USE DEF At, Goto, Idle, Fresh, Reaping
<1>1. /\ pc \in [Thread -> Label] /\ ret \in [Thread -> Return]
      /\ cur \in [Thread -> Session \cup {NoSession}] /\ ControlFlow
      /\ io_count \in [Session -> Int]
  BY DEF LifetimeInv, ControlTypeOK
<1>2. /\ UNCHANGED <<cur, ret, sending, io, mem>>
      /\ io_count' = [io_count EXCEPT ![s] = @ + 1]
      /\ \/ pc[t] = "recvpost" /\ pc' = [pc EXCEPT ![t] = "wsarecv"]
         \/ pc[t] = "sendpost" /\ pc' = [pc EXCEPT ![t] = "wsasend"]
  <2>1. CASE RecvPost(t) /\ pc'[t] = "wsarecv"
    <3>1. pc'[t] # pc[t]  BY <2>1 DEF RecvPost
    <3> QED  BY <2>1, <3>1, Zenon DEF RecvPost, objVars
  <2>2. CASE SendPost(t) /\ pc'[t] = "wsasend"
    <3>1. ret[t] # "wsasend"  BY <1>1 DEF Return
    <3>2. pc' # [pc EXCEPT ![t] = ret[t]]  BY <1>1, <2>2, <3>1
    <3> QED  BY <2>2, <3>2, Zenon DEF SendPost, objVars
  <2> QED  BY <2>1, <2>2
<1>3. OthersSame(t)
  BY <1>1, <1>2 DEF OthersSame
<1>4. s \in Session
  BY <1>1, <1>2 DEF ControlFlow
<1>5. ControlTypeOK'
  BY ControlTypeThread DEF LifetimeInv, ThreadStep, WorkerStep
<1>6. ControlFlow'
  <2>1. CASE t = Acceptor
    BY <1>1, <1>2, <2>1 DEF ControlFlow, Thread
  <2>2. CASE t \in Worker
    <3>1. WorkerFlow(t)'
      BY <1>1, <1>2, <2>2 DEF WorkerFlow, ControlFlow, Thread
    <3> QED  BY <1>1, <1>3, <2>2, <3>1, WorkerFlowStep
  <2> QED  BY <2>1, <2>2 DEF Thread
<1>7. Calm(t)
  <2>1. Exclusive(t)' => Exclusive(t)
    BY <1>1, <1>2 DEF Exclusive
  <2>2. \A x \in Session : /\ RecvToken(t, x)' => RecvToken(t, x)
                           /\ SendToken(t, x)' => SendToken(t, x)
    BY <1>1, <1>2 DEF RecvToken, SendToken
  <2> QED  BY <1>1, <1>2, <1>3, <2>1, <2>2 DEF Calm
<1>8. RefCount'
  <2> SUFFICES ASSUME NEW x \in Session
               PROVE  (io_count[x] = Cardinality(IoRefs(x)) + Cardinality(PacketRefs(x))
                                     + Cardinality(PostRefs(x)))'
    BY DEF RefCount
  <2>1. io_count[x] = Cardinality(IoRefs(x)) + Cardinality(PacketRefs(x))
                      + Cardinality(PostRefs(x))
    BY DEF LifetimeInv, RefCount
  <2>2. /\ Cardinality(IoRefs(x)) \in Nat
        /\ Cardinality(PacketRefs(x)) \in Nat
        /\ Cardinality(PostRefs(x)) \in Nat
    BY RefsFinite, FS_CardinalityType
  <2>3. IoRefs(x)' = IoRefs(x)
    BY <1>2 DEF IoRefs
  <2>4. OwnsPacket(t, x)' <=> OwnsPacket(t, x)
    BY <1>1, <1>2 DEF OwnsPacket
  <2>5. Cardinality(PacketRefs(x)') = Cardinality(PacketRefs(x))
    BY <1>3, <2>2, <2>4, ThreadRefs DEF Bit
  <2>6. Posting(t, x)' <=> x = s
    BY <1>1, <1>2 DEF Posting
  <2>7. ~Posting(t, x)
    BY <1>2 DEF Posting
  <2>8. Cardinality(PostRefs(x)') = Cardinality(PostRefs(x)) + Bit(x = s)
    BY <1>3, <2>2, <2>6, <2>7, ThreadRefs DEF Bit
  <2>9. io_count'[x] = io_count[x] + Bit(x = s)
    BY <1>1, <1>2 DEF Bit
  <2> QED  BY <2>1, <2>2, <2>3, <2>5, <2>8, <2>9 DEF Bit
<1> QED  BY <1>5, <1>6, <1>7, <1>8, CalmStep

LEMMA NoneLeft ==
  ASSUME NEW s \in Session
  PROVE  /\ Cardinality(IoRefs(s)) \in Nat
         /\ Cardinality(PacketRefs(s)) \in Nat
         /\ Cardinality(PostRefs(s)) \in Nat
         /\ Cardinality(IoRefs(s)) = 0 <=> IoRefs(s) = {}
         /\ Cardinality(PacketRefs(s)) = 0 <=> PacketRefs(s) = {}
         /\ Cardinality(PostRefs(s)) = 0 <=> PostRefs(s) = {}
  BY RefsFinite, FS_CardinalityType, FS_EmptySet

(* decrement_io_count(): of the last reference there is no other user. *)
LEMMA Decremented ==
  ASSUME LifetimeInv, NEW t \in Thread, Decrement(t)
  PROVE  LifetimeInv'
<1> DEFINE s == cur[t]
<1> USE DEF At, Goto, Idle, Fresh, Reaping
<1>1. /\ pc \in [Thread -> Label] /\ ret \in [Thread -> Return]
      /\ cur \in [Thread -> Session \cup {NoSession}] /\ ControlFlow
      /\ io_count \in [Session -> Int]
  BY DEF LifetimeInv, ControlTypeOK
<1>2. /\ UNCHANGED <<cur, ret, sending, io, mem>>
      /\ pc[t] = "dec"
      /\ io_count' = [io_count EXCEPT ![s] = @ - 1]
      /\ \/ io_count[s] - 1 = 0 /\ pc' = [pc EXCEPT ![t] = "erase"]
         \/ io_count[s] - 1 # 0 /\ pc' = [pc EXCEPT ![t] = ret[t]]
  BY DEF Decrement, IsLast, objVars, ioVars
<1>3. OthersSame(t)
  BY <1>1, <1>2 DEF OthersSame
<1>4. s \in Session /\ mem[s] = "live" /\ (t # Acceptor <=> t \in Worker)
  BY <1>1, <1>2 DEF LifetimeInv, ControlFlow, NoUseAfterFree, Thread
<1>5. ControlTypeOK'
  BY ControlTypeThread DEF LifetimeInv, ThreadStep
<1>6. /\ OwnsPacket(t, s) <=> t \in Worker
      /\ Posting(t, s) <=> ret[t] # "loop"
  BY <1>2 DEF OwnsPacket, Posting
<1>7. io_count[s] = Cardinality(IoRefs(s)) + Cardinality(PacketRefs(s))
                    + Cardinality(PostRefs(s))
  BY <1>4 DEF LifetimeInv, RefCount
<1>8. CASE t = Acceptor
  <2>1. ret[t] = "abandon" /\ Alone(t)
    BY <1>1, <1>2, <1>8 DEF LifetimeInv, ControlFlow, Exclusive
  <2>2. IoRefs(s) = {} /\ PacketRefs(s) = {}
    BY <1>4, <1>8, <2>1 DEF Alone, PacketRefs, OwnsPacket, Uses, Thread
  <2>3. PostRefs(s) = {t}
    <3>1. \A u \in Thread \ {t} : ~Posting(u, s)
      BY <2>1 DEF Alone, Posting, Uses
    <3>2. Posting(t, s)
      BY <1>6, <2>1
    <3>3. \A u : u \in PostRefs(s) <=> u = t
      BY <3>1, <3>2 DEF PostRefs
    <3> QED  BY <3>3
  <2>4. io_count[s] = 1
    <3>1. Cardinality(IoRefs(s)) = 0 /\ Cardinality(PacketRefs(s)) = 0
      BY <1>4, <2>2, NoneLeft
    <3>2. Cardinality(PostRefs(s)) = 1
      BY <2>3, FS_Singleton
    <3> QED  BY <1>7, <3>1, <3>2
  <2>5. pc' = [pc EXCEPT ![t] = "erase"]
    BY <1>2, <2>4
  <2>6. ControlFlow'
    BY <1>1, <1>2, <1>8, <2>1, <2>5 DEF ControlFlow, Thread
  <2>7. RefCount'
    <3> SUFFICES ASSUME NEW x \in Session
                 PROVE  (io_count[x] = Cardinality(IoRefs(x)) + Cardinality(PacketRefs(x))
                                       + Cardinality(PostRefs(x)))'
      BY DEF RefCount
    <3>1. IoRefs(x)' = IoRefs(x)
      BY <1>2 DEF IoRefs
    <3>2. /\ ~OwnsPacket(t, x)' /\ ~OwnsPacket(t, x) /\ ~Posting(t, x)'
          /\ Posting(t, x) <=> x = s
      BY <1>1, <1>2, <1>4, <1>8, <2>1, <2>5 DEF OwnsPacket, Posting
    <3>3. /\ Cardinality(PacketRefs(x)') = Cardinality(PacketRefs(x))
          /\ Cardinality(PostRefs(x)') = Cardinality(PostRefs(x)) - Bit(x = s)
      BY <1>3, <3>2, ThreadRefs, NoneLeft DEF Bit
    <3>4. io_count'[x] = io_count[x] - Bit(x = s)
      BY <1>1, <1>2 DEF Bit
    <3> QED  BY <3>1, <3>3, <3>4, NoneLeft DEF LifetimeInv, RefCount, Bit
  <2>8. Calm(t)
    <3>1. Exclusive(t)
      BY <1>2, <1>8 DEF Exclusive
    <3>2. \A x \in Session : ~RecvToken(t, x)' /\ ~SendToken(t, x)'
      BY <1>1, <2>5 DEF RecvToken, SendToken
    <3> QED  BY <1>1, <1>2, <1>3, <2>5, <3>1, <3>2 DEF Calm
  <2> QED  BY <1>5, <2>6, <2>7, <2>8, CalmStep
<1>9. CASE t \in Worker
  <2>1. /\ ret[t] \in {"loop", "echo", "unsend", "leave"}
        /\ WorkerFlow(t)
    BY <1>1, <1>9 DEF ControlFlow, WorkerFlow, Return, Thread
  <2>2. t \in PacketRefs(s) /\ (ret[t] # "loop" => t \in PostRefs(s))
    BY <1>6, <1>9 DEF PacketRefs, PostRefs
  <2>3. Cardinality(PacketRefs(s)) >= 1 /\ (ret[t] # "loop" => Cardinality(PostRefs(s)) >= 1)
    BY <1>4, <2>2, NoneLeft
  <2>4. io_count[s] - 1 = 0 => ret[t] = "loop"
    BY <1>4, <1>7, <2>3, NoneLeft
  <2>5. \/ pc' = [pc EXCEPT ![t] = "erase"] /\ io_count[s] - 1 = 0 /\ ret[t] = "loop"
        \/ pc' = [pc EXCEPT ![t] = "loop"] /\ ret[t] = "loop"
        \/ \E l \in {"echo", "unsend", "leave"} : pc' = [pc EXCEPT ![t] = l] /\ ret[t] = l
    BY <1>2, <2>1, <2>4
  <2>6. ControlFlow'
    <3>1. WorkerFlow(t)'
      BY <1>1, <1>2, <2>1, <2>5 DEF WorkerFlow
    <3> QED  BY <1>1, <1>3, <1>9, <3>1, WorkerFlowStep
  <2>7. RefCount'
    <3> SUFFICES ASSUME NEW x \in Session
                 PROVE  (io_count[x] = Cardinality(IoRefs(x)) + Cardinality(PacketRefs(x))
                                       + Cardinality(PostRefs(x)))'
      BY DEF RefCount
    <3>1. IoRefs(x)' = IoRefs(x)
      BY <1>2 DEF IoRefs
    <3>2. /\ Cardinality(PacketRefs(x)') = Cardinality(PacketRefs(x))
                + Bit(OwnsPacket(t, x)') - Bit(OwnsPacket(t, x))
          /\ Cardinality(PostRefs(x)') = Cardinality(PostRefs(x))
                + Bit(Posting(t, x)') - Bit(Posting(t, x))
      BY <1>3, ThreadRefs
    <3>3. io_count'[x] = io_count[x] - Bit(x = s)
      BY <1>1, <1>2 DEF Bit
    <3>4. CASE x # s
      <4>1. /\ ~OwnsPacket(t, x)' /\ ~OwnsPacket(t, x)
            /\ ~Posting(t, x)' /\ ~Posting(t, x)
        BY <1>2, <3>4 DEF OwnsPacket, Posting
      <4> QED  BY <3>1, <3>2, <3>3, <3>4, <4>1, NoneLeft DEF LifetimeInv, RefCount, Bit
    <3>5. CASE x = s /\ ret[t] = "loop"
      <4>1. pc'[t] \in {"erase", "loop"}
        BY <1>1, <2>5, <3>5
      <4>2. /\ ~OwnsPacket(t, x)' /\ OwnsPacket(t, x)
            /\ ~Posting(t, x)' /\ ~Posting(t, x)
        BY <1>6, <1>9, <3>5, <4>1 DEF OwnsPacket, Posting
      <4> QED  BY <3>1, <3>2, <3>3, <3>5, <4>2, NoneLeft DEF LifetimeInv, RefCount, Bit
    <3>6. CASE x = s /\ ret[t] # "loop"
      <4>1. pc'[t] \in {"echo", "unsend", "leave"}
        BY <1>1, <2>5, <3>6
      <4>2. /\ OwnsPacket(t, x)' /\ OwnsPacket(t, x)
            /\ ~Posting(t, x)' /\ Posting(t, x)
        BY <1>2, <1>6, <1>9, <3>6, <4>1 DEF OwnsPacket, Posting
      <4> QED  BY <3>1, <3>2, <3>3, <3>6, <4>2, NoneLeft DEF LifetimeInv, RefCount, Bit
    <3> QED  BY <3>4, <3>5, <3>6
  <2>8. CASE pc' # [pc EXCEPT ![t] = "erase"]
    <3>1. pc'[t] \in {"loop", "echo", "unsend", "leave"} /\ pc'[t] = ret[t]
      BY <1>1, <2>5, <2>8
    <3>2. ~Exclusive(t)'
      BY <1>4, <1>9, <3>1 DEF Exclusive
    <3>3. \A x \in Session : /\ ~RecvToken(t, x)'
                             /\ SendToken(t, x)' => SendToken(t, x)
      BY <1>2, <3>1 DEF RecvToken, SendToken
    <3>4. Calm(t)
      BY <1>1, <1>2, <1>3, <3>1, <3>2, <3>3 DEF Calm
    <3> QED  BY <1>5, <2>6, <2>7, <3>4, CalmStep
  <2>9. CASE pc' = [pc EXCEPT ![t] = "erase"]
    <3>1. ret[t] = "loop" /\ io_count'[s] = 0 /\ pc'[t] = "erase" /\ cur'[t] = s
      BY <1>1, <1>2, <1>4, <2>5, <2>9
    <3>2. io_count[s] = 1 /\ io_count[s] \in Int
      BY <1>1, <1>4, <2>5, <2>9, <3>1
    <3>3. /\ Cardinality(IoRefs(s)) = 0 /\ Cardinality(PacketRefs(s)) = 1
      BY <1>4, <1>7, <2>3, <3>2, NoneLeft
    <3>4. IoRefs(s) = {} /\ PacketRefs(s) = {t}
      <4>1. \E x : PacketRefs(s) = {x}
        BY <1>4, <3>3, RefsFinite, FS_Singleton
      <4> QED  BY <1>4, <2>2, <3>3, <4>1, NoneLeft
    <3>5. \A u \in Thread \ {t} : ~Uses(u, s)
      <4> SUFFICES ASSUME NEW u \in Thread \ {t}, Uses(u, s) PROVE FALSE
        OBVIOUS
      <4>1. ~OwnsPacket(u, s)
        BY <3>4 DEF PacketRefs
      <4>2. ~Exclusive(u)
        BY <1>2 DEF LifetimeInv, Alone, Uses
      <4>3. pc[u] \notin Idle \cup Reaping /\ cur[u] = s
        BY <4>2 DEF Uses, Exclusive
      <4>4. u = Acceptor
        BY <4>1, <4>3 DEF OwnsPacket, Thread
      <4> QED  BY <1>1, <1>4, <4>2, <4>3, <4>4 DEF ControlFlow, Exclusive
    <3>6. Alone(t)'
      BY <1>2, <1>3, <1>4, <3>1, <3>4, <3>5 DEF Alone, IoRefs, Uses, OthersSame
    <3>7. OneRecv'
      <4>1. \A u \in Thread, x \in Session : RecvToken(u, x)' => RecvToken(u, x)
        BY <1>2, <1>3, <3>1 DEF OthersSame, RecvToken
      <4> QED  BY <1>2, <4>1 DEF LifetimeInv, OneRecv
    <3>8. OneSend'
      <4>1. \A u \in Thread, x \in Session : SendToken(u, x)' => SendToken(u, x)
        BY <1>2, <1>3, <3>1 DEF OthersSame, SendToken
      <4> QED  BY <1>2, <4>1 DEF LifetimeInv, OneSend
    <3>9. \A u \in Thread : Exclusive(u)' => Alone(u)'
      <4> SUFFICES ASSUME NEW u \in Thread \ {t}, Exclusive(u)' PROVE Alone(u)'
        BY <3>6
      <4>1. Exclusive(u) /\ Alone(u)
        BY <1>2, <1>3 DEF OthersSame, Exclusive, LifetimeInv
      <4>2. \A v \in Thread, x \in Session : Uses(v, x)' => Uses(v, x)
        BY <1>2, <1>3, <3>1 DEF OthersSame, Uses
      <4>3. cur[u] \in Session
        BY <1>1, <4>1 DEF Exclusive, ControlFlow
      <4> QED  BY <1>2, <4>1, <4>2, <4>3 DEF Alone, IoRefs
    <3>10. \A x \in Session : IoRefs(x)' # {} => mem'[x] = "live"
      BY <1>2 DEF LifetimeInv, IoRefs
    <3>11. NoUseAfterFree'
      BY <1>2, <1>3, <1>4, <3>1 DEF LifetimeInv, NoUseAfterFree, OthersSame
    <3> QED
      BY <1>5, <2>6, <2>7, <3>7, <3>8, <3>9, <3>10, <3>11 DEF LifetimeInv
  <2> QED  BY <2>8, <2>9
<1> QED
  BY <1>4, <1>8, <1>9 DEF Thread

(* The session is deleted by the one thread that has it. *)
LEMMA Freed ==
  ASSUME LifetimeInv, NEW t \in Thread,
         Reap(t) \/ (Abandon(t) /\ mem[cur[t]] = "live")
  PROVE  LifetimeInv'
<1> DEFINE s == cur[t]
<1> USE DEF At, Goto, Idle, Fresh, Reaping
<1>1. /\ pc \in [Thread -> Label] /\ ret \in [Thread -> Return]
      /\ cur \in [Thread -> Session \cup {NoSession}] /\ ControlFlow
      /\ mem \in [Session -> {"none", "live", "freed"}]
  BY DEF LifetimeInv, ControlTypeOK
<1>2. /\ UNCHANGED <<cur, ret, sending, io, io_count>>
      /\ mem' = [mem EXCEPT ![s] = "freed"]
      /\ \/ pc[t] = "reap" /\ pc' = [pc EXCEPT ![t] = ret[t]]
         \/ pc[t] = "abandon" /\ mem[s] = "live" /\ pc' = [pc EXCEPT ![t] = "loop"]
  BY DEF Reap, Abandon, syncVars, ioVars
<1>3. OthersSame(t)
  BY <1>1, <1>2 DEF OthersSame
<1>4. s \in Session /\ (t # Acceptor <=> t \in Worker)
  BY <1>1, <1>2 DEF ControlFlow, Thread
<1>5. ControlTypeOK'
  BY ControlTypeThread DEF LifetimeInv, ThreadStep, AcceptStep
<1>6. Exclusive(t) /\ Alone(t)
  BY <1>1, <1>2, <1>4 DEF LifetimeInv, Exclusive, ControlFlow
<1>7. /\ t = Acceptor => pc'[t] \in {"loop", "abandon"}
      /\ t # Acceptor => pc'[t] = "loop"
  BY <1>1, <1>2, <1>4 DEF ControlFlow
<1>8. ControlFlow'
  <2>1. CASE t = Acceptor
    BY <1>1, <1>2, <1>7, <2>1 DEF ControlFlow, Thread
  <2>2. CASE t \in Worker
    <3>1. WorkerFlow(t)'
      BY <1>1, <1>2, <1>4, <1>7, <2>2 DEF WorkerFlow, ControlFlow
    <3> QED  BY <1>1, <1>3, <2>2, <3>1, WorkerFlowStep
  <2> QED  BY <2>1, <2>2 DEF Thread
<1>9. \A x \in Session : mem'[x] = IF x = s THEN "freed" ELSE mem[x]
  BY <1>1, <1>2
<1>10. OneRecv'
  <2>1. \A u \in Thread, x \in Session : RecvToken(u, x)' => RecvToken(u, x)
    BY <1>2, <1>3, <1>7 DEF OthersSame, RecvToken
  <2> QED  BY <1>2, <2>1 DEF LifetimeInv, OneRecv
<1>11. OneSend'
  <2>1. \A u \in Thread, x \in Session : SendToken(u, x)' => SendToken(u, x)
    BY <1>2, <1>3, <1>7 DEF OthersSame, SendToken
  <2> QED  BY <1>2, <2>1 DEF LifetimeInv, OneSend
<1>12. \A u \in Thread : Exclusive(u)' => Alone(u)'
  <2> SUFFICES ASSUME NEW u \in Thread, Exclusive(u)' PROVE Alone(u)'
    OBVIOUS
  <2>1. u # t
    BY <1>2, <1>4, <1>7, <1>9 DEF Exclusive
  <2>2. pc'[u] = pc[u] /\ cur'[u] = cur[u] /\ pc[u] \notin Idle /\ cur[u] \in Session
    BY <1>1, <1>3, <2>1 DEF OthersSame, Exclusive, ControlFlow
  <2>3. cur[u] # s
    BY <1>6, <2>1, <2>2 DEF Alone, Uses
  <2>4. Exclusive(u) /\ Alone(u)
    BY <1>9, <2>2, <2>3 DEF Exclusive, LifetimeInv
  <2>5. \A v \in Thread, x \in Session : Uses(v, x)' => Uses(v, x)
    BY <1>2, <1>3, <1>7 DEF OthersSame, Uses
  <2> QED  BY <1>2, <1>9, <2>2, <2>3, <2>4, <2>5 DEF Alone, IoRefs
<1>13. \A x \in Session : IoRefs(x)' # {} => mem'[x] = "live"
  BY <1>2, <1>6, <1>9 DEF LifetimeInv, IoRefs, Alone
<1>14. RefCount'
  <2> SUFFICES ASSUME NEW x \in Session
               PROVE  (io_count[x] = Cardinality(IoRefs(x)) + Cardinality(PacketRefs(x))
                                     + Cardinality(PostRefs(x)))'
    BY DEF RefCount
  <2>1. IoRefs(x)' = IoRefs(x) /\ io_count'[x] = io_count[x]
    BY <1>2 DEF IoRefs
  <2>2. /\ ~OwnsPacket(t, x)' /\ ~OwnsPacket(t, x)
        /\ ~Posting(t, x)' /\ ~Posting(t, x)
    BY <1>1, <1>2, <1>4, <1>7 DEF OwnsPacket, Posting, ControlFlow
  <2>3. /\ Cardinality(PacketRefs(x)') = Cardinality(PacketRefs(x))
        /\ Cardinality(PostRefs(x)') = Cardinality(PostRefs(x))
    BY <1>3, <2>2, ThreadRefs, NoneLeft DEF Bit
  <2> QED  BY <2>1, <2>3 DEF LifetimeInv, RefCount
<1>15. NoUseAfterFree'
  <2> SUFFICES ASSUME NEW u \in Thread, pc'[u] \notin Idle,
                      ~(u = Acceptor /\ pc'[u] = "abandon")
               PROVE  mem'[cur'[u]] = "live"
    BY DEF NoUseAfterFree
  <2>1. u # t
    BY <1>4, <1>7
  <2>2. /\ pc[u] \notin Idle /\ ~(u = Acceptor /\ pc[u] = "abandon")
        /\ cur'[u] = cur[u] /\ cur[u] \in Session
    BY <1>1, <1>3, <2>1 DEF OthersSame, ControlFlow
  <2>3. mem[cur[u]] = "live" /\ cur[u] # s
    BY <1>6, <2>1, <2>2 DEF LifetimeInv, NoUseAfterFree, Alone, Uses
  <2> QED  BY <1>9, <2>2, <2>3
<1> QED
  BY <1>5, <1>8, <1>10, <1>11, <1>12, <1>13, <1>14, <1>15 DEF LifetimeInv

(* The clean-up finds the session deleted: the process dies. *)
LEMMA QuietAbort ==
  ASSUME LifetimeInv, NEW t \in Thread, Abandon(t), mem[cur[t]] # "live"
  PROVE  Quiet(t) /\ ControlFlow'
<1>1. UNCHANGED <<pc, ret, cur, sending, io, io_count, mem>> /\ ControlFlow
  BY DEF Abandon, syncVars, ioVars, LifetimeInv
<1> QED
  BY <1>1 DEF Quiet, Calm, OthersSame, Exclusive, RecvToken, SendToken,
              OwnsPacket, Posting, ControlFlow

(* A new Session is the accept thread's alone. *)
LEMMA AcceptedClient ==
  ASSUME LifetimeInv, NEW t \in Thread, AcceptClient(t)
  PROVE  LifetimeInv'
<1> USE DEF At, Goto, Idle, Fresh, Reaping
<1>1. /\ pc \in [Thread -> Label] /\ ret \in [Thread -> Return]
      /\ cur \in [Thread -> Session \cup {NoSession}] /\ ControlFlow
      /\ mem \in [Session -> {"none", "live", "freed"}]
  BY DEF LifetimeInv, ControlTypeOK
<1>2. PICK s \in Session :
         /\ UNCHANGED <<ret, sending, io, io_count>>
         /\ pc[t] = "accept" /\ pc' = [pc EXCEPT ![t] = "emplace"]
         /\ cur' = [cur EXCEPT ![t] = s]
         /\ mem[s] = "none" /\ mem' = [mem EXCEPT ![s] = "live"]
  BY DEF AcceptClient, syncVars, ioVars
<1>3. OthersSame(t)
  BY <1>1, <1>2 DEF OthersSame
<1>4. t = Acceptor /\ t \notin Worker
  BY <1>1, <1>2 DEF ControlFlow, Thread
<1>5. ControlTypeOK'
  BY ControlTypeThread DEF LifetimeInv, ThreadStep, AcceptStep
<1>6. ControlFlow'
  BY <1>1, <1>2, <1>4 DEF ControlFlow, Thread
<1>7. \A x \in Session : mem'[x] = IF x = s THEN "live" ELSE mem[x]
  BY <1>1, <1>2
<1>8. pc'[t] = "emplace" /\ cur'[t] = s
  BY <1>1, <1>2
<1>9. IoRefs(s) = {} /\ \A u \in Thread : ~Uses(u, s)
  <2>1. \A u \in Thread : Uses(u, s) => u = Acceptor /\ pc[u] = "abandon"
    BY <1>2 DEF LifetimeInv, NoUseAfterFree, Uses
  <2> QED  BY <1>2, <1>4, <2>1 DEF LifetimeInv
<1>10. OneRecv'
  <2>1. \A u \in Thread, x \in Session : RecvToken(u, x)' => RecvToken(u, x)
    BY <1>3, <1>8 DEF OthersSame, RecvToken
  <2> QED  BY <1>2, <2>1 DEF LifetimeInv, OneRecv
<1>11. OneSend'
  <2>1. \A u \in Thread, x \in Session : SendToken(u, x)' => SendToken(u, x)
    BY <1>3, <1>8 DEF OthersSame, SendToken
  <2> QED  BY <1>2, <2>1 DEF LifetimeInv, OneSend
<1>12. \A u \in Thread : Exclusive(u)' => Alone(u)'
  <2> SUFFICES ASSUME NEW u \in Thread, Exclusive(u)' PROVE Alone(u)'
    OBVIOUS
  <2>1. CASE u = t
    BY <1>2, <1>3, <1>7, <1>8, <1>9, <2>1 DEF Alone, IoRefs, Uses, OthersSame
  <2>2. CASE u # t
    <3>1. pc'[u] = pc[u] /\ cur'[u] = cur[u] /\ Exclusive(u) /\ cur[u] \in Session
      BY <1>1, <1>3, <1>4, <2>2 DEF OthersSame, Exclusive, ControlFlow
    <3>2. Alone(u) /\ cur[u] # s
      BY <1>2, <3>1 DEF LifetimeInv, Alone
    <3>3. \A v \in Thread : Uses(v, cur[u])' => Uses(v, cur[u])
      BY <1>3, <1>8, <3>1, <3>2 DEF OthersSame, Uses
    <3> QED  BY <1>2, <1>7, <3>1, <3>2, <3>3 DEF Alone, IoRefs
  <2> QED  BY <2>1, <2>2
<1>13. \A x \in Session : IoRefs(x)' # {} => mem'[x] = "live"
  BY <1>2, <1>7 DEF LifetimeInv, IoRefs
<1>14. RefCount'
  <2> SUFFICES ASSUME NEW x \in Session
               PROVE  (io_count[x] = Cardinality(IoRefs(x)) + Cardinality(PacketRefs(x))
                                     + Cardinality(PostRefs(x)))'
    BY DEF RefCount
  <2>1. IoRefs(x)' = IoRefs(x) /\ io_count'[x] = io_count[x]
    BY <1>2 DEF IoRefs
  <2>2. /\ ~OwnsPacket(t, x)' /\ ~OwnsPacket(t, x)
        /\ ~Posting(t, x)' /\ ~Posting(t, x)
    BY <1>2, <1>4, <1>8 DEF OwnsPacket, Posting
  <2>3. /\ Cardinality(PacketRefs(x)') = Cardinality(PacketRefs(x))
        /\ Cardinality(PostRefs(x)') = Cardinality(PostRefs(x))
    BY <1>3, <2>2, ThreadRefs, NoneLeft DEF Bit
  <2> QED  BY <2>1, <2>3 DEF LifetimeInv, RefCount
<1>15. NoUseAfterFree'
  <2> SUFFICES ASSUME NEW u \in Thread, pc'[u] \notin Idle,
                      ~(u = Acceptor /\ pc'[u] = "abandon")
               PROVE  mem'[cur'[u]] = "live"
    BY DEF NoUseAfterFree
  <2>1. CASE u = t
    BY <1>7, <1>8, <2>1
  <2>2. CASE u # t
    <3>1. cur'[u] = cur[u] /\ pc'[u] = pc[u] /\ cur[u] \in Session
      BY <1>1, <1>3, <2>2 DEF OthersSame, ControlFlow
    <3> QED  BY <1>7, <3>1 DEF LifetimeInv, NoUseAfterFree
  <2> QED  BY <2>1, <2>2
<1> QED
  BY <1>5, <1>6, <1>10, <1>11, <1>12, <1>13, <1>14, <1>15 DEF LifetimeInv

(* The port hands a completed operation to a worker, and the operation's  *)
(* reference becomes the worker's.                                        *)
LEMMA Dequeued ==
  ASSUME LifetimeInv, NEW t \in Thread, DequeuePacket(t)
  PROVE  LifetimeInv'
<1> USE DEF At, Goto, Idle, Fresh, Reaping
<1>1. /\ pc \in [Thread -> Label] /\ ret \in [Thread -> Return]
      /\ cur \in [Thread -> Session \cup {NoSession}] /\ ControlFlow
      /\ io \in [Session -> [Op -> {"idle", "posted", "done"}]]
      /\ sending \in [Session -> {0, 1}]
  BY DEF LifetimeInv, ControlTypeOK
<1>2. PICK s \in Session, op \in Op, l \in {"dec", "recv_lock", "send_lock"} :
         /\ UNCHANGED <<ret, sending, io_count, mem>>
         /\ io[s][op] = "done" /\ io' = [io EXCEPT ![s][op] = "idle"]
         /\ pc[t] = "wait" /\ pc' = [pc EXCEPT ![t] = l]
         /\ l = "recv_lock" => op = "recv"
         /\ l = "send_lock" => op = "send"
         /\ cur' = [cur EXCEPT ![t] = s]
  BY DEF DequeuePacket, objVars, syncVars, Op
<1>3. OthersSame(t)
  BY <1>1, <1>2 DEF OthersSame
<1>4. t \in Worker /\ t # Acceptor /\ ret[t] = "loop"
  BY <1>1, <1>2 DEF ControlFlow, Thread
<1>5. ControlTypeOK'
  BY ControlTypeThread DEF LifetimeInv, ThreadStep, WorkerStep
<1>6. ControlFlow'
  <2>1. WorkerFlow(t)'
    BY <1>1, <1>2, <1>4 DEF WorkerFlow
  <2> QED  BY <1>1, <1>3, <1>4, <2>1, WorkerFlowStep
<1>7. pc'[t] = l /\ cur'[t] = s /\ ret'[t] = "loop"
  BY <1>1, <1>2, <1>4
<1>8. \A x \in Session, o \in Op :
         io'[x][o] = IF x = s /\ o = op THEN "idle" ELSE io[x][o]
  BY <1>1, <1>2
<1>9. op \in IoRefs(s)
  BY <1>2 DEF IoRefs
<1>10. OneRecv'
  <2> SUFFICES ASSUME NEW x \in Session, NEW u \in Thread, RecvToken(u, x)'
               PROVE  /\ io'[x]["recv"] = "idle"
                      /\ \A v \in Thread \ {u} : ~RecvToken(v, x)'
    BY DEF OneRecv
  <2>1. \A v \in Thread \ {t} : RecvToken(v, x)' <=> RecvToken(v, x)
    BY <1>3 DEF OthersSame, RecvToken
  <2>2. RecvToken(t, x)' => x = s /\ op = "recv"
    BY <1>2, <1>7 DEF RecvToken
  <2>3. \A v \in Thread : RecvToken(v, x) =>
            io[x]["recv"] = "idle" /\ \A w \in Thread \ {v} : ~RecvToken(w, x)
    BY DEF LifetimeInv, OneRecv
  <2>4. x = s /\ op = "recv" => \A v \in Thread : ~RecvToken(v, x)
    BY <1>2, <2>3
  <2> QED  BY <1>8, <2>1, <2>2, <2>3, <2>4 DEF Op
<1>11. OneSend'
  <2> SUFFICES ASSUME NEW x \in Session
               PROVE  /\ sending'[x] = 0 => io'[x]["send"] = "idle"
                      /\ \A u \in Thread :
                           SendToken(u, x)' => /\ sending'[x] = 1
                                               /\ io'[x]["send"] = "idle"
                                               /\ \A v \in Thread \ {u} : ~SendToken(v, x)'
    BY DEF OneSend
  <2>1. \A v \in Thread \ {t} : SendToken(v, x)' <=> SendToken(v, x)
    BY <1>3 DEF OthersSame, SendToken
  <2>2. SendToken(t, x)' => x = s /\ op = "send"
    BY <1>2, <1>7 DEF SendToken
  <2>3. /\ sending[x] = 0 => io[x]["send"] = "idle"
        /\ \A u \in Thread :
              SendToken(u, x) => /\ sending[x] = 1
                                 /\ io[x]["send"] = "idle"
                                 /\ \A v \in Thread \ {u} : ~SendToken(v, x)
    BY DEF LifetimeInv, OneSend
  <2>4. x = s /\ op = "send" => sending[x] = 1 /\ \A v \in Thread : ~SendToken(v, x)
    BY <1>1, <1>2, <2>3
  <2> QED  BY <1>2, <1>8, <2>1, <2>2, <2>3, <2>4 DEF Op
<1>12. \A u \in Thread : Exclusive(u)' => Alone(u)'
  <2> SUFFICES ASSUME NEW u \in Thread, Exclusive(u)' PROVE Alone(u)'
    OBVIOUS
  <2>1. u # t
    BY <1>4, <1>7 DEF Exclusive
  <2>2. pc'[u] = pc[u] /\ cur'[u] = cur[u] /\ Exclusive(u) /\ cur[u] \in Session
    BY <1>1, <1>2, <1>3, <2>1 DEF OthersSame, Exclusive, ControlFlow
  <2>3. Alone(u) /\ cur[u] # s
    BY <1>9, <2>2 DEF LifetimeInv, Alone
  <2>4. \A v \in Thread : Uses(v, cur[u])' => Uses(v, cur[u])
    BY <1>3, <1>7, <2>2, <2>3 DEF OthersSame, Uses
  <2> QED  BY <1>2, <1>8, <2>2, <2>3, <2>4 DEF Alone, IoRefs
<1>13. \A x \in Session : IoRefs(x)' # {} => mem'[x] = "live"
  <2>1. \A x \in Session : IoRefs(x)' # {} => IoRefs(x) # {}
    BY <1>8 DEF IoRefs
  <2> QED  BY <1>2, <2>1 DEF LifetimeInv
<1>14. RefCount'
  <2> SUFFICES ASSUME NEW x \in Session
               PROVE  (io_count[x] = Cardinality(IoRefs(x)) + Cardinality(PacketRefs(x))
                                     + Cardinality(PostRefs(x)))'
    BY DEF RefCount
  <2>1. io_count'[x] = Cardinality(IoRefs(x)) + Cardinality(PacketRefs(x))
                       + Cardinality(PostRefs(x))
    BY <1>2 DEF LifetimeInv, RefCount
  <2>2. /\ OwnsPacket(t, x)' <=> x = s
        /\ ~OwnsPacket(t, x) /\ ~Posting(t, x)' /\ ~Posting(t, x)
    BY <1>2, <1>4, <1>7 DEF OwnsPacket, Posting
  <2>3. /\ Cardinality(PacketRefs(x)') = Cardinality(PacketRefs(x)) + Bit(x = s)
        /\ Cardinality(PostRefs(x)') = Cardinality(PostRefs(x))
    BY <1>3, <2>2, ThreadRefs, NoneLeft DEF Bit
  <2>4. Cardinality(IoRefs(x)') = Cardinality(IoRefs(x)) - Bit(x = s)
    <3>1. CASE x = s
      <4>1. \A o \in Op \ {op} : io'[x][o] = io[x][o]
        BY <1>8
      <4>2. io'[x][op] = "idle" /\ io[x][op] # "idle"
        BY <1>2, <1>8, <3>1
      <4> QED  BY <3>1, <4>1, <4>2, IoRefsChange, NoneLeft DEF Bit
    <3>2. CASE x # s
      <4>1. IoRefs(x)' = IoRefs(x)
        BY <1>8, <3>2 DEF IoRefs
      <4> QED  BY <3>2, <4>1, NoneLeft DEF Bit
    <3> QED  BY <3>1, <3>2
  <2> QED  BY <2>1, <2>3, <2>4, NoneLeft DEF Bit
<1>15. NoUseAfterFree'
  <2>1. mem[s] = "live"
    BY <1>9 DEF LifetimeInv
  <2> QED  BY <1>2, <1>3, <1>7, <2>1 DEF LifetimeInv, NoUseAfterFree, OthersSame
<1> QED
  BY <1>5, <1>6, <1>10, <1>11, <1>12, <1>13, <1>14, <1>15 DEF LifetimeInv

(* InterlockedCompareExchange(&session->sending, 1, 0) gives 0: no other  *)
(* thread is sending, and no send is outstanding.                         *)
LEMMA SendStarted ==
  ASSUME LifetimeInv, NEW t \in Thread, Echo(t) \/ Recheck(t), pc'[t] = "sendpost"
  PROVE  LifetimeInv'
<1> DEFINE s == cur[t]
<1> USE DEF At, Goto, Idle, Fresh, Reaping
<1>1. /\ pc \in [Thread -> Label] /\ ret \in [Thread -> Return]
      /\ cur \in [Thread -> Session \cup {NoSession}] /\ ControlFlow
      /\ sending \in [Session -> {0, 1}]
  BY DEF LifetimeInv, ControlTypeOK
<1>2. /\ UNCHANGED <<cur, io, io_count, mem>>
      /\ sending[s] = 0 /\ sending' = [sending EXCEPT ![s] = 1]
      /\ pc' = [pc EXCEPT ![t] = "sendpost"]
      /\ \/ pc[t] = "echo" /\ ret' = [ret EXCEPT ![t] = "unsend"]
         \/ pc[t] = "recheck" /\ UNCHANGED ret
  <2>1. CASE Echo(t)
    <3>1. pc[t] = "echo" /\ UNCHANGED <<cur, io, io_count, mem>>
      BY <2>1 DEF Echo, ioVars, objVars
    <3>2. pc' # pc /\ pc' # [pc EXCEPT ![t] = "leave"]
      BY <1>1, <3>1
    <3>3. /\ sending' = [sending EXCEPT ![s] = 1]
          /\ ret' = [ret EXCEPT ![t] = "unsend"]
          /\ pc' = [pc EXCEPT ![t] = IF SendStarts(s) THEN "sendpost" ELSE "leave"]
      BY <2>1, <3>2, Zenon DEF Echo
    <3> QED  BY <1>1, <3>1, <3>3 DEF SendStarts
  <2>2. CASE Recheck(t)
    <3>1. /\ pc[t] = "recheck" /\ UNCHANGED <<cur, ret, io, io_count, mem>>
          /\ pc' = [pc EXCEPT ![t] = IF send_buffer[s] # << >> /\ SendStarts(s)
                                     THEN "sendpost" ELSE "leave"]
          /\ sending' = [sending EXCEPT ![s] = IF send_buffer[s] # << >> /\ SendStarts(s)
                                               THEN 1 ELSE @]
      BY <2>2 DEF Recheck, ioVars, objVars
    <3>2. send_buffer[s] # << >> /\ SendStarts(s)
      BY <1>1, <3>1
    <3> QED  BY <1>1, <3>1, <3>2 DEF SendStarts
  <2> QED  BY <2>1, <2>2
<1>3. OthersSame(t)
  BY <1>1, <1>2 DEF OthersSame
<1>4. t \in Worker /\ t # Acceptor /\ s \in Session
  BY <1>1, <1>2 DEF ControlFlow, Thread
<1>5. ControlTypeOK'
  BY ControlTypeThread DEF LifetimeInv, ThreadStep, WorkerStep
<1>6. ControlFlow'
  <2>1. WorkerFlow(t)'
    BY <1>1, <1>2, <1>4 DEF WorkerFlow, ControlFlow
  <2> QED  BY <1>1, <1>3, <1>4, <2>1, WorkerFlowStep
<1>7. pc'[t] = "sendpost" /\ cur'[t] = s
  BY <1>1, <1>2
<1>8. OneRecv'
  <2>1. \A u \in Thread, x \in Session : RecvToken(u, x)' => RecvToken(u, x)
    BY <1>3, <1>7 DEF OthersSame, RecvToken
  <2> QED  BY <1>2, <2>1 DEF LifetimeInv, OneRecv
<1>9. OneSend'
  <2> SUFFICES ASSUME NEW x \in Session
               PROVE  /\ sending'[x] = 0 => io'[x]["send"] = "idle"
                      /\ \A u \in Thread :
                           SendToken(u, x)' => /\ sending'[x] = 1
                                               /\ io'[x]["send"] = "idle"
                                               /\ \A v \in Thread \ {u} : ~SendToken(v, x)'
    BY DEF OneSend
  <2>1. \A v \in Thread \ {t} : SendToken(v, x)' <=> SendToken(v, x)
    BY <1>3 DEF OthersSame, SendToken
  <2>2. SendToken(t, x)' <=> x = s
    BY <1>7 DEF SendToken
  <2>3. /\ sending[x] = 0 => io[x]["send"] = "idle"
        /\ \A u \in Thread :
              SendToken(u, x) => /\ sending[x] = 1
                                 /\ io[x]["send"] = "idle"
                                 /\ \A v \in Thread \ {u} : ~SendToken(v, x)
    BY DEF LifetimeInv, OneSend
  <2>4. sending'[x] = IF x = s THEN 1 ELSE sending[x]
    BY <1>1, <1>2
  <2> QED  BY <1>2, <2>1, <2>2, <2>3, <2>4
<1>10. \A u \in Thread : Exclusive(u)' => Alone(u)'
  <2> SUFFICES ASSUME NEW u \in Thread, Exclusive(u)' PROVE Alone(u)'
    OBVIOUS
  <2>1. u # t
    BY <1>4, <1>7 DEF Exclusive
  <2>2. cur'[u] = cur[u] /\ Exclusive(u)
    BY <1>2, <1>3, <2>1 DEF OthersSame, Exclusive
  <2>3. \A v \in Thread : \A x : Uses(v, x)' => Uses(v, x)
    BY <1>2, <1>3, <1>7 DEF OthersSame, Uses
  <2> QED  BY <1>2, <2>2, <2>3 DEF LifetimeInv, Alone, IoRefs
<1>11. \A x \in Session : IoRefs(x)' # {} => mem'[x] = "live"
  BY <1>2 DEF LifetimeInv, IoRefs
<1>12. RefCount'
  <2> SUFFICES ASSUME NEW x \in Session
               PROVE  (io_count[x] = Cardinality(IoRefs(x)) + Cardinality(PacketRefs(x))
                                     + Cardinality(PostRefs(x)))'
    BY DEF RefCount
  <2>1. IoRefs(x)' = IoRefs(x) /\ io_count'[x] = io_count[x]
    BY <1>2 DEF IoRefs
  <2>2. /\ OwnsPacket(t, x)' <=> OwnsPacket(t, x)
        /\ ~Posting(t, x)' /\ ~Posting(t, x)
    BY <1>2, <1>7 DEF OwnsPacket, Posting
  <2>3. /\ Cardinality(PacketRefs(x)') = Cardinality(PacketRefs(x))
        /\ Cardinality(PostRefs(x)') = Cardinality(PostRefs(x))
    BY <1>3, <2>2, ThreadRefs, NoneLeft DEF Bit
  <2> QED  BY <2>1, <2>3 DEF LifetimeInv, RefCount
<1>13. NoUseAfterFree'
  BY <1>2, <1>3, <1>7 DEF LifetimeInv, NoUseAfterFree, OthersSame
<1> QED
  BY <1>5, <1>6, <1>8, <1>9, <1>10, <1>11, <1>12, <1>13 DEF LifetimeInv

(***************************************************************************)
(* Steps of main() and of the kernel                                       *)
(***************************************************************************)

LEMMA StartedThread ==
  ASSUME LifetimeInv, ControlTypeOK', NEW t \in Thread, pc[t] = "none",
         pc' = [pc EXCEPT ![t] = "loop"],
         UNCHANGED <<cur, ret, sending, io, io_count, mem>>
  PROVE  LifetimeInv'
<1> USE DEF Idle, Fresh, Reaping
<1>1. /\ pc \in [Thread -> Label] /\ ControlFlow
      /\ pc'[t] = "loop"
  BY DEF LifetimeInv, ControlTypeOK
<1>2. OthersSame(t)
  BY <1>1 DEF OthersSame
<1>3. ControlFlow'
  BY <1>1, <1>2 DEF ControlFlow, Thread
<1>4. Quiet(t)
  BY <1>1, <1>2 DEF Quiet, Calm, Exclusive, RecvToken, SendToken, OwnsPacket, Posting
<1> QED  BY <1>3, <1>4, QuietStep

LEMMA SameThreads ==
  ASSUME LifetimeInv, ControlTypeOK',
         UNCHANGED <<pc, cur, ret, sending, io, io_count, mem>>
  PROVE  LifetimeInv'
<1>1. ControlFlow'
  BY DEF LifetimeInv, ControlFlow
<1>2. Quiet(Acceptor)
  BY DEF Quiet, Calm, OthersSame, Exclusive, RecvToken, SendToken, OwnsPacket, Posting
<1> QED  BY <1>1, <1>2, QuietStep DEF Thread

(* No step is a thread's before main() has made the thread. *)
LEMMA ThreadMoves ==
  ASSUME NEW t \in Thread, ThreadStep(t)
  PROVE  /\ main_pc' = main_pc /\ pc[t] # "none"
         /\ pc' = pc \/ \E l : pc' = [pc EXCEPT ![t] = l]
<1> USE DEF At, Goto, mainVars
<1>1. CASE LoopTop(t) \/ Decrement(t) \/ Erase(t) \/ Drain(t) \/ Reap(t)
  BY <1>1 DEF LoopTop, Decrement, Erase, Drain, Reap
<1>2. CASE RecvPost(t)
  <2>1. main_pc' = main_pc /\ pc[t] # "none"
    BY <1>2 DEF RecvPost
  <2>2. pc' = pc \/ \E l : pc' = [pc EXCEPT ![t] = l]
    BY <1>2, Zenon DEF RecvPost
  <2> QED  BY <2>1, <2>2
<1>3. CASE WSARecv(t) \/ WSASend(t)
  <2>1. main_pc' = main_pc /\ pc[t] # "none"
    BY <1>3 DEF WSARecv, WSASend
  <2>2. pc' = pc \/ \E l : pc' = [pc EXCEPT ![t] = l]
    BY <1>3, Zenon DEF WSARecv, WSASend, Submit
  <2> QED  BY <2>1, <2>2
<1>4. CASE AcceptStep(t)
  BY <1>4 DEF AcceptStep, AcceptClient, AcceptNothing, Emplace, Associate, Abandon
<1>5. CASE DequeueNull(t) \/ DequeuePacket(t) \/ EnterRecv(t) \/ EnterSend(t)
           \/ Unsend(t) \/ Recheck(t) \/ Leave(t)
  BY <1>5 DEF DequeueNull, DequeuePacket, EnterRecv, EnterSend, Unsend, Recheck, Leave
<1>6. CASE Echo(t) \/ SendPost(t)
  <2>1. main_pc' = main_pc /\ pc[t] # "none"
    BY <1>6 DEF Echo, SendPost
  <2>2. pc' = pc \/ \E l : pc' = [pc EXCEPT ![t] = l]
    BY <1>6, Zenon DEF Echo, SendPost
  <2> QED  BY <2>1, <2>2
<1> QED
  BY <1>1, <1>2, <1>3, <1>4, <1>5, <1>6 DEF ThreadStep, WorkerStep

NotYetSpawned ==
    main_pc \in {"start", "spawn_accept"} => pc[Acceptor] = "none"

LEMMA NotYetSpawnedCorrect == Spec => []NotYetSpawned
<1>1. Init => NotYetSpawned
  BY DEF Init, NotYetSpawned, Thread
<1>2. NotYetSpawned /\ ControlTypeOK /\ [Next]_vars => NotYetSpawned'
  <2> SUFFICES ASSUME NotYetSpawned, ControlTypeOK, [Next]_vars PROVE NotYetSpawned'
    OBVIOUS
  <2>1. CASE Main
    <3>1. CASE SpawnAccept \/ SpawnWorker
      BY <3>1 DEF NotYetSpawned, SpawnAccept, SpawnWorker, SpawnFails
    <3>2. CASE ~(SpawnAccept \/ SpawnWorker)
      BY <2>1, <3>2 DEF NotYetSpawned, Main, Start, Shutdown, CloseListenSock, PostNulls,
                        Join, Exit, threadVars
    <3> QED  BY <3>1, <3>2
  <2>2. CASE \E t \in Thread : ThreadStep(t)
    <3>1. PICK t \in Thread : ThreadStep(t)  BY <2>2
    <3>2. /\ main_pc' = main_pc /\ pc[t] # "none"
          /\ pc' = pc \/ \E l : pc' = [pc EXCEPT ![t] = l]
      BY <3>1, ThreadMoves
    <3> QED  BY <3>2 DEF NotYetSpawned, ControlTypeOK, Thread
  <2>3. CASE \E s \in Session : Kernel(s)
    BY <2>3 DEF NotYetSpawned, Kernel, KernelRecv, KernelEof, KernelSend, KernelFail,
                mainVars, threadVars
  <2>4. CASE UNCHANGED vars
    BY <2>4 DEF NotYetSpawned, vars, mainVars, threadVars
  <2> QED  BY <2>1, <2>2, <2>3, <2>4 DEF Next, Terminated
<1> QED  BY <1>1, <1>2, ControlTypeCorrect, PTL DEF Spec

LEMMA MainKeeps ==
  ASSUME LifetimeInv, NotYetSpawned, Main
  PROVE  LifetimeInv'
<1>1. ControlTypeOK'
  BY ControlTypeMain DEF LifetimeInv
<1>2. UNCHANGED <<cur, ret, sending, io, io_count, mem>>
  BY DEF Main, Start, SpawnAccept, SpawnWorker, Shutdown, CloseListenSock, PostNulls,
         Join, Exit, threadVars, syncVars, objVars, ioVars
<1>3. pc' = pc \/ \E t \in Thread : pc[t] = "none" /\ pc' = [pc EXCEPT ![t] = "loop"]
  BY DEF NotYetSpawned, Main, Start, SpawnAccept, SpawnWorker, SpawnFails, Shutdown,
         CloseListenSock, PostNulls, Join, Exit, threadVars, Goto, Thread
<1> QED  BY <1>1, <1>2, <1>3, StartedThread, SameThreads

(* The kernel completes an operation, which keeps its reference. *)
LEMMA KernelKeeps ==
  ASSUME LifetimeInv, NEW s \in Session, Kernel(s)
  PROVE  LifetimeInv'
<1>1. ControlTypeOK'
  BY ControlTypeKernel DEF LifetimeInv
<1>2. UNCHANGED <<pc, cur, ret, sending, io_count, mem>>
  BY DEF Kernel, KernelRecv, KernelEof, KernelSend, KernelFail, threadVars, syncVars, objVars
<1>3. \E op \in Op : io[s][op] = "posted" /\ io' = [io EXCEPT ![s][op] = "done"]
  BY DEF Kernel, KernelRecv, KernelEof, KernelSend, KernelFail, Complete, Op
<1>4. \A x \in Session, o \in Op : io'[x][o] = "idle" <=> io[x][o] = "idle"
  BY <1>3 DEF LifetimeInv, ControlTypeOK
<1>5. \A x \in Session : IoRefs(x)' = IoRefs(x)
  BY <1>4 DEF IoRefs
<1>6. ControlFlow'
  BY <1>2 DEF LifetimeInv, ControlFlow
<1>7. OneRecv'
  BY <1>2, <1>4 DEF LifetimeInv, OneRecv, RecvToken, Op
<1>8. OneSend'
  BY <1>2, <1>4 DEF LifetimeInv, OneSend, SendToken, Op
<1>9. \A t \in Thread : Exclusive(t)' => Alone(t)'
  <2> SUFFICES ASSUME NEW t \in Thread, Exclusive(t)' PROVE Alone(t)'
    OBVIOUS
  <2>1. Exclusive(t) /\ cur[t] \in Session /\ cur'[t] = cur[t]
    BY <1>2 DEF Exclusive, LifetimeInv, ControlFlow, Idle, Fresh, Reaping
  <2> QED  BY <1>2, <1>5, <2>1 DEF LifetimeInv, Alone, Uses
<1>10. \A x \in Session : IoRefs(x)' # {} => mem'[x] = "live"
  BY <1>2, <1>5 DEF LifetimeInv
<1>11. RefCount'
  <2>1. \A x \in Session : PacketRefs(x)' = PacketRefs(x) /\ PostRefs(x)' = PostRefs(x)
    BY <1>2 DEF PacketRefs, PostRefs, OwnsPacket, Posting
  <2> QED  BY <1>2, <1>5, <2>1 DEF LifetimeInv, RefCount
<1>12. NoUseAfterFree'
  BY <1>2 DEF LifetimeInv, NoUseAfterFree
<1> QED
  BY <1>1, <1>6, <1>7, <1>8, <1>9, <1>10, <1>11, <1>12 DEF LifetimeInv

(***************************************************************************)
(* The invariant                                                           *)
(***************************************************************************)

LEMMA LifetimeInit == Init => LifetimeInv
<1> SUFFICES ASSUME Init PROVE LifetimeInv  OBVIOUS
<1>1. /\ \A t \in Thread : pc[t] = "none" /\ ret[t] = "loop" /\ cur[t] = NoSession
      /\ \A s \in Session : io_count[s] = 0 /\ sending[s] = 0
      /\ \A s \in Session, op \in Op : io[s][op] = "idle"
  BY DEF Init
<1>2. ControlTypeOK
  BY ControlTypeInit
<1>3. ControlFlow /\ NoUseAfterFree /\ \A t \in Thread : ~Exclusive(t)
  BY <1>1 DEF ControlFlow, NoUseAfterFree, Exclusive, Idle, Fresh, Reaping, Thread
<1>4. \A t \in Thread, s \in Session :
         ~RecvToken(t, s) /\ ~SendToken(t, s) /\ ~OwnsPacket(t, s) /\ ~Posting(t, s)
  BY <1>1 DEF RecvToken, SendToken, OwnsPacket, Posting, Idle
<1>5. OneRecv /\ OneSend
  BY <1>1, <1>4 DEF OneRecv, OneSend, Op
<1>6. \A s \in Session : IoRefs(s) = {} /\ PacketRefs(s) = {} /\ PostRefs(s) = {}
  BY <1>1, <1>4 DEF IoRefs, PacketRefs, PostRefs
<1>7. RefCount
  BY <1>1, <1>6, FS_EmptySet DEF RefCount
<1> QED  BY <1>2, <1>3, <1>5, <1>6, <1>7 DEF LifetimeInv

LEMMA ThreadKeeps ==
  ASSUME LifetimeInv, NEW t \in Thread, ThreadStep(t)
  PROVE  LifetimeInv'
<1>1. ControlTypeOK'
  BY ControlTypeThread DEF LifetimeInv
<1>2. CASE Quiet(t) /\ ControlFlow'
  BY <1>1, <1>2, QuietStep
<1>3. CASE AcceptStep(t)
  BY <1>2, <1>3, QuietAccept, QuietAbort, AcceptedClient, Freed DEF AcceptStep
<1>4. CASE LoopTop(t) \/ DequeueNull(t)
  BY <1>2, <1>4, QuietAccept
<1>5. CASE Erase(t) \/ Drain(t) \/ Reap(t) \/ Decrement(t)
  BY <1>2, <1>5, QuietReap, Freed, Decremented
<1>6. CASE EnterRecv(t) \/ EnterSend(t) \/ Unsend(t) \/ Leave(t)
  BY <1>2, <1>6, QuietLock
<1>7. CASE RecvPost(t) \/ SendPost(t)
  BY <1>2, <1>7, QuietWorker, Posted
<1>8. CASE WSARecv(t) \/ WSASend(t)
  BY <1>2, <1>8, QuietRefused, Submitted
<1>9. CASE Echo(t) \/ Recheck(t)
  BY <1>2, <1>9, QuietWorker, SendStarted
<1>10. CASE DequeuePacket(t)
  BY <1>10, Dequeued
<1> QED
  BY <1>3, <1>4, <1>5, <1>6, <1>7, <1>8, <1>9, <1>10 DEF ThreadStep, WorkerStep

(* However the accept thread, any number of workers and the kernel          *)
(* interleave, and whatever fails: io_count counts what refers to a Session, *)
(* and a Session that something refers to has not been deleted.            *)
THEOREM LifetimeCorrect == Spec => []LifetimeInv
<1>1. LifetimeInv /\ NotYetSpawned /\ [Next]_vars => LifetimeInv'
  <2> SUFFICES ASSUME LifetimeInv, NotYetSpawned, [Next]_vars PROVE LifetimeInv'
    OBVIOUS
  <2>1. CASE Main  BY <2>1, MainKeeps
  <2>2. CASE \E t \in Thread : ThreadStep(t)  BY <2>2, ThreadKeeps
  <2>3. CASE \E s \in Session : Kernel(s)  BY <2>3, KernelKeeps
  <2>4. CASE UNCHANGED vars
    <3>1. UNCHANGED <<pc, cur, ret, sending, io, io_count, mem>>
      BY <2>4 DEF vars, threadVars, syncVars, objVars, ioVars
    <3>2. ControlTypeOK'
      BY <2>4 DEF vars, mainVars, threadVars, mapVars, objVars, syncVars, ioVars,
                  LifetimeInv, ControlTypeOK
    <3> QED  BY <3>1, <3>2, SameThreads
  <2> QED  BY <2>1, <2>2, <2>3, <2>4 DEF Next, Terminated
<1> QED  BY <1>1, LifetimeInit, NotYetSpawnedCorrect, PTL DEF Spec

(* io_count is the number of operations, packets and postings of a Session. *)
THEOREM RefCountCorrect == Spec => []RefCount
<1>1. LifetimeInv => RefCount  BY DEF LifetimeInv
<1> QED  BY <1>1, LifetimeCorrect, PTL

(* No thread touches a deleted Session, but for the accept thread's         *)
(* clean-up after its own recvpost() failed.                               *)
THEOREM NoUseAfterFreeCorrect == Spec => []NoUseAfterFree
<1>1. LifetimeInv => NoUseAfterFree  BY DEF LifetimeInv
<1> QED  BY <1>1, LifetimeCorrect, PTL
=============================================================================
