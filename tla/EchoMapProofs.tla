--------------------------- MODULE EchoMapProofs ---------------------------
(***************************************************************************)
(* Proofs about the session map of EchoServer, for any number of workers,  *)
(* sessions and session ids.                                               *)
(***************************************************************************)
EXTENDS EchoServerProofs

(***************************************************************************)
(* The inductive invariant                                                 *)
(***************************************************************************)

(* The sessions that were made, and those that are on the way out of the   *)
(* map or into it                                                          *)
Made == {s \in Session : mem[s] # "none"}
Leaving(s) == \E t \in Thread : cur[t] = s /\ pc[t] \in {"drain", "reap"}
Coming(s) == cur[Acceptor] = s /\ pc[Acceptor] = "emplace"

(* What the map has is live and not about to be deleted. *)
Entries ==
  \A i \in Sid : session_map[i] # NoSession =>
     /\ mem[session_map[i]] = "live" /\ sid[session_map[i]] = i
     /\ ~Leaving(session_map[i])

(* The ids do not wrap: each session has its own. *)
NoWrap == IsFiniteSet(Session) /\ Cardinality(Session) <= SidMod

Numbered ==
  /\ next_sid = Cardinality(Made) % SidMod
  /\ \A s \in Made : sid[s] < Cardinality(Made)
  /\ \A s, r \in Made : sid[s] = sid[r] => s = r

Listed ==
  \A s \in Session : mem[s] = "live" => session_map[sid[s]] = s \/ Leaving(s) \/ Coming(s)

MapInv == Entries /\ (NoWrap => Numbered /\ Listed)

(***************************************************************************)
(* Steps that leave the map and the sessions alone                         *)
(***************************************************************************)
Busy == {"emplace", "drain", "reap"}

LEMMA MapStill ==
  ASSUME MapInv, UNCHANGED <<session_map, next_sid, mem, sid>>, ControlTypeOK,
         \A s \in Session : (Leaving(s)' <=> Leaving(s)) /\ (Coming(s)' <=> Coming(s))
  PROVE  MapInv'
<1>1. Made' = Made  BY DEF Made
<1>2. Entries'  BY DEF MapInv, Entries, ControlTypeOK
<1>3. NoWrap => Numbered' /\ Listed'  BY <1>1 DEF MapInv, Numbered, Listed
<1> QED  BY <1>2, <1>3 DEF MapInv, NoWrap

(* A thread that is not at one of the labels that matter, before and after *)
LEMMA MapPassedBy ==
  ASSUME MapInv, UNCHANGED <<session_map, next_sid, mem, sid>>, ControlTypeOK,
         NEW t \in Thread, OthersSame(t), pc[t] \notin Busy, pc'[t] \notin Busy
  PROVE  MapInv'
<1>1. \A s \in Session : Leaving(s)' <=> Leaving(s)  BY DEF Leaving, OthersSame, Busy
<1>2. \A s \in Session : Coming(s)' <=> Coming(s)  BY DEF Coming, OthersSame, Busy, Thread
<1> QED  BY <1>1, <1>2, MapStill

LEMMA EntriesAfter ==
  ASSUME session_map' \in [Sid -> Session \cup {NoSession}],
         \A i \in Sid, r \in Session : session_map'[i] = r =>
            mem'[r] = "live" /\ sid'[r] = i /\ ~Leaving(r)'
  PROVE  Entries'
BY DEF Entries

(* What a thread has to itself no other thread is removing. *)
LEMMA NotLeaving ==
  ASSUME LifetimeInv, NEW t \in Thread, Exclusive(t), pc[t] \notin {"drain", "reap"}
  PROVE  cur[t] \in Session /\ mem[cur[t]] = "live" /\ ~Leaving(cur[t])
<1>1. Alone(t)  BY DEF LifetimeInv
<1>2. cur[t] \in Session
  BY DEF LifetimeInv, ControlFlow, Exclusive, Idle, Fresh, Reaping
<1> QED  BY <1>1, <1>2 DEF Alone, Uses, Leaving, Idle

LEMMA MapErased ==
  ASSUME LifetimeInv, MapInv, NEW t \in Thread, Erase(t)
  PROVE  MapInv'
<1> DEFINE s == cur[t]
<1>1. /\ session_map' = [session_map EXCEPT ![sid[s]] = NoSession]
      /\ pc[t] = "erase" /\ pc' = [pc EXCEPT ![t] = "drain"]
      /\ UNCHANGED <<cur, mem, sid, next_sid>>
  BY DEF Erase, At, Goto, Erased, objVars
<1>2. /\ pc \in [Thread -> Label] /\ session_map \in [Sid -> Session \cup {NoSession}]
      /\ sid \in [Session -> Sid]
  BY DEF LifetimeInv, ControlTypeOK
<1>3. s \in Session /\ mem[s] = "live"
  BY <1>1, NotLeaving DEF Exclusive, Reaping
<1>4. /\ \A r \in Session : Leaving(r)' <=> (Leaving(r) \/ r = s)
      /\ \A r \in Session : Coming(r)' <=> Coming(r)
  BY <1>1, <1>2 DEF Leaving, Coming, Thread
<1>5. Entries'
  <2>1. ASSUME NEW i \in Sid, NEW r \in Session, session_map'[i] = r
        PROVE  mem'[r] = "live" /\ sid'[r] = i /\ ~Leaving(r)'
    <3>1. i # sid[s] /\ session_map[i] = r  BY <1>1, <1>2, <2>1, SessionAssumption
    <3>2. mem[r] = "live" /\ sid[r] = i /\ ~Leaving(r)
      BY <3>1, SessionAssumption DEF MapInv, Entries
    <3> QED  BY <1>1, <1>4, <3>1, <3>2
  <2> QED  BY <1>1, <1>2, <2>1, EntriesAfter
<1>6. ASSUME NoWrap PROVE Numbered' /\ Listed'
  <2>1. Numbered /\ Listed  BY <1>6 DEF MapInv
  <2>2. Made' = Made  BY <1>1 DEF Made
  <2>3. ASSUME NEW r \in Session, mem[r] = "live"
        PROVE  session_map'[sid[r]] = r \/ Leaving(r)' \/ Coming(r)'
    <3>1. CASE r = s  BY <1>4, <3>1
    <3>2. CASE r # s
      <4>1. sid[r] # sid[s]  BY <1>3, <2>1, <2>3, <3>2 DEF Numbered, Made
      <4> QED  BY <1>1, <1>2, <1>4, <2>1, <2>3, <3>2, <4>1 DEF Listed
    <3> QED  BY <3>1, <3>2
  <2> QED  BY <1>1, <2>1, <2>2, <2>3 DEF Numbered, Listed
<1> QED  BY <1>5, <1>6 DEF MapInv, NoWrap

LEMMA MapDrained ==
  ASSUME LifetimeInv, MapInv, NEW t \in Thread, Drain(t)
  PROVE  MapInv'
<1>1. /\ pc[t] = "drain" /\ pc' = [pc EXCEPT ![t] = "reap"]
      /\ UNCHANGED <<session_map, cur, mem, sid, next_sid>>
  BY DEF Drain, At, Goto, objVars
<1>2. pc \in [Thread -> Label] /\ ControlTypeOK  BY DEF LifetimeInv, ControlTypeOK
<1>3. \A s \in Session : (Leaving(s)' <=> Leaving(s)) /\ (Coming(s)' <=> Coming(s))
  BY <1>1, <1>2 DEF Leaving, Coming, Thread
<1> QED  BY <1>1, <1>2, <1>3, MapStill

(* A session that is no longer in the map is deleted. *)
LEMMA MapFreed ==
  ASSUME LifetimeInv, MapInv, NEW t \in Thread, NEW s \in Session, s = cur[t],
         mem[s] = "live", \A u \in Thread \ {t} : ~Uses(u, s), pc[t] # "emplace",
         UNCHANGED <<cur, sid, next_sid>>, NEW label \in Label \ Busy,
         pc' = [pc EXCEPT ![t] = label], mem' = [mem EXCEPT ![s] = "freed"],
         \/ session_map' = session_map /\ pc[t] \in {"drain", "reap"}
         \/ session_map' = [session_map EXCEPT ![sid[s]] = NoSession]
  PROVE  MapInv'
<1>1. /\ pc \in [Thread -> Label] /\ session_map \in [Sid -> Session \cup {NoSession}]
      /\ sid \in [Session -> Sid] /\ mem \in [Session -> {"none", "live", "freed"}]
  BY DEF LifetimeInv, ControlTypeOK
<1>2. /\ \A r \in Session \ {s} : (Leaving(r)' <=> Leaving(r)) /\ (Coming(r)' <=> Coming(r))
      /\ \A r \in Session \ {s} : mem'[r] = mem[r]
      /\ mem'[s] = "freed"
  BY <1>1 DEF Leaving, Coming, Thread, Busy
<1>3. \A i \in Sid : session_map'[i] # NoSession =>
         session_map'[i] = session_map[i] /\ session_map[i] # s
  <2>1. \A i \in Sid : session_map[i] = s => sid[s] = i /\ ~Leaving(s)
    BY SessionAssumption DEF MapInv, Entries
  <2>2. pc[t] \in {"drain", "reap"} => Leaving(s)  BY DEF Leaving
  <2> QED  BY <1>1, <2>1, <2>2
<1>4. Entries'
  <2>1. ASSUME NEW i \in Sid, NEW r \in Session, session_map'[i] = r
        PROVE  mem'[r] = "live" /\ sid'[r] = i /\ ~Leaving(r)'
    <3>1. session_map[i] = r /\ r # s  BY <1>3, <2>1, SessionAssumption
    <3>2. mem[r] = "live" /\ sid[r] = i /\ ~Leaving(r)
      BY <3>1, SessionAssumption DEF MapInv, Entries
    <3> QED  BY <1>2, <3>1, <3>2
  <2> QED  BY <1>1, <2>1, EntriesAfter
<1>5. ASSUME NoWrap PROVE Numbered' /\ Listed'
  <2>1. Numbered /\ Listed  BY <1>5 DEF MapInv
  <2>2. Made' = Made  BY <1>1, <1>2 DEF Made
  <2>3. ASSUME NEW r \in Session, mem'[r] = "live"
        PROVE  session_map'[sid[r]] = r \/ Leaving(r)' \/ Coming(r)'
    <3>1. r # s /\ mem[r] = "live"  BY <1>1, <1>2, <2>3
    <3>2. sid[r] # sid[s]  BY <2>1, <3>1 DEF Numbered, Made
    <3>3. session_map'[sid[r]] = session_map[sid[r]]  BY <1>1, <3>2
    <3> QED  BY <1>2, <2>1, <3>1, <3>3 DEF Listed
  <2> QED  BY <2>1, <2>2, <2>3 DEF Numbered, Listed
<1> QED  BY <1>4, <1>5 DEF MapInv, NoWrap

LEMMA MapReaped ==
  ASSUME LifetimeInv, MapInv, NEW t \in Thread, Reap(t)
  PROVE  MapInv'
<1>1. /\ pc[t] = "reap" /\ pc' = [pc EXCEPT ![t] = ret[t]]
      /\ mem' = [mem EXCEPT ![cur[t]] = "freed"]
      /\ UNCHANGED <<session_map, cur, sid, next_sid>>
  BY DEF Reap, At, Goto, mapVars
<1>2. ret[t] \in Label \ Busy  BY DEF LifetimeInv, ControlTypeOK, Return, Label, Busy
<1>3. cur[t] \in Session /\ Alone(t)
  BY <1>1 DEF LifetimeInv, ControlFlow, Exclusive, Reaping, Idle
<1> QED  BY <1>1, <1>2, <1>3, MapFreed DEF Alone

LEMMA MapAbandoned ==
  ASSUME LifetimeInv, MapInv, NEW t \in Thread, Abandon(t)
  PROVE  MapInv'
<1>1. pc[t] = "abandon" /\ UNCHANGED <<cur, sid, next_sid>>
  BY DEF Abandon, At
<1>2. t = Acceptor  BY <1>1 DEF LifetimeInv, ControlFlow, Thread
<1>3. CASE mem[cur[t]] = "live"
  <2>1. /\ session_map' = [session_map EXCEPT ![sid[cur[t]]] = NoSession]
        /\ mem' = [mem EXCEPT ![cur[t]] = "freed"]
        /\ pc' = [pc EXCEPT ![t] = "loop"]
    BY <1>3 DEF Abandon, Erased, Goto
  <2>2. cur[t] \in Session /\ Alone(t)
    BY <1>1, <1>2, <1>3 DEF LifetimeInv, ControlFlow, Exclusive, Idle
  <2>3. "loop" \in Label \ Busy  BY DEF Label, Busy
  <2> QED  BY <1>1, <1>3, <2>1, <2>2, <2>3, MapFreed DEF Alone
<1>4. CASE mem[cur[t]] # "live"
  <2>1. UNCHANGED <<session_map, mem, pc>>  BY <1>4 DEF Abandon
  <2>2. \A s \in Session : (Leaving(s)' <=> Leaving(s)) /\ (Coming(s)' <=> Coming(s))
    BY <1>1, <2>1 DEF Leaving, Coming
  <2> QED  BY <1>1, <2>1, <2>2, MapStill DEF LifetimeInv
<1> QED  BY <1>3, <1>4

(* There is no memory for the entry, and the process ends. *)
LEMMA MapUnplaced ==
  ASSUME LifetimeInv, MapInv, NEW t \in Thread, Emplace(t), aborted' # aborted
  PROVE  MapInv'
<1>1. UNCHANGED <<session_map, next_sid, mem, sid, pc, cur>>
  BY DEF Emplace, objVars
<1>2. \A s \in Session : (Leaving(s)' <=> Leaving(s)) /\ (Coming(s)' <=> Coming(s))
  BY <1>1 DEF Leaving, Coming
<1> QED  BY <1>1, <1>2, MapStill DEF LifetimeInv

LEMMA MapEmplaced ==
  ASSUME LifetimeInv, MapInv, NEW t \in Thread, Emplace(t), aborted' = aborted
  PROVE  MapInv'
<1> DEFINE s == cur[t]
           entry == IF session_map[sid[s]] = NoSession THEN s ELSE session_map[sid[s]]
<1>1. /\ session_map' = [session_map EXCEPT ![sid[s]] = entry]
      /\ pc[t] = "emplace" /\ pc' = [pc EXCEPT ![t] = "associate"]
      /\ UNCHANGED <<cur, mem, sid, next_sid>>
  BY DEF Emplace, At, Up, OutOfMemory, Goto, objVars
<1>2. t = Acceptor  BY <1>1 DEF LifetimeInv, ControlFlow, Thread
<1>3. /\ pc \in [Thread -> Label] /\ session_map \in [Sid -> Session \cup {NoSession}]
      /\ sid \in [Session -> Sid]
  BY DEF LifetimeInv, ControlTypeOK
<1>4. s \in Session /\ mem[s] = "live" /\ ~Leaving(s)
  BY <1>1, <1>2, NotLeaving DEF Exclusive, Fresh
<1>5. /\ \A r \in Session : Leaving(r)' <=> Leaving(r)
      /\ \A r \in Session \ {s} : ~Coming(r) /\ ~Coming(r)'
  BY <1>1, <1>2, <1>3 DEF Leaving, Coming
<1>6. Entries'
  <2>1. ASSUME NEW i \in Sid, NEW r \in Session, session_map'[i] = r
        PROVE  mem'[r] = "live" /\ sid'[r] = i /\ ~Leaving(r)'
    <3>1. CASE session_map[i] = r
      <4>1. mem[r] = "live" /\ sid[r] = i /\ ~Leaving(r)
        BY <3>1, SessionAssumption DEF MapInv, Entries
      <4> QED  BY <1>1, <1>5, <4>1
    <3>2. CASE session_map[i] # r
      <4>1. i = sid[s] /\ r = s  BY <1>1, <1>3, <2>1, <3>2
      <4> QED  BY <1>1, <1>4, <1>5, <4>1
    <3> QED  BY <3>1, <3>2
  <2>2. session_map' \in [Sid -> Session \cup {NoSession}]  BY <1>1, <1>3, <1>4
  <2> QED  BY <2>1, <2>2, EntriesAfter
<1>7. ASSUME NoWrap PROVE Numbered' /\ Listed'
  <2>1. Numbered /\ Listed  BY <1>7 DEF MapInv
  <2>2. Made' = Made  BY <1>1 DEF Made
  <2>3. session_map'[sid[s]] = s
    <3>1. sid[s] \in Sid /\ session_map'[sid[s]] = entry  BY <1>1, <1>3, <1>4
    <3>2. ASSUME session_map[sid[s]] # NoSession PROVE session_map[sid[s]] = s
      <4> DEFINE r == session_map[sid[s]]
      <4>1. r \in Session /\ mem[r] = "live" /\ sid[r] = sid[s]
        BY <1>3, <3>1, <3>2 DEF MapInv, Entries
      <4> QED  BY <1>4, <2>1, <4>1 DEF Numbered, Made
    <3> QED  BY <3>1, <3>2
  <2>4. ASSUME NEW r \in Session, mem[r] = "live"
        PROVE  session_map'[sid[r]] = r \/ Leaving(r)' \/ Coming(r)'
    <3>1. CASE r = s  BY <2>3, <3>1
    <3>2. CASE r # s
      <4>1. sid[r] # sid[s]  BY <1>4, <2>1, <2>4, <3>2 DEF Numbered, Made
      <4> QED  BY <1>1, <1>3, <1>5, <2>1, <2>4, <3>2, <4>1 DEF Listed
    <3> QED  BY <3>1, <3>2
  <2> QED  BY <1>1, <2>1, <2>2, <2>4 DEF Numbered, Listed
<1> QED  BY <1>6, <1>7 DEF MapInv, NoWrap

(* The id of a new session is one more than the last, and that of no other *)
(* while the counter has not wrapped.                                      *)
LEMMA MapAccepted ==
  ASSUME LifetimeInv, MapInv, NEW t \in Thread, AcceptClient(t)
  PROVE  MapInv'
<1>1. PICK s \in Session :
        /\ mem[s] = "none" /\ mem' = [mem EXCEPT ![s] = "live"]
        /\ sid' = [sid EXCEPT ![s] = next_sid] /\ cur' = [cur EXCEPT ![t] = s]
  BY DEF AcceptClient
<1>2. /\ pc[t] = "accept" /\ pc' = [pc EXCEPT ![t] = "emplace"]
      /\ session_map' = session_map /\ next_sid' = (next_sid + 1) % SidMod
  BY DEF AcceptClient, At, Goto, NextSid
<1>3. t = Acceptor  BY <1>2 DEF LifetimeInv, ControlFlow, Thread
<1>4. /\ pc \in [Thread -> Label] /\ session_map \in [Sid -> Session \cup {NoSession}]
      /\ cur \in [Thread -> Session \cup {NoSession}]
      /\ sid \in [Session -> Sid] /\ mem \in [Session -> {"none", "live", "freed"}]
  BY DEF LifetimeInv, ControlTypeOK
<1>5. /\ \A r \in Session : Leaving(r)' <=> Leaving(r)
      /\ \A r \in Session \ {s} : ~Coming(r)
      /\ Coming(s)'
      /\ \A r \in Session \ {s} : mem'[r] = mem[r] /\ sid'[r] = sid[r]
  BY <1>1, <1>2, <1>3, <1>4 DEF Leaving, Coming, Thread
<1>6. Entries'
  <2>1. ASSUME NEW i \in Sid, NEW r \in Session, session_map'[i] = r
        PROVE  mem'[r] = "live" /\ sid'[r] = i /\ ~Leaving(r)'
    <3>1. mem[r] = "live" /\ sid[r] = i /\ ~Leaving(r)
      BY <1>2, <2>1, SessionAssumption DEF MapInv, Entries
    <3>2. r # s  BY <1>1, <3>1
    <3> QED  BY <1>5, <3>1, <3>2
  <2> QED  BY <1>2, <1>4, <2>1, EntriesAfter
<1>7. ASSUME NoWrap PROVE Numbered' /\ Listed'
  <2> DEFINE n == Cardinality(Made)
  <2>1. Numbered /\ Listed  BY <1>7 DEF MapInv
  <2>2. Made' = Made \cup {s} /\ s \notin Made  BY <1>1, <1>4 DEF Made
  <2>3. /\ IsFiniteSet(Made) /\ n \in Nat /\ Cardinality(Made') = n + 1
        /\ n < SidMod
    <3>1. IsFiniteSet(Session) /\ Cardinality(Session) <= SidMod  BY <1>7 DEF NoWrap
    <3>2. Made \subseteq Session  BY DEF Made
    <3>3. IsFiniteSet(Made) /\ n \in Nat /\ Cardinality(Session) \in Nat
      BY <3>1, <3>2, FS_Subset, FS_CardinalityType
    <3>4. Cardinality(Made') = n + 1  BY <2>2, <3>3, FS_AddElement
    <3>5. n + 1 <= Cardinality(Session)
      <4>1. Made' \subseteq Session  BY <2>2, <3>2
      <4> QED  BY <3>1, <3>4, <4>1, FS_Subset
    <3>6. SidMod \in Nat  BY NumberAssumption
    <3> HIDE DEF n
    <3> QED  BY <3>1, <3>3, <3>4, <3>5, <3>6
  <2> HIDE DEF n
  <2>4. next_sid = n
    <3>1. next_sid = n % SidMod  BY <2>1 DEF Numbered, n
    <3>2. \A a, b \in Nat : a < b => a % b = a  OBVIOUS
    <3> QED  BY <2>3, <3>1, <3>2, NumberAssumption
  <2>5. next_sid' = Cardinality(Made') % SidMod  BY <1>2, <2>3, <2>4
  <2>6. sid'[s] = n  BY <1>1, <1>4, <2>4
  <2>7. \A r \in Made : sid'[r] = sid[r] /\ sid[r] < n /\ sid[r] \in Nat
    <3>1. \A r \in Made : sid[r] < n  BY <2>1 DEF Numbered, n
    <3> QED  BY <1>4, <1>5, <2>2, <3>1 DEF Made, Sid
  <2>8. \A r \in Made' : sid'[r] < Cardinality(Made')
    BY <2>2, <2>3, <2>6, <2>7
  <2>9. ASSUME NEW r \in Made', NEW q \in Made', sid'[r] = sid'[q] PROVE r = q
    <3>1. CASE r \in Made /\ q \in Made  BY <2>1, <2>7, <2>9, <3>1 DEF Numbered
    <3>2. CASE r = s /\ q = s  BY <3>2
    <3>3. CASE r \in Made /\ q = s  BY <2>3, <2>6, <2>7, <2>9, <3>3
    <3>4. CASE r = s /\ q \in Made  BY <2>3, <2>6, <2>7, <2>9, <3>4
    <3> QED  BY <2>2, <3>1, <3>2, <3>3, <3>4
  <2>10. ASSUME NEW r \in Session, mem'[r] = "live"
         PROVE  session_map[sid'[r]] = r \/ Leaving(r)' \/ Coming(r)'
    <3>1. CASE r = s  BY <1>5, <3>1
    <3>2. CASE r # s  BY <1>5, <2>1, <2>10, <3>2 DEF Listed
    <3> QED  BY <3>1, <3>2
  <2> QED  BY <1>2, <2>5, <2>8, <2>9, <2>10 DEF Numbered, Listed
<1> QED  BY <1>6, <1>7 DEF MapInv, NoWrap

(***************************************************************************)
(* The other steps                                                         *)
(***************************************************************************)
LEMMA MapLooped ==
  ASSUME LifetimeInv, MapInv, NEW t \in Thread,
         \/ LoopTop(t) \/ AcceptNothing(t) \/ Associate(t) \/ Decrement(t)
         \/ DequeueNull(t) \/ DequeuePacket(t) \/ EnterRecv(t) \/ EnterSend(t)
         \/ Unsend(t) \/ Recheck(t) \/ Leave(t)
  PROVE  MapInv'
<1> USE DEF At, Goto
<1>1. /\ ControlTypeOK /\ pc \in [Thread -> Label] /\ ret \in [Thread -> Return]
      /\ cur \in [Thread -> Session \cup {NoSession}]
  BY DEF LifetimeInv, ControlTypeOK
<1>2. UNCHANGED <<session_map, next_sid, mem, sid>>
  BY DEF LoopTop, AcceptNothing, Associate, Decrement, DequeueNull, DequeuePacket, EnterRecv,
         EnterSend, Unsend, Recheck, Leave, mapVars, objVars
<1>3. OthersSame(t) /\ pc[t] \notin Busy /\ pc'[t] \notin Busy
  <2>1. CASE LoopTop(t) \/ AcceptNothing(t) \/ Associate(t)
    BY <1>1, <2>1 DEF LoopTop, AcceptNothing, Associate, OthersSame, Busy
  <2>2. CASE Decrement(t)
    BY <1>1, <2>2 DEF Decrement, OthersSame, Busy, Return
  <2>3. CASE DequeueNull(t) \/ DequeuePacket(t)
    BY <1>1, <2>3 DEF DequeueNull, DequeuePacket, OthersSame, Busy
  <2>4. CASE EnterRecv(t) \/ Unsend(t) \/ Leave(t)
    BY <1>1, <2>4 DEF EnterRecv, Unsend, Leave, OthersSame, Busy
  <2>5. CASE EnterSend(t) \/ Recheck(t)
    BY <1>1, <2>5 DEF EnterSend, Recheck, OthersSame, Busy
  <2> QED  BY <2>1, <2>2, <2>3, <2>4, <2>5
<1> QED  BY <1>1, <1>2, <1>3, MapPassedBy

LEMMA MapPosted ==
  ASSUME LifetimeInv, MapInv, NEW t \in Thread,
         RecvPost(t) \/ WSARecv(t) \/ Echo(t) \/ SendPost(t) \/ WSASend(t)
  PROVE  MapInv'
<1> USE DEF At, Goto
<1>1. /\ ControlTypeOK /\ pc \in [Thread -> Label] /\ ret \in [Thread -> Return]
      /\ cur \in [Thread -> Session \cup {NoSession}]
  BY DEF LifetimeInv, ControlTypeOK
<1>2. UNCHANGED <<session_map, next_sid, mem, sid, cur>>
  BY DEF RecvPost, WSARecv, Echo, SendPost, WSASend, mapVars, objVars
<1>3. /\ pc[t] \in {"recvpost", "wsarecv", "echo", "sendpost", "wsasend"}
      /\ pc' = pc \/ \E label \in Label \ Busy : pc' = [pc EXCEPT ![t] = label]
      /\ ret' = ret \/ \E label : ret' = [ret EXCEPT ![t] = label]
  <2>1. CASE RecvPost(t)
    <3>1. pc' = pc \/ pc' = [pc EXCEPT ![t] = "wsarecv"]  BY <2>1, Zenon DEF RecvPost
    <3>2. pc[t] = "recvpost" /\ ret' = ret  BY <2>1 DEF RecvPost
    <3> QED  BY <3>1, <3>2 DEF Label, Busy
  <2>2. CASE WSARecv(t)
    <3>1. \/ pc' = [pc EXCEPT ![t] = "loop"] \/ pc' = [pc EXCEPT ![t] = "echo"]
          \/ pc' = [pc EXCEPT ![t] = "dec"]
      BY <2>2, Zenon DEF WSARecv, Submit, AfterRefusal
    <3>2. ret' = ret \/ \E label : ret' = [ret EXCEPT ![t] = label]
      BY <2>2, Zenon DEF WSARecv, Submit
    <3>3. pc[t] = "wsarecv"  BY <2>2 DEF WSARecv
    <3> QED  BY <3>1, <3>2, <3>3 DEF Label, Busy
  <2>3. CASE Echo(t)
    <3>1. \/ pc' = pc \/ pc' = [pc EXCEPT ![t] = "leave"]
          \/ pc' = [pc EXCEPT ![t] = IF SendStarts(cur[t]) THEN "sendpost" ELSE "leave"]
      BY <2>3, Zenon DEF Echo
    <3>2. ret' = ret \/ \E label : ret' = [ret EXCEPT ![t] = label]
      BY <2>3, Zenon DEF Echo
    <3>3. pc[t] = "echo"  BY <2>3 DEF Echo
    <3> QED  BY <3>1, <3>2, <3>3 DEF Label, Busy
  <2>4. CASE SendPost(t)
    <3>1. pc' = [pc EXCEPT ![t] = ret[t]] \/ pc' = [pc EXCEPT ![t] = "wsasend"]
      BY <2>4, Zenon DEF SendPost
    <3>2. pc[t] = "sendpost" /\ ret' = ret  BY <2>4 DEF SendPost
    <3>3. ret[t] \in Label \ Busy  BY <1>1 DEF Return, Label, Busy
    <3> QED  BY <3>1, <3>2, <3>3 DEF Label, Busy
  <2>5. CASE WSASend(t)
    <3>1. pc' = [pc EXCEPT ![t] = "leave"] \/ pc' = [pc EXCEPT ![t] = "dec"]
      BY <2>5, Zenon DEF WSASend, Submit, AfterRefusal
    <3>2. ret' = ret \/ \E label : ret' = [ret EXCEPT ![t] = label]
      BY <2>5, Zenon DEF WSASend, Submit
    <3>3. pc[t] = "wsasend"  BY <2>5 DEF WSASend
    <3> QED  BY <3>1, <3>2, <3>3 DEF Label, Busy
  <2> QED  BY <2>1, <2>2, <2>3, <2>4, <2>5
<1>4. OthersSame(t) /\ pc[t] \notin Busy /\ pc'[t] \notin Busy
  BY <1>1, <1>2, <1>3 DEF OthersSame, Busy
<1> QED  BY <1>1, <1>2, <1>4, MapPassedBy

LEMMA MapMain ==
  ASSUME LifetimeInv, NotYetSpawned, MapInv, Main
  PROVE  MapInv'
<1>1. UNCHANGED <<session_map, next_sid, mem, sid, cur>>
  BY DEF Main, Start, SpawnAccept, SpawnWorker, Shutdown, CloseListenSock, PostNulls,
         Join, Exit, mapVars, objVars, threadVars
<1>2. pc' = pc \/ \E t \in Thread : pc[t] = "none" /\ pc' = [pc EXCEPT ![t] = "loop"]
  BY DEF NotYetSpawned, Main, Start, SpawnAccept, SpawnWorker, SpawnFails, Shutdown,
         CloseListenSock, PostNulls, Join, Exit, threadVars, Goto, Thread
<1>3. pc \in [Thread -> Label] /\ ControlTypeOK  BY DEF LifetimeInv, ControlTypeOK
<1>4. \A s \in Session : (Leaving(s)' <=> Leaving(s)) /\ (Coming(s)' <=> Coming(s))
  BY <1>1, <1>2, <1>3 DEF Leaving, Coming, Thread
<1> QED  BY <1>1, <1>3, <1>4, MapStill

(***************************************************************************)
(* The invariant                                                           *)
(***************************************************************************)
LEMMA MapInit == Init => MapInv
<1> SUFFICES ASSUME Init PROVE MapInv  OBVIOUS
<1>1. /\ session_map = [i \in Sid |-> NoSession] /\ mem = [s \in Session |-> "none"]
      /\ next_sid = 0
  BY DEF Init
<1>2. Made = {} /\ Cardinality(Made) = 0  BY <1>1, FS_EmptySet DEF Made
<1>3. 0 % SidMod = 0  BY NumberAssumption
<1> QED  BY <1>1, <1>2, <1>3 DEF MapInv, Entries, Numbered, Listed

LEMMA MapKeeps ==
  ASSUME LifetimeInv, NotYetSpawned, MapInv, [Next]_vars
  PROVE  MapInv'
<1>1. CASE Main  BY <1>1, MapMain
<1>2. ASSUME NEW t \in Thread, ThreadStep(t) PROVE MapInv'
  BY <1>2, MapLooped, MapPosted, MapErased, MapDrained, MapReaped, MapAccepted, MapEmplaced,
     MapUnplaced, MapAbandoned
  DEF ThreadStep, AcceptStep, WorkerStep
<1>3. CASE (\E s \in Session : Kernel(s)) \/ UNCHANGED vars
  <2>1. UNCHANGED <<session_map, next_sid, mem, sid, pc, cur>>
    BY <1>3 DEF Kernel, KernelRecv, KernelEof, KernelSend, KernelFail, vars, threadVars,
                mapVars, objVars
  <2>2. \A s \in Session : (Leaving(s)' <=> Leaving(s)) /\ (Coming(s)' <=> Coming(s))
    BY <2>1 DEF Leaving, Coming
  <2> QED  BY <2>1, <2>2, MapStill DEF LifetimeInv
<1> QED  BY <1>1, <1>2, <1>3 DEF Next, Terminated

(* The map leads to live sessions that are not being deleted, under their  *)
(* ids, also when ids wrap; and while they do not, the map has every live  *)
(* session but for the moments at its ends.                                *)
THEOREM MapCorrect == Spec => []MapInv
<1>1. LifetimeInv /\ NotYetSpawned /\ MapInv /\ [Next]_vars => MapInv'  BY MapKeeps
<1> QED  BY <1>1, MapInit, LifetimeCorrect, NotYetSpawnedCorrect, PTL DEF Spec

(* The map never leads to a deleted session, and it has every session      *)
(* somebody refers to, unless ids have wrapped.                            *)
THEOREM MapMatchesCorrect == Spec => []MapMatches
<1>1. ASSUME LifetimeInv, MapInv PROVE MapMatches
  <2>1. ASSUME NEW s \in Session, ~NoRefs(s) PROVE mem[s] = "live" /\ ~Leaving(s) /\ ~Coming(s)
    <3>1. ASSUME NEW t \in Thread, Exclusive(t), cur[t] = s,
                 pc[t] \in {"emplace", "drain", "reap"}
          PROVE  FALSE
      <4>1. Alone(t)  BY <1>1, <3>1 DEF LifetimeInv
      <4>2. IoRefs(s) = {} /\ \A u \in Thread \ {t} : ~Uses(u, s)  BY <3>1, <4>1 DEF Alone
      <4>3. ~OwnsPacket(t, s) /\ ~Posting(t, s)
        BY <1>1, <3>1 DEF OwnsPacket, Posting, Reaping, LifetimeInv, ControlFlow
      <4>4. \A u \in Thread \ {t} : ~OwnsPacket(u, s) /\ ~Posting(u, s)
        BY <4>2 DEF OwnsPacket, Posting, Uses, Idle
      <4> QED  BY <2>1, <4>2, <4>3, <4>4 DEF NoRefs, PacketRefs, PostRefs
    <3>2. ~Leaving(s)  BY <3>1 DEF Leaving, Exclusive, Reaping
    <3>3. ~Coming(s)  BY <3>1 DEF Coming, Exclusive, Fresh, Thread
    <3>4. mem[s] = "live"
      <4>1. CASE IoRefs(s) # {}  BY <1>1, <4>1 DEF LifetimeInv
      <4>2. CASE \E t \in Thread : OwnsPacket(t, s) \/ Posting(t, s)
        <5>1. PICK t \in Thread : OwnsPacket(t, s) \/ Posting(t, s)  BY <4>2
        <5>2. pc[t] \notin Idle /\ cur[t] = s /\ ~(t = Acceptor /\ pc[t] = "abandon")
          BY <5>1, ThreadAssumption DEF OwnsPacket, Posting, Idle
        <5> QED  BY <1>1, <5>2 DEF LifetimeInv, NoUseAfterFree
      <4> QED  BY <2>1, <4>1, <4>2 DEF NoRefs, PacketRefs, PostRefs
    <3> QED  BY <3>2, <3>3, <3>4
  <2>2. NoWrap => \A s \in Session : ~NoRefs(s) => session_map[sid[s]] = s
    BY <1>1, <2>1 DEF MapInv, Listed
  <2> QED  BY <1>1, <2>2 DEF MapMatches, MapInv, Entries, NoWrap
<1> QED  BY <1>1, MapCorrect, LifetimeCorrect, PTL
=============================================================================
