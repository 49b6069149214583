---------------------------- MODULE LoggerProofs ----------------------------
(***************************************************************************)
(* Proofs about Logger for any files, handles, buffer and line sizes, any  *)
(* number of lines, and any failures: first the order of bytes and the     *)
(* handles, then that no byte is lost and no line is cut.                  *)
(***************************************************************************)
EXTENDS Logger, FiniteSetTheorems, TLAPS

(***************************************************************************)
(* Order of sequences of bytes                                             *)
(***************************************************************************)
Bytes == Seq(ByteRecord)
Sorted(seq) == \A p, q \in DOMAIN seq : p < q => Precedes(seq[p], seq[q])
Below(low, high) == \A p \in DOMAIN low, q \in DOMAIN high : Precedes(low[p], high[q])
UpTo(seq, n) == \A p \in DOMAIN seq : seq[p].line <= n

LEMMA Parts ==
  ASSUME NEW seq \in Bytes, NEW n \in 0 .. Len(seq)
  PROVE  /\ Take(seq, n) \in Bytes /\ Len(Take(seq, n)) = n
         /\ Drop(seq, n) \in Bytes /\ Len(Drop(seq, n)) = Len(seq) - n
         /\ \A i \in 1 .. n : Take(seq, n)[i] = seq[i]
         /\ \A i \in 1 .. Len(seq) - n : Drop(seq, n)[i] = seq[i + n]
BY DEF Bytes, Take, Drop

LEMMA PartsSorted ==
  ASSUME NEW seq \in Bytes, NEW n \in 0 .. Len(seq), Sorted(seq)
  PROVE  Sorted(Take(seq, n)) /\ Sorted(Drop(seq, n)) /\ Below(Take(seq, n), Drop(seq, n))
<1> DEFINE t == Take(seq, n)
           d == Drop(seq, n)
<1>1. /\ t \in Bytes /\ Len(t) = n /\ d \in Bytes /\ Len(d) = Len(seq) - n /\ Len(seq) \in Nat
      /\ \A i \in 1 .. n : t[i] = seq[i]
      /\ \A i \in 1 .. Len(seq) - n : d[i] = seq[i + n]
  BY Parts DEF Bytes
<1>2. DOMAIN t = 1 .. n /\ DOMAIN d = 1 .. Len(seq) - n /\ DOMAIN seq = 1 .. Len(seq)
  BY <1>1 DEF Bytes
<1> HIDE DEF t, d
<1>3. Sorted(t)  BY <1>1, <1>2 DEF Sorted
<1>4. Sorted(d)
  <2> SUFFICES ASSUME NEW p \in 1 .. Len(seq) - n, NEW q \in 1 .. Len(seq) - n, p < q
               PROVE  Precedes(d[p], d[q])
    BY <1>2 DEF Sorted
  <2>1. p + n \in DOMAIN seq /\ q + n \in DOMAIN seq /\ p + n < q + n
    BY <1>1, <1>2
  <2> QED  BY <1>1, <2>1 DEF Sorted
<1>5. Below(t, d)
  <2> SUFFICES ASSUME NEW p \in 1 .. n, NEW q \in 1 .. Len(seq) - n
               PROVE  Precedes(t[p], d[q])
    BY <1>2 DEF Below
  <2>1. p \in DOMAIN seq /\ q + n \in DOMAIN seq /\ p < q + n
    BY <1>1, <1>2
  <2> QED  BY <1>1, <2>1 DEF Sorted
<1> QED  BY <1>3, <1>4, <1>5 DEF t, d

LEMMA PartsElements ==
  ASSUME NEW seq \in Bytes, NEW n \in 0 .. Len(seq)
  PROVE  /\ \A p \in DOMAIN Take(seq, n) : \E q \in DOMAIN seq : Take(seq, n)[p] = seq[q]
         /\ \A p \in DOMAIN Drop(seq, n) : \E q \in DOMAIN seq : Drop(seq, n)[p] = seq[q]
<1>1. ASSUME NEW p \in DOMAIN Take(seq, n) PROVE \E q \in DOMAIN seq : Take(seq, n)[p] = seq[q]
  <2>1. p \in 1 .. n /\ p \in DOMAIN seq
    BY Parts DEF Bytes
  <2> QED  BY <2>1, Parts
<1>2. ASSUME NEW p \in DOMAIN Drop(seq, n) PROVE \E q \in DOMAIN seq : Drop(seq, n)[p] = seq[q]
  <2>1. p \in 1 .. Len(seq) - n /\ p + n \in DOMAIN seq
    BY Parts DEF Bytes
  <2> QED  BY <2>1, Parts
<1> QED  BY <1>1, <1>2

LEMMA PartsBelow ==
  ASSUME NEW seq \in Bytes, NEW n \in 0 .. Len(seq)
  PROVE  /\ \A other : Below(seq, other) => Below(Take(seq, n), other) /\ Below(Drop(seq, n), other)
         /\ \A other : Below(other, seq) => Below(other, Take(seq, n)) /\ Below(other, Drop(seq, n))
         /\ \A m : UpTo(seq, m) => UpTo(Take(seq, n), m) /\ UpTo(Drop(seq, n), m)
BY PartsElements DEF Below, UpTo

LEMMA JoinedElements ==
  ASSUME NEW a \in Bytes, NEW b \in Bytes
  PROVE  /\ a \o b \in Bytes
         /\ \A p \in DOMAIN (a \o b) : \/ p \in DOMAIN a /\ (a \o b)[p] = a[p]
                                       \/ p - Len(a) \in DOMAIN b /\ (a \o b)[p] = b[p - Len(a)]
BY DEF Bytes

LEMMA Joined ==
  ASSUME NEW a \in Bytes, NEW b \in Bytes
  PROVE  /\ Sorted(a) /\ Sorted(b) /\ Below(a, b) => Sorted(a \o b)
         /\ \A other : Below(a, other) /\ Below(b, other) => Below(a \o b, other)
         /\ \A other : Below(other, a) /\ Below(other, b) => Below(other, a \o b)
         /\ \A m : UpTo(a, m) /\ UpTo(b, m) => UpTo(a \o b, m)
<1>1. ASSUME Sorted(a), Sorted(b), Below(a, b) PROVE Sorted(a \o b)
  <2> SUFFICES ASSUME NEW p \in DOMAIN (a \o b), NEW q \in DOMAIN (a \o b), p < q
               PROVE  Precedes((a \o b)[p], (a \o b)[q])
    BY DEF Sorted
  <2>1. p \in 1 .. Len(a) + Len(b) /\ q \in 1 .. Len(a) + Len(b) /\ Len(a) \in Nat /\ Len(b) \in Nat
        /\ DOMAIN a = 1 .. Len(a) /\ DOMAIN b = 1 .. Len(b)
    BY DEF Bytes
  <2>2. CASE p <= Len(a) /\ q <= Len(a)
    <3>1. p \in DOMAIN a /\ q \in DOMAIN a /\ (a \o b)[p] = a[p] /\ (a \o b)[q] = a[q]
      BY <2>1, <2>2 DEF Bytes
    <3> QED  BY <1>1, <3>1 DEF Sorted
  <2>3. CASE p <= Len(a) /\ q > Len(a)
    <3>1. p \in DOMAIN a /\ q - Len(a) \in DOMAIN b /\ (a \o b)[p] = a[p] /\ (a \o b)[q] = b[q - Len(a)]
      BY <2>1, <2>3 DEF Bytes
    <3> QED  BY <1>1, <3>1 DEF Below
  <2>4. CASE p > Len(a) /\ q > Len(a)
    <3>1. p - Len(a) \in DOMAIN b /\ q - Len(a) \in DOMAIN b /\ p - Len(a) < q - Len(a)
      BY <2>1, <2>4
    <3>2. (a \o b)[p] = b[p - Len(a)] /\ (a \o b)[q] = b[q - Len(a)]
      BY <2>1, <2>4 DEF Bytes
    <3> QED  BY <1>1, <3>1, <3>2 DEF Sorted
  <2> QED  BY <2>1, <2>2, <2>3, <2>4
<1>2. ASSUME NEW other, Below(a, other), Below(b, other) PROVE Below(a \o b, other)
  BY <1>2, JoinedElements DEF Below
<1>3. ASSUME NEW other, Below(other, a), Below(other, b) PROVE Below(other, a \o b)
  BY <1>3, JoinedElements DEF Below
<1>4. ASSUME NEW m, UpTo(a, m), UpTo(b, m) PROVE UpTo(a \o b, m)
  BY <1>4, JoinedElements DEF UpTo
<1> QED  BY <1>1, <1>2, <1>3, <1>4

LEMMA Nothing ==
  /\ << >> \in Bytes /\ Sorted(<< >>)
  /\ \A other : Below(<< >>, other) /\ Below(other, << >>)
  /\ \A m : UpTo(<< >>, m)
BY DEF Bytes, Sorted, Below, UpTo

(***************************************************************************)
(* The state a handler goes through                                        *)
(***************************************************************************)
SinkType == [backend : Backend, target : Std \cup {"FILE"}, filepath : Path \cup {NoPath},
             handle : (Backend \X Stream) \cup {NoHandle}]

RecordType ==
  [buffer : Bytes, opened : [Handle -> (Backend \X Path) \cup {Unopened}],
   held : [Stream -> Bytes], contents : [Destination -> Bytes],
   lines : Seq(1 .. MAX_LINE_LENGTH - 1), mishap : SUBSET {"write", "flush", "close"}]
Proper(o) == o \in RecordType /\ Len(o.buffer) <= BUFFER_SIZE

(* What a file has, what the C library holds back for it and what is in    *)
(* the buffer follow one another; at most one handle has bytes held back.  *)
Ordered(o) ==
  /\ Sorted(o.buffer) /\ UpTo(o.buffer, Len(o.lines))
  /\ \A d \in Path : /\ Sorted(o.contents[d]) /\ Below(o.contents[d], o.buffer)
                     /\ UpTo(o.contents[d], Len(o.lines))
  /\ \A h \in Handle : /\ Sorted(o.held[h]) /\ Below(o.held[h], o.buffer)
                       /\ UpTo(o.held[h], Len(o.lines))
                       /\ o.opened[h][2] \in Path => Below(o.contents[o.opened[h][2]], o.held[h])
  /\ \A g, h \in Handle : g # h => o.held[g] = << >> \/ o.held[h] = << >>

(* The sink's handle is that of its standard stream or of its open file.   *)
Fits(o, s) ==
  /\ s \in SinkType
  /\ s.target \in Std => s.handle \in StdHandles(s.backend, s.target)
  /\ s.target = "FILE" => /\ s.filepath \in Path
                          /\ \E h \in Handle : /\ s.handle = <<s.backend, h>>
                                               /\ o.opened[h] = <<s.backend, s.filepath>>

(* Only its own file, opened by the C library, has bytes held back.        *)
OnlyHeld(o, s) ==
  \A h \in Handle : o.held[h] # << >> => s.target = "FILE" /\ s.handle = <<"STDIO", h>>
AllClear(o) == \A h \in Handle : o.held[h] = << >>

(* What flushing changes neither of. *)
SameFiles(o, p) ==
  /\ p.opened = o.opened /\ p.lines = o.lines
  /\ "close" \in p.mishap <=> "close" \in o.mishap

LEMMA Names ==
  /\ \A x \in Std : x \notin Handle /\ x \notin Path /\ x # "FILE"
  /\ Std \subseteq Stream /\ Handle \subseteq Stream
  /\ Std \subseteq Destination /\ Path \subseteq Destination
  /\ \A b \in Backend : \A x \in Stream : <<b, x>> # NoHandle
  /\ NoPath \notin Path
  /\ \A b \in Backend : \A p \in Path : <<b, p>> # Unopened
  /\ Unopened[2] = NoPath
BY NameAssumption DEF Std, Stream, Destination, Backend, Unopened

(***************************************************************************)
(* log()                                                                   *)
(***************************************************************************)
LEMMA LineIs ==
  ASSUME NEW n \in Nat \ {0}, NEW number \in Nat
  PROVE  /\ LineLength(n) \in 1 .. MAX_LINE_LENGTH - 1
         /\ Line(number, n) \in Bytes /\ Len(Line(number, n)) = LineLength(n)
         /\ \A i \in 1 .. LineLength(n) : /\ Line(number, n)[i].line = number
                                          /\ Line(number, n)[i].at = i
<1>1. LineLength(n) \in 1 .. MAX_LINE_LENGTH - 1
  BY SizeAssumption DEF LineLength, Written
<1>2. \A i \in 1 .. LineLength(n) :
        [line |-> number, at |-> i, newline |-> i = NewlineAt(n)] \in ByteRecord
  BY <1>1 DEF ByteRecord
<1>3. Line(number, n) \in [1 .. LineLength(n) -> ByteRecord]
  BY <1>2 DEF Line
<1>4. Line(number, n) \in Bytes /\ Len(Line(number, n)) = LineLength(n)
  <2> HIDE DEF ByteRecord
  <2> QED  BY <1>1, <1>3 DEF Bytes
<1> QED  BY <1>1, <1>4 DEF Line

LEMMA EnteredKeeps ==
  ASSUME NEW o, Proper(o), Ordered(o), NEW level, NEW n \in Nat \ {0}
  PROVE  LET p == Entered(o, level, n)
         IN  /\ Proper(p) /\ Ordered(p)
             /\ p.opened = o.opened /\ p.held = o.held /\ p.mishap = o.mishap
<1> DEFINE number == Len(o.lines) + 1
           line == Line(number, n)
           p == [o EXCEPT !.buffer = @ \o line, !.lines = Append(@, LineLength(n))]
<1>1. Len(o.lines) \in Nat /\ number \in Nat /\ o.buffer \in Bytes
  BY DEF Proper, RecordType
<1>2. /\ line \in Bytes /\ Len(line) = LineLength(n) /\ LineLength(n) \in 1 .. MAX_LINE_LENGTH - 1
      /\ \A i \in 1 .. LineLength(n) : line[i].line = number /\ line[i].at = i
  BY <1>1, LineIs
<1>3. CASE level >= threshold /\ Len(o.buffer) + LineLength(n) <= BUFFER_SIZE
  <2>1. Entered(o, level, n) = p
    BY <1>3 DEF Entered
  <2>2. /\ p.buffer = o.buffer \o line /\ p.lines = Append(o.lines, LineLength(n))
        /\ p.opened = o.opened /\ p.held = o.held /\ p.mishap = o.mishap /\ p.contents = o.contents
    BY DEF Proper, RecordType
  <2>3. p.buffer \in Bytes /\ Len(p.buffer) <= BUFFER_SIZE
    <3> HIDE DEF p, line
    <3>1. Len(o.buffer \o line) = Len(o.buffer) + Len(line)
      BY <1>1, <1>2 DEF Bytes
    <3> QED  BY <1>1, <1>2, <1>3, <2>2, <3>1, JoinedElements
  <2>4. p.lines \in Seq(1 .. MAX_LINE_LENGTH - 1) /\ Len(p.lines) = number
    <3>1. o.lines \in Seq(1 .. MAX_LINE_LENGTH - 1)
      BY DEF Proper, RecordType
    <3> HIDE DEF p, line
    <3> QED  BY <1>2, <2>2, <3>1
  <2>5. Proper(p)
    <3> HIDE DEF line
    <3>1. o.buffer \o line \in Bytes /\ Append(o.lines, LineLength(n)) \in Seq(1 .. MAX_LINE_LENGTH - 1)
      BY <2>2, <2>3, <2>4
    <3>2. p \in RecordType
      BY <3>1 DEF Proper, RecordType
    <3> HIDE DEF p
    <3> QED  BY <2>3, <3>2 DEF Proper, RecordType
  <2>6. /\ Sorted(line) /\ UpTo(line, number)
        /\ \A low \in Bytes : UpTo(low, Len(o.lines)) => Below(low, line) /\ UpTo(low, number)
    <3>1. DOMAIN line = 1 .. LineLength(n)
      BY <1>2 DEF Bytes
    <3> HIDE DEF line
    <3>2. Sorted(line)
      BY <1>2, <3>1 DEF Sorted, Precedes
    <3>3. UpTo(line, number)
      BY <1>1, <1>2, <3>1 DEF UpTo
    <3>4. ASSUME NEW low \in Bytes, UpTo(low, Len(o.lines))
          PROVE  Below(low, line) /\ UpTo(low, number)
      <4> HIDE DEF p, number
      <4>0. \A i \in DOMAIN low : low[i] \in ByteRecord
        BY DEF Bytes
      <4>1. \A i \in DOMAIN low : low[i].line \in Nat /\ low[i].line <= Len(o.lines)
        BY <3>4, <4>0 DEF UpTo, ByteRecord
      <4>2. Below(low, line)
        BY <1>1, <1>2, <3>1, <4>1 DEF Below, Precedes, number
      <4> QED  BY <1>1, <4>1, <4>2 DEF UpTo, number
    <3> QED  BY <3>2, <3>3, <3>4
  <2>7. Ordered(p)
    <3>1. Sorted(p.buffer) /\ UpTo(p.buffer, Len(p.lines))
      <4> HIDE DEF p, line
      <4> QED  BY <1>1, <1>2, <2>2, <2>4, <2>6, Joined DEF Ordered
    <3>2. ASSUME NEW seq \in Bytes, Below(seq, o.buffer), UpTo(seq, Len(o.lines))
          PROVE  Below(seq, p.buffer) /\ UpTo(seq, Len(p.lines))
      <4> HIDE DEF p, line
      <4> QED  BY <1>1, <1>2, <2>2, <2>4, <2>6, <3>2, Joined
    <3>3. /\ \A d \in Path : o.contents[d] \in Bytes
          /\ \A h \in Handle : o.held[h] \in Bytes
      BY Names DEF Proper, RecordType
    <3> HIDE DEF p, line
    <3> QED  BY <2>2, <3>1, <3>2, <3>3 DEF Ordered
  <2> HIDE DEF p
  <2> QED  BY <2>1, <2>2, <2>5, <2>7
<1>4. CASE ~(level >= threshold /\ Len(o.buffer) + LineLength(n) <= BUFFER_SIZE)
  BY <1>4 DEF Entered
<1> QED  BY <1>3, <1>4

(***************************************************************************)
(* Bytes on their way                                                      *)
(***************************************************************************)
LEMMA ArriveKeeps ==
  ASSUME NEW o, Proper(o), Ordered(o), NEW stream \in Stream, NEW n \in 0 .. Len(o.held[stream])
  PROVE  LET p == Arrive(o, stream, n)
         IN  /\ Proper(p) /\ Ordered(p)
             /\ p.opened = o.opened /\ p.lines = o.lines /\ p.mishap = o.mishap
             /\ p.buffer = o.buffer
             /\ \A h \in Handle : o.held[h] = << >> => p.held[h] = << >>
<1> DEFINE x == Reaches(o, stream)
           p == Arrive(o, stream, n)
           come == Take(o.held[stream], n)
           rest == Drop(o.held[stream], n)
<1>1. /\ o.held \in [Stream -> Bytes] /\ o.contents \in [Destination -> Bytes]
      /\ o.buffer \in Bytes /\ o.held[stream] \in Bytes
  BY DEF Proper, RecordType
<1>2. come \in Bytes /\ rest \in Bytes
  BY <1>1, Parts
<1>3. /\ p.contents = [o.contents EXCEPT ![x] = @ \o come]
      /\ p.held = [o.held EXCEPT ![stream] = rest]
      /\ p.opened = o.opened /\ p.lines = o.lines /\ p.mishap = o.mishap /\ p.buffer = o.buffer
  BY DEF Arrive, Proper, RecordType
<1>4. p.contents \in [Destination -> Bytes] /\ p.held \in [Stream -> Bytes]
  <2>1. CASE x \in Destination
    <3>1. o.contents[x] \o come \in Bytes
      BY <1>1, <1>2, <2>1, JoinedElements
    <3> HIDE DEF p, x, come, rest
    <3> QED  BY <1>1, <1>2, <1>3, <3>1
  <2>2. CASE x \notin Destination
    <3> HIDE DEF p, x, come, rest
    <3> QED  BY <1>1, <1>2, <1>3, <2>2
  <2> QED  BY <2>1, <2>2
<1>5. Proper(p)
  <2>1. p = [o EXCEPT !.contents = p.contents, !.held = p.held]
    BY DEF Arrive, Proper, RecordType
  <2> HIDE DEF p
  <2> QED  BY <1>3, <1>4, <2>1 DEF Proper, RecordType
<1>6. \A h \in Handle : o.held[h] = << >> => p.held[h] = << >>
  <2> SUFFICES ASSUME NEW h \in Handle, o.held[h] = << >> PROVE p.held[h] = << >>
    OBVIOUS
  <2>1. h \in Stream
    BY Names
  <2>2. CASE h = stream
    <3>1. n = 0 /\ rest = << >>
      BY <2>2 DEF Drop
    <3> HIDE DEF p, rest
    <3> QED  BY <1>1, <1>3, <2>1, <2>2, <3>1
  <2>3. CASE h # stream
    <3> HIDE DEF p, rest
    <3> QED  BY <1>1, <1>3, <2>1, <2>3
  <2> QED  BY <2>2, <2>3
<1>7. Ordered(p)
  <2>1. CASE stream \in Std
    <3>1. x = stream /\ x \notin Path /\ x \notin Handle
      BY <2>1, Names DEF Reaches
    <3>2. /\ \A d \in Path : p.contents[d] = o.contents[d]
          /\ \A h \in Handle : p.held[h] = o.held[h]
      <4> HIDE DEF p, x, come, rest
      <4> QED  BY <1>1, <1>3, <2>1, <3>1, Names
    <3> HIDE DEF p, x, come, rest
    <3> QED  BY <1>3, <3>2 DEF Ordered
  <2>2. CASE stream \in Handle
    <3>1. x = o.opened[stream][2]
      BY <2>2, Names DEF Reaches
    <3>2. /\ \A d \in Path : p.contents[d] = IF d = x THEN o.contents[d] \o come ELSE o.contents[d]
          /\ \A h \in Handle : p.held[h] = IF h = stream THEN rest ELSE o.held[h]
          /\ \A d \in Path : o.contents[d] \in Bytes
          /\ \A h \in Handle : o.held[h] \in Bytes
      <4> HIDE DEF p, x, come, rest
      <4> QED  BY <1>1, <1>3, Names
    <3>3. /\ Sorted(come) /\ Sorted(rest) /\ Below(come, rest)
          /\ Below(come, o.buffer) /\ Below(rest, o.buffer)
          /\ UpTo(come, Len(o.lines)) /\ UpTo(rest, Len(o.lines))
          /\ \A other : Below(other, o.held[stream]) => Below(other, come) /\ Below(other, rest)
      <4>1. /\ Sorted(o.held[stream]) /\ Below(o.held[stream], o.buffer)
            /\ UpTo(o.held[stream], Len(o.lines))
        BY <2>2 DEF Ordered
      <4> QED  BY <1>1, <4>1, PartsSorted, PartsBelow
    <3>4. x \in Path => Below(o.contents[x], o.held[stream])
      <4> HIDE DEF x
      <4> QED  BY <2>2, <3>1 DEF Ordered
    <3>5. ASSUME NEW d \in Path
          PROVE  /\ Sorted(p.contents[d]) /\ Below(p.contents[d], p.buffer)
                 /\ UpTo(p.contents[d], Len(p.lines))
      <4> HIDE DEF p, x, come, rest
      <4>1. Sorted(o.contents[d]) /\ Below(o.contents[d], o.buffer) /\ UpTo(o.contents[d], Len(o.lines))
        BY DEF Ordered
      <4>2. CASE d = x
        BY <1>2, <1>3, <3>2, <3>3, <3>4, <4>1, <4>2, Joined
      <4>3. CASE d # x
        BY <1>3, <3>2, <4>1, <4>3
      <4> QED  BY <4>2, <4>3
    <3>6. ASSUME NEW h \in Handle
          PROVE  /\ Sorted(p.held[h]) /\ Below(p.held[h], p.buffer)
                 /\ UpTo(p.held[h], Len(p.lines))
      <4> HIDE DEF p, x, come, rest
      <4> QED  BY <1>3, <3>2, <3>3 DEF Ordered
    <3>7. ASSUME NEW h \in Handle, p.opened[h][2] \in Path
          PROVE  Below(p.contents[p.opened[h][2]], p.held[h])
      <4> DEFINE d == o.opened[h][2]
      <4> HIDE DEF p, x, come, rest
      <4>1. d \in Path /\ p.opened[h][2] = d /\ Below(o.contents[d], o.held[h])
        BY <1>3, <3>7 DEF Ordered
      <4>2. CASE h = stream
        <5>1. p.contents[d] = o.contents[d] \o come /\ p.held[h] = rest
          BY <3>1, <3>2, <4>1, <4>2
        <5>2. Below(o.contents[d], rest) /\ Below(come, rest) /\ o.contents[d] \in Bytes
          BY <3>2, <3>3, <4>1, <4>2
        <5>3. Below(o.contents[d] \o come, rest)
          BY <1>2, <5>2, Joined
        <5> QED  BY <4>1, <5>1, <5>3
      <4>3. CASE h # stream
        <5>1. p.held[h] = o.held[h]
          BY <3>2, <4>3
        <5>2. Below(come, o.held[h])
          <6>1. o.held[h] = << >> \/ o.held[stream] = << >>
            BY <2>2, <4>3 DEF Ordered
          <6>2. Below(o.held[stream], o.held[h])
            BY <6>1, Nothing
          <6> QED  BY <1>1, <6>2, PartsBelow DEF come
        <5> QED  BY <1>2, <3>2, <4>1, <5>1, <5>2, Joined
      <4> QED  BY <4>2, <4>3
    <3>8. \A g, h \in Handle : g # h => p.held[g] = << >> \/ p.held[h] = << >>
      <4> HIDE DEF p
      <4> QED  BY <1>6 DEF Ordered
    <3> HIDE DEF p, x, come, rest
    <3> QED  BY <1>3, <3>5, <3>6, <3>7, <3>8 DEF Ordered
  <2> QED  BY <2>1, <2>2 DEF Stream
<1> HIDE DEF p, x, come, rest
<1> QED  BY <1>3, <1>5, <1>6, <1>7 DEF p

(* What flush() and the end of a file may do to the rest of the state *)
Passed(o, p) ==
  /\ Proper(p) /\ Ordered(p) /\ p.opened = o.opened /\ p.lines = o.lines
  /\ "close" \in p.mishap <=> "close" \in o.mishap
  /\ \A h \in Handle : o.held[h] = << >> => p.held[h] = << >>

LEMMA PassedOnKeeps ==
  ASSUME NEW o, Proper(o), Ordered(o), NEW stream \in Stream, NEW r \in PassedOn(o, stream)
  PROVE  Passed(o, r.out)
<1> DEFINE all == Len(o.held[stream])
           part(n) == [Arrive(o, stream, n) EXCEPT !.mishap = @ \cup {"flush"}]
           less(n) == [part(n) EXCEPT !.held[stream] = << >>]
<1>1. all \in Nat
  BY DEF Proper, Bytes, RecordType
<1>2. ASSUME NEW n \in 0 .. all PROVE Passed(o, Arrive(o, stream, n))
  BY <1>2, ArriveKeeps DEF Passed
<1>3. ASSUME NEW n \in 0 .. all
      PROVE  Passed(o, part(n)) /\ Passed(o, less(n))
  <2> DEFINE a == Arrive(o, stream, n)
             p == [a EXCEPT !.mishap = @ \cup {"flush"}]
             q == [p EXCEPT !.held[stream] = << >>]
  <2>1. Passed(o, a)
    BY <1>2
  <2> HIDE DEF a
  <2>2. a \in RecordType /\ Len(a.buffer) <= BUFFER_SIZE
    BY <2>1 DEF Passed, Proper, RecordType
  <2>3. /\ p \in RecordType /\ p.buffer = a.buffer /\ p.opened = a.opened /\ p.held = a.held
        /\ p.contents = a.contents /\ p.lines = a.lines /\ p.mishap = a.mishap \cup {"flush"}
    BY <2>2 DEF RecordType
  <2> HIDE DEF p
  <2>4. Passed(o, p)
    BY <2>1, <2>2, <2>3 DEF Passed, Proper, Ordered, RecordType
  <2>5. /\ q.buffer = p.buffer /\ q.opened = p.opened /\ q.held = [p.held EXCEPT ![stream] = << >>]
        /\ q.contents = p.contents /\ q.lines = p.lines /\ q.mishap = p.mishap
    BY <2>3 DEF RecordType
  <2>6. q \in RecordType
    <3>1. [p.held EXCEPT ![stream] = << >>] \in [Stream -> Bytes]
      BY <2>3, Nothing DEF RecordType
    <3> QED  BY <2>3, <3>1 DEF RecordType
  <2> HIDE DEF q
  <2>7. \A h \in Handle : q.held[h] = p.held[h] \/ q.held[h] = << >>
    BY <2>3, <2>5, Names DEF RecordType
  <2>8. Ordered(q)
    BY <2>4, <2>5, <2>7, Nothing DEF Ordered, Passed
  <2>9. Passed(o, q)
    BY <2>2, <2>3, <2>4, <2>5, <2>6, <2>7, <2>8 DEF Passed, Proper, RecordType
  <2> QED  BY <2>4, <2>9 DEF p, q, a
<1>4. CASE r = [out |-> Arrive(o, stream, all), ok |-> TRUE]
  <2>1. r.out = Arrive(o, stream, all) /\ all \in 0 .. all
    BY <1>1, <1>4
  <2> QED  BY <1>2, <2>1
<1>5. CASE \E n \in 0 .. all : r \in {[out |-> part(n), ok |-> FALSE], [out |-> less(n), ok |-> FALSE]}
  <2> HIDE DEF part, less
  <2>1. PICK n \in 0 .. all : r.out = part(n) \/ r.out = less(n)
    BY <1>5
  <2> QED  BY <1>3, <2>1
<1>6. \/ r = [out |-> Arrive(o, stream, all), ok |-> TRUE]
      \/ \E n \in 0 .. all : r \in {[out |-> part(n), ok |-> FALSE], [out |-> less(n), ok |-> FALSE]}
  BY Zenon DEF PassedOn
<1> QED  BY <1>4, <1>5, <1>6

(***************************************************************************)
(* flush()                                                                 *)
(***************************************************************************)
LEMMA WrittenOutKeeps ==
  ASSUME NEW o, Proper(o), Ordered(o), NEW s, Fits(o, s), OnlyHeld(o, s), NEW w \in WrittenOut(o, s)
  PROVE  Proper(w) /\ Ordered(w) /\ SameFiles(o, w) /\ OnlyHeld(w, s)
<1> DEFINE all == Len(o.buffer)
           after(n) == [o EXCEPT !.buffer = Consumed(@, n),
                                 !.mishap = IF n < all THEN @ \cup {"write"} ELSE @]
           given == s.handle[2]
           bytes(n) == Take(o.buffer, n)
           to(n) == [after(n) EXCEPT !.held[given] = @ \o bytes(n)]
           past(n) == [after(n) EXCEPT !.contents[Reaches(o, given)] = @ \o bytes(n)]
           through(n) == IF s.backend = "STDIO" THEN to(n) ELSE past(n)
<1>1. /\ all \in Nat /\ o.buffer \in Bytes /\ o \in RecordType /\ Len(o.buffer) <= BUFFER_SIZE
      /\ BUFFER_SIZE \in Nat
  BY SizeAssumption DEF Proper, Bytes, RecordType
<1>2. ASSUME NEW n \in 0 .. all
      PROVE  /\ after(n) \in RecordType
             /\ after(n).buffer = Drop(o.buffer, n) /\ after(n).opened = o.opened
             /\ after(n).held = o.held /\ after(n).contents = o.contents /\ after(n).lines = o.lines
             /\ "close" \in after(n).mishap <=> "close" \in o.mishap
             /\ Proper(after(n)) /\ Ordered(after(n))
             /\ bytes(n) \in Bytes /\ Sorted(bytes(n)) /\ Below(bytes(n), after(n).buffer)
             /\ UpTo(bytes(n), Len(o.lines))
             /\ \A other : Below(other, o.buffer) => Below(other, bytes(n))
  <2> DEFINE rest == Drop(o.buffer, n)
             a == after(n)
             b == bytes(n)
  <2>1. rest \in Bytes /\ Len(rest) <= BUFFER_SIZE /\ b \in Bytes
    <3>1. rest \in Bytes /\ Len(rest) = all - n /\ b \in Bytes
      BY <1>1, Parts
    <3> HIDE DEF rest, b
    <3> QED  BY <1>1, <3>1
  <2>2. /\ a.buffer = rest /\ a.opened = o.opened
        /\ a.held = o.held /\ a.contents = o.contents /\ a.lines = o.lines
        /\ "close" \in a.mishap <=> "close" \in o.mishap
    <3> HIDE DEF all
    <3> QED  BY <1>1 DEF Consumed, RecordType
  <2>3. a \in RecordType
    <3> HIDE DEF rest, all
    <3>1. Consumed(o.buffer, n) = rest
      BY DEF Consumed, rest
    <3> QED  BY <1>1, <2>1, <3>1 DEF RecordType
  <2> HIDE DEF a
  <2>4. Proper(a)
    BY <2>1, <2>2, <2>3 DEF Proper, RecordType
  <2>5. /\ Sorted(b) /\ Sorted(rest) /\ Below(b, rest)
        /\ UpTo(b, Len(o.lines)) /\ UpTo(rest, Len(o.lines))
        /\ \A other : Below(other, o.buffer) => Below(other, b) /\ Below(other, rest)
    <3>1. Sorted(o.buffer) /\ UpTo(o.buffer, Len(o.lines))
      BY DEF Ordered
    <3> QED  BY <1>1, <3>1, PartsSorted, PartsBelow
  <2> HIDE DEF rest, b
  <2>6. Ordered(a)
    BY <2>2, <2>5 DEF Ordered
  <2> QED  BY <2>1, <2>2, <2>3, <2>4, <2>5, <2>6 DEF a, rest, b
<1>3. CASE s.handle = NoHandle /\ w = after(0)
  <2>1. 0 \in 0 .. all
    BY <1>1
  <2> HIDE DEF after, bytes, all
  <2>2. /\ Proper(w) /\ Ordered(w) /\ w.opened = o.opened /\ w.held = o.held /\ w.lines = o.lines
        /\ "close" \in w.mishap <=> "close" \in o.mishap
    BY <1>2, <1>3, <2>1
  <2> QED  BY <2>2 DEF SameFiles, OnlyHeld
<1>4. CASE s.handle # NoHandle /\ \E n \in 0 .. all : w = through(n)
  <2>1. PICK n \in 0 .. all : w = through(n)
    BY <1>4
  <2> DEFINE a == after(n)
             b == bytes(n)
  <2>2. /\ a \in RecordType /\ a.opened = o.opened /\ a.held = o.held /\ a.contents = o.contents
        /\ a.lines = o.lines /\ ("close" \in a.mishap <=> "close" \in o.mishap)
        /\ Proper(a) /\ Ordered(a)
        /\ b \in Bytes /\ Sorted(b) /\ Below(b, a.buffer) /\ UpTo(b, Len(o.lines))
        /\ \A other : Below(other, o.buffer) => Below(other, b)
    BY <1>2
  <2>3. /\ s.backend \in Backend /\ given \in Stream /\ s.handle = <<s.backend, given>>
        /\ \/ given \in Std /\ s.target \in Std
           \/ /\ given \in Handle /\ s.target = "FILE" /\ s.filepath \in Path
              /\ o.opened[given] = <<s.backend, s.filepath>>
    <3>1. s.backend \in Backend /\ s.target \in Std \cup {"FILE"}
      BY DEF Fits, SinkType
    <3>2. CASE s.target \in Std
      <4>1. s.handle = <<s.backend, s.target>>
        BY <1>4, <3>2 DEF Fits, StdHandles
      <4>2. given = s.target
        BY <4>1
      <4> HIDE DEF given
      <4> QED  BY <3>1, <3>2, <4>1, <4>2, Names
    <3>3. CASE s.target = "FILE"
      <4>1. PICK h \in Handle : s.handle = <<s.backend, h>> /\ o.opened[h] = <<s.backend, s.filepath>>
        BY <3>3 DEF Fits
      <4>2. given = h
        BY <4>1
      <4>3. s.filepath \in Path
        BY <3>3 DEF Fits
      <4> HIDE DEF given
      <4> QED  BY <3>1, <3>3, <4>1, <4>2, <4>3, Names
    <3> QED  BY <3>1, <3>2, <3>3
  <2> HIDE DEF a, b, given
  <2>4. CASE s.backend = "STDIO"
    <3> DEFINE p == [a EXCEPT !.held[given] = @ \o b]
    <3>1. w = p
      BY <2>1, <2>4 DEF a, b, given
    <3>2. /\ p.held = [o.held EXCEPT ![given] = @ \o b]
          /\ p.buffer = a.buffer /\ p.opened = o.opened /\ p.contents = o.contents
          /\ p.lines = o.lines /\ p.mishap = a.mishap
      BY <2>2 DEF RecordType
    <3>3. o.held \in [Stream -> Bytes] /\ o.held[given] \in Bytes /\ o.held[given] \o b \in Bytes
      BY <1>1, <2>2, <2>3, JoinedElements DEF RecordType
    <3>4. p.held \in [Stream -> Bytes]
      BY <3>2, <3>3
    <3>5. p \in RecordType
      <4>1. p = [a EXCEPT !.held = p.held]
        BY <2>2 DEF RecordType
      <4> HIDE DEF p
      <4> QED  BY <2>2, <3>4, <4>1 DEF RecordType
    <3> HIDE DEF p
    <3>6. Proper(p)
      BY <2>2, <3>2, <3>5 DEF Proper, RecordType
    <3>7. \A h \in Handle : p.held[h] = IF h = given THEN o.held[h] \o b ELSE o.held[h]
      <4>1. \A h \in Handle : h \in Stream
        BY Names
      <4> QED  BY <3>2, <3>3, <4>1
    <3>8. OnlyHeld(p, s)
      <4> SUFFICES ASSUME NEW h \in Handle, p.held[h] # << >>
                   PROVE  s.target = "FILE" /\ s.handle = <<"STDIO", h>>
        BY DEF OnlyHeld
      <4>1. CASE h = given
        <5>1. given \notin Std
          BY <4>1, Names
        <5> QED  BY <2>3, <2>4, <4>1, <5>1
      <4>2. CASE h # given
        <5>1. o.held[h] # << >>
          BY <3>7, <4>2
        <5> QED  BY <5>1 DEF OnlyHeld
      <4> QED  BY <4>1, <4>2
    <3>9. Ordered(p)
      <4>1. ASSUME NEW h \in Handle
            PROVE  /\ Sorted(p.held[h]) /\ Below(p.held[h], p.buffer) /\ UpTo(p.held[h], Len(p.lines))
                   /\ p.opened[h][2] \in Path => Below(p.contents[p.opened[h][2]], p.held[h])
        <5>1. /\ Sorted(a.held[h]) /\ Below(a.held[h], a.buffer) /\ UpTo(a.held[h], Len(a.lines))
              /\ a.opened[h][2] \in Path => Below(a.contents[a.opened[h][2]], a.held[h])
          BY <2>2 DEF Ordered
        <5>2. Below(o.held[h], o.buffer)
              /\ (o.opened[h][2] \in Path => Below(o.contents[o.opened[h][2]], o.buffer))
          BY DEF Ordered
        <5>3. CASE h # given
          BY <2>2, <3>2, <3>7, <5>1, <5>3
        <5>4. CASE h = given
          <6>1. p.held[h] = o.held[h] \o b /\ o.held[h] \in Bytes
            BY <3>3, <3>7, <5>4
          <6>2. Sorted(o.held[h]) /\ Below(o.held[h], b) /\ Sorted(b)
            BY <2>2, <5>1, <5>2
          <6>3. Sorted(p.held[h])
            BY <2>2, <6>1, <6>2, Joined
          <6>4. Below(p.held[h], p.buffer)
            BY <2>2, <3>2, <5>1, <6>1, Joined
          <6>5. UpTo(p.held[h], Len(p.lines))
            BY <2>2, <3>2, <5>1, <6>1, Joined
          <6>6. ASSUME p.opened[h][2] \in Path PROVE Below(p.contents[p.opened[h][2]], p.held[h])
            <7> DEFINE c == o.contents[o.opened[h][2]]
            <7>1. Below(c, b) /\ Below(c, o.held[h])
              BY <2>2, <3>2, <5>1, <5>2, <6>6
            <7>2. p.contents[p.opened[h][2]] = c
              BY <3>2
            <7> HIDE DEF c
            <7> QED  BY <2>2, <6>1, <7>1, <7>2, Joined
          <6> QED  BY <6>3, <6>4, <6>5, <6>6
        <5> QED  BY <5>3, <5>4
      <4>2. \A g, h \in Handle : g # h => p.held[g] = << >> \/ p.held[h] = << >>
        <5> SUFFICES ASSUME NEW g \in Handle, NEW h \in Handle, p.held[g] # << >>, p.held[h] # << >>
                     PROVE  g = h
          OBVIOUS
        <5>1. s.handle = <<"STDIO", g>> /\ s.handle = <<"STDIO", h>>
          BY <3>8 DEF OnlyHeld
        <5> QED  BY <5>1
      <4> QED  BY <2>2, <3>2, <4>1, <4>2 DEF Ordered
    <3> QED  BY <2>2, <3>1, <3>2, <3>6, <3>8, <3>9 DEF SameFiles
  <2>5. CASE s.backend # "STDIO"
    <3> DEFINE x == Reaches(o, given)
               p == [a EXCEPT !.contents[x] = @ \o b]
    <3>1. w = p
      BY <2>1, <2>5 DEF a, b, given
    <3>2. /\ p.contents = [o.contents EXCEPT ![x] = @ \o b]
          /\ p.buffer = a.buffer /\ p.opened = o.opened /\ p.held = o.held
          /\ p.lines = o.lines /\ p.mishap = a.mishap
      BY <2>2 DEF RecordType
    <3>3. x \in Destination /\ (x \in Path => given \in Handle)
      BY <2>3, Names DEF Reaches
    <3> HIDE DEF x
    <3>4. o.contents \in [Destination -> Bytes] /\ o.contents[x] \in Bytes /\ o.contents[x] \o b \in Bytes
      BY <1>1, <2>2, <3>3, JoinedElements DEF RecordType
    <3>5. p.contents \in [Destination -> Bytes]
      BY <3>2, <3>4
    <3>6. p \in RecordType
      <4>1. p = [a EXCEPT !.contents = p.contents]
        BY <2>2 DEF RecordType
      <4> HIDE DEF p
      <4> QED  BY <2>2, <3>5, <4>1 DEF RecordType
    <3> HIDE DEF p
    <3>7. Proper(p)
      BY <2>2, <3>2, <3>6 DEF Proper, RecordType
    <3>8. OnlyHeld(p, s)
      BY <3>2 DEF OnlyHeld
    <3>9. \A d \in Path : p.contents[d] = IF d = x THEN o.contents[d] \o b ELSE o.contents[d]
      BY <3>2, <3>4, Names
    <3>10. x \in Path => \A h \in Handle : o.held[h] = << >>
      <4> SUFFICES ASSUME x \in Path, NEW h \in Handle, o.held[h] # << >> PROVE FALSE
        OBVIOUS
      <4>1. s.handle = <<"STDIO", h>>
        BY DEF OnlyHeld
      <4> QED  BY <2>3, <2>5, <4>1
    <3>11. Ordered(p)
      <4>1. ASSUME NEW d \in Path
            PROVE  /\ Sorted(p.contents[d]) /\ Below(p.contents[d], p.buffer)
                   /\ UpTo(p.contents[d], Len(p.lines))
        <5>1. /\ Sorted(a.contents[d]) /\ Below(a.contents[d], a.buffer) /\ UpTo(a.contents[d], Len(a.lines))
          BY <2>2 DEF Ordered
        <5>2. Below(o.contents[d], o.buffer)
          BY DEF Ordered
        <5>3. CASE d # x
          BY <2>2, <3>2, <3>9, <5>1, <5>3
        <5>4. CASE d = x
          <6>1. p.contents[d] = o.contents[d] \o b /\ o.contents[d] \in Bytes
            BY <3>4, <3>9, <5>4
          <6>2. Sorted(o.contents[d]) /\ Below(o.contents[d], b) /\ Below(o.contents[d], a.buffer)
                /\ UpTo(o.contents[d], Len(o.lines))
            BY <2>2, <5>1, <5>2
          <6> QED  BY <2>2, <3>2, <6>1, <6>2, Joined
        <5> QED  BY <5>3, <5>4
      <4>2. ASSUME NEW h \in Handle, o.opened[h][2] \in Path
            PROVE  Below(p.contents[o.opened[h][2]], o.held[h])
        <5>1. CASE o.opened[h][2] = x
          <6>1. o.held[h] = << >>
            BY <3>10, <4>2, <5>1
          <6> QED  BY <6>1, Nothing
        <5>2. CASE o.opened[h][2] # x
          <6>1. Below(o.contents[o.opened[h][2]], o.held[h])
            BY <4>2 DEF Ordered
          <6> QED  BY <3>9, <4>2, <5>2, <6>1
        <5> QED  BY <5>1, <5>2
      <4> QED  BY <2>2, <3>2, <4>1, <4>2 DEF Ordered
    <3> QED  BY <2>2, <3>1, <3>2, <3>7, <3>8, <3>11 DEF SameFiles
  <2> QED  BY <2>4, <2>5
<1>5. \/ s.handle = NoHandle /\ w = after(0)
      \/ s.handle # NoHandle /\ \E n \in 0 .. all : w = through(n)
  <2>1. CASE s.handle = NoHandle
    BY <2>1, Zenon DEF WrittenOut
  <2>2. CASE s.handle # NoHandle
    <3>1. w \in {through(n) : n \in IF MayFail("write") THEN 0 .. all ELSE {all}}
      BY <2>2, Zenon DEF WrittenOut
    <3> HIDE DEF through
    <3> QED  BY <1>1, <2>2, <3>1
  <2> QED  BY <2>1, <2>2
<1> QED  BY <1>3, <1>4, <1>5

LEMMA FlushedKeeps ==
  ASSUME NEW o, Proper(o), Ordered(o), NEW s, Fits(o, s), OnlyHeld(o, s), NEW f \in Flushed(o, s)
  PROVE  Proper(f.out) /\ Ordered(f.out) /\ SameFiles(o, f.out) /\ OnlyHeld(f.out, s)
<1>1. PICK w \in WrittenOut(o, s) :
        \/ f = [out |-> w, ok |-> FALSE]
        \/ f = [out |-> w, ok |-> TRUE]
        \/ s.handle # NoHandle /\ f \in PassedOn(w, s.handle[2])
  BY Zenon DEF Flushed
<1>2. Proper(w) /\ Ordered(w) /\ SameFiles(o, w) /\ OnlyHeld(w, s)
  BY WrittenOutKeeps
<1>3. CASE f = [out |-> w, ok |-> FALSE] \/ f = [out |-> w, ok |-> TRUE]
  <2>1. f.out = w
    BY <1>3
  <2> QED  BY <1>2, <2>1
<1>4. CASE s.handle # NoHandle /\ f \in PassedOn(w, s.handle[2])
  <2>1. s.handle[2] \in Stream
    BY <1>4 DEF Fits, SinkType
  <2>2. Passed(w, f.out)
    BY <1>2, <1>4, <2>1, PassedOnKeeps
  <2>3. OnlyHeld(f.out, s)
    BY <1>2, <2>2 DEF Passed, OnlyHeld
  <2> QED  BY <1>2, <2>2, <2>3 DEF Passed, SameFiles
<1> QED  BY <1>1, <1>3, <1>4

(***************************************************************************)
(* Opening and closing                                                     *)
(***************************************************************************)
Owns(s, h) == s.target = "FILE" /\ s.handle = <<s.backend, h>>

LEMMA ClosedKeeps ==
  ASSUME NEW o, Proper(o), Ordered(o), NEW s, Fits(o, s), OnlyHeld(o, s), NEW p \in Closed(o, s)
  PROVE  /\ Proper(p) /\ Ordered(p) /\ AllClear(p) /\ p.lines = o.lines
         /\ "close" \in p.mishap <=> "close" \in o.mishap
         /\ p.opened = [h \in Handle |-> IF Owns(s, h) THEN Unopened ELSE o.opened[h]]
<1>1. CASE s.target # "FILE"
  <2>1. p = o
    BY <1>1 DEF Closed
  <2>2. o.opened = [h \in Handle |-> o.opened[h]]
    BY DEF Proper, RecordType
  <2> QED  BY <1>1, <2>1, <2>2 DEF AllClear, OnlyHeld, Owns
<1>2. CASE s.target = "FILE"
  <2>1. PICK h \in Handle : s.handle = <<s.backend, h>> /\ o.opened[h] = <<s.backend, s.filepath>>
    BY <1>2 DEF Fits
  <2>2. s.backend \in Backend /\ s.filepath \in Path
    BY <1>2 DEF Fits, SinkType
  <2>3. o.opened[h] # Unopened /\ s.handle # NoHandle /\ s.handle[2] = h /\ h \in Stream
    BY <2>1, <2>2, Names
  <2> DEFINE gone(q) == [q EXCEPT !.opened[h] = Unopened, !.held[h] = << >>]
  <2>4. \/ \E r \in PassedOn(o, h) : p = gone(r.out)
        \/ s.backend # "STDIO" /\ p = gone(o)
    <3>1. p \in IF s.backend = "STDIO" THEN {gone(r.out) : r \in PassedOn(o, h)} ELSE {gone(o)}
      BY <1>2, <2>3, Zenon DEF Closed
    <3> HIDE DEF gone
    <3> QED  BY <3>1
  <2>5. ASSUME NEW q, Passed(o, q), p = gone(q)
        PROVE  /\ Proper(p) /\ Ordered(p) /\ AllClear(p) /\ p.lines = o.lines
               /\ "close" \in p.mishap <=> "close" \in o.mishap
               /\ p.opened = [o.opened EXCEPT ![h] = Unopened]
    <3>1. /\ q \in RecordType /\ Len(q.buffer) <= BUFFER_SIZE /\ q.opened = o.opened /\ q.lines = o.lines
          /\ ("close" \in q.mishap <=> "close" \in o.mishap)
          /\ \A g \in Handle : o.held[g] = << >> => q.held[g] = << >>
          /\ Ordered(q)
      BY <2>5 DEF Passed, Proper, RecordType
    <3>2. /\ p.buffer = q.buffer /\ p.opened = [q.opened EXCEPT ![h] = Unopened]
          /\ p.held = [q.held EXCEPT ![h] = << >>]
          /\ p.contents = q.contents /\ p.lines = q.lines /\ p.mishap = q.mishap
      BY <2>5, <3>1 DEF RecordType
    <3>3. /\ p.opened \in [Handle -> (Backend \X Path) \cup {Unopened}]
          /\ p.held \in [Stream -> Bytes]
      BY <3>1, <3>2, Nothing DEF RecordType
    <3>4. p \in RecordType
      <4>1. p = [q EXCEPT !.opened = p.opened, !.held = p.held]
        BY <2>5, <3>1 DEF RecordType
      <4> HIDE DEF gone
      <4> QED  BY <3>1, <3>3, <4>1 DEF RecordType
    <3> HIDE DEF gone
    <3>5. Proper(p)
      BY <3>1, <3>2, <3>4 DEF Proper, RecordType
    <3>6. AllClear(p)
      <4> SUFFICES ASSUME NEW g \in Handle PROVE p.held[g] = << >>
        BY DEF AllClear
      <4>1. g \in Stream
        BY Names
      <4>2. CASE g = h
        BY <2>3, <3>1, <3>2, <4>2 DEF RecordType
      <4>3. CASE g # h
        <5>1. o.held[g] = << >>
          BY <2>1, <4>3 DEF OnlyHeld
        <5> QED  BY <3>1, <3>2, <4>1, <4>3, <5>1 DEF RecordType
      <4> QED  BY <4>2, <4>3
    <3>7. Ordered(p)
      BY <3>1, <3>2, <3>6, Nothing DEF Ordered, AllClear
    <3> QED  BY <3>1, <3>2, <3>5, <3>6, <3>7
  <2>6. Passed(o, o)
    BY DEF Passed
  <2>7. \A r \in PassedOn(o, h) : Passed(o, r.out)
    BY <2>3, PassedOnKeeps
  <2>8. [o.opened EXCEPT ![h] = Unopened]
          = [g \in Handle |-> IF Owns(s, g) THEN Unopened ELSE o.opened[g]]
    <3>1. \A g \in Handle : Owns(s, g) <=> g = h
      BY <1>2, <2>1 DEF Owns
    <3> QED  BY <3>1 DEF Proper, RecordType
  <2> HIDE DEF gone
  <2> QED  BY <2>4, <2>5, <2>6, <2>7, <2>8
<1> QED  BY <1>1, <1>2

(***************************************************************************)
(* The inductive invariant                                                 *)
(***************************************************************************)
LInv ==
  /\ TypeOK /\ HandlesMatch /\ Ordered(Now)
  /\ Running => OnlyHeld(Now, sink)

LEMMA NowIs ==
  /\ Now.buffer = buffer /\ Now.opened = opened /\ Now.held = held
  /\ Now.contents = contents /\ Now.lines = lines /\ Now.mishap = mishap
BY DEF Now

LEMMA NowProper == ASSUME TypeOK PROVE Proper(Now) /\ sink \in SinkType
BY DEF TypeOK, Proper, SinkType, Bytes, Now, RecordType

LEMMA NowFits == ASSUME TypeOK, HandlesMatch, Running PROVE Fits(Now, sink)
<1>1. sink \in SinkType
  BY NowProper
<1>2. sink.target = "FILE" => sink.filepath \in Path
  BY <1>1 DEF HandlesMatch, SinkType
<1>3. ASSUME sink.target = "FILE"
      PROVE  \E h \in Handle : sink.handle = <<sink.backend, h>>
                               /\ opened[h] = <<sink.backend, sink.filepath>>
  <2>1. PICK h \in Handle : sink.handle = <<sink.backend, h>>
    BY <1>3 DEF HandlesMatch
  <2>2. opened[h] = <<sink.backend, sink.filepath>>
    BY <1>3, <2>1 DEF HandlesMatch
  <2> QED  BY <2>1, <2>2
<1>4. sink.target \in Std => sink.handle \in StdHandles(sink.backend, sink.target)
  BY DEF HandlesMatch
<1> QED  BY <1>1, <1>2, <1>3, <1>4, NowIs DEF Fits

(* A handler that comes to a proper and ordered state o. *)
LEMMA Arrived ==
  ASSUME NEW o, Proper(o), Ordered(o), Becomes(o), sink' \in SinkType,
         threshold' \in LogLevel, status' \in {"runs", "exited", "aborted"}
  PROVE  TypeOK' /\ Ordered(Now)'
<1>1. /\ buffer' = o.buffer /\ opened' = o.opened /\ held' = o.held
      /\ contents' = o.contents /\ lines' = o.lines /\ mishap' = o.mishap
  BY DEF Becomes
<1>2. TypeOK'
  BY <1>1 DEF TypeOK, Proper, SinkType, Bytes, RecordType
<1>3. /\ Now'.buffer = o.buffer /\ Now'.opened = o.opened /\ Now'.held = o.held
      /\ Now'.contents = o.contents /\ Now'.lines = o.lines /\ Now'.mishap = o.mishap
  BY <1>1 DEF Now
<1>4. Ordered(Now')
  BY <1>3 DEF Ordered
<1> QED  BY <1>2, <1>4

(* A handler that keeps the sink and its files. *)
LEMMA SinkKept ==
  ASSUME LInv, Running, NEW o, Proper(o), Ordered(o), o.opened = opened,
         ("close" \in o.mishap <=> "close" \in mishap), Becomes(o), OnlyHeld(o, sink),
         UNCHANGED sink, threshold' \in LogLevel, status' \in {"runs", "aborted"}
  PROVE  LInv'
<1>1. sink' \in SinkType
  BY NowProper DEF LInv
<1>2. TypeOK' /\ Ordered(Now)'
  BY <1>1, Arrived
<1>3. HandlesMatch'
  BY DEF LInv, HandlesMatch, Running, Becomes
<1>4. OnlyHeld(Now, sink)'
  <2>1. Now'.held = o.held
    BY DEF Now, Becomes
  <2> QED  BY <2>1 DEF OnlyHeld
<1> QED  BY <1>2, <1>3, <1>4 DEF LInv

(* The same for the levels and what is constant while the program runs. *)
LEMMA Levels == TypeOK /\ Running => threshold \in LogLevel /\ status = "runs"
BY DEF TypeOK, Running

(* What a setter has when the new sink is open *)
NewSink(o, backend, target, path) ==
  [backend |-> backend, target |-> target, filepath |-> path, handle |-> o.handle]
SinkOpened(o, backend, target, path) ==
  /\ Proper(o.out) /\ Ordered(o.out) /\ Fits(o.out, sink) /\ OnlyHeld(o.out, sink)
  /\ o.out.buffer = buffer /\ o.out.held = held /\ o.out.contents = contents
  /\ o.out.lines = lines /\ o.out.mishap = mishap
  /\ NewSink(o, backend, target, path) \in SinkType
  /\ target \in Std => o.handle \in StdHandles(backend, target) /\ o.out.opened = opened
  /\ target = "FILE" =>
        /\ path # NoPath
        /\ \E g \in Handle : /\ o.handle = <<backend, g>> /\ opened[g] = Unopened
                             /\ o.out.opened = [opened EXCEPT ![g] = <<backend, path>>]

LEMMA OpeningKeeps ==
  ASSUME LInv, Running, NEW backend \in Backend, NEW target \in Std \cup {"FILE"},
         NEW path \in Path \cup {NoPath}, NEW o \in Opening(backend, target, path)
  PROVE  SinkOpened(o, backend, target, path)
<1> DEFINE new == [backend |-> backend, target |-> target, filepath |-> path, handle |-> o.handle]
<1>5. /\ Proper(Now) /\ Ordered(Now) /\ Fits(Now, sink) /\ OnlyHeld(Now, sink) /\ sink \in SinkType
      /\ TypeOK /\ HandlesMatch /\ "close" \notin mishap
  BY NowProper, NowFits DEF LInv, HandlesMatch
<1>6. /\ Proper(o.out) /\ Ordered(o.out) /\ Fits(o.out, sink) /\ OnlyHeld(o.out, sink)
      /\ o.out.buffer = buffer /\ o.out.held = held /\ o.out.contents = contents
      /\ o.out.lines = lines /\ o.out.mishap = mishap
      /\ new \in SinkType
      /\ target \in Std => o.handle \in StdHandles(backend, target) /\ o.out.opened = opened
      /\ target = "FILE" =>
            /\ path # NoPath
            /\ \E g \in Handle : /\ o.handle = <<backend, g>> /\ opened[g] = Unopened
                                 /\ o.out.opened = [opened EXCEPT ![g] = <<backend, path>>]
  <2>1. CASE target \in Std
    <3>1. PICK x \in StdHandles(backend, target) : o = [handle |-> x, out |-> Now]
      BY <2>1 DEF Opening
    <3>2. o.handle = x /\ o.out = Now
      BY <3>1
    <3>3. x \in (Backend \X Stream) \cup {NoHandle}
      BY <2>1, Names DEF StdHandles
    <3>4. new \in SinkType
      BY <3>2, <3>3 DEF SinkType
    <3>5. target # "FILE"
      BY <2>1, Names
    <3> QED  BY <1>5, <2>1, <3>1, <3>2, <3>4, <3>5, NowIs
  <2>2. CASE target = "FILE"
    <3>1. target \notin Std
      BY <2>2, Names
    <3>2. /\ path # NoPath
          /\ o \in {[handle |-> <<backend, h>>, out |-> [Now EXCEPT !.opened[h] = <<backend, path>>]]
                    : h \in {g \in Handle : opened[g] = Unopened}}
      BY <3>1, Zenon DEF Opening
    <3>3. PICK g \in Handle :
            /\ opened[g] = Unopened
            /\ o = [handle |-> <<backend, g>>, out |-> [Now EXCEPT !.opened[g] = <<backend, path>>]]
      BY <3>2
    <3> DEFINE p == [Now EXCEPT !.opened[g] = <<backend, path>>]
    <3>4. o.handle = <<backend, g>> /\ o.out = p
      BY <3>3
    <3>5. /\ p.opened = [opened EXCEPT ![g] = <<backend, path>>]
          /\ p.buffer = buffer /\ p.held = held /\ p.contents = contents /\ p.lines = lines
          /\ p.mishap = mishap
      BY DEF Now
    <3>6. Proper(p)
      <4>0. opened \in [Handle -> (Backend \X Path) \cup {Unopened}] /\ path \in Path
        BY <1>5, <3>2 DEF TypeOK
      <4>1. p.opened \in [Handle -> (Backend \X Path) \cup {Unopened}]
        <5> HIDE DEF p
        <5> QED  BY <3>5, <4>0
      <4>2. p = [Now EXCEPT !.opened = p.opened]
        BY DEF Now
      <4>3. Now \in RecordType
        BY <1>5 DEF Proper, RecordType
      <4> HIDE DEF p
      <4>4. p \in RecordType
        BY <4>1, <4>2, <4>3 DEF RecordType
      <4> QED  BY <1>5, <3>5, <4>4, NowIs DEF Proper, RecordType
    <3> HIDE DEF p
    <3>7. \A h \in Handle : sink.target = "FILE" /\ sink.handle = <<sink.backend, h>> =>
                              h # g /\ opened[h] = <<sink.backend, sink.filepath>>
      <4> SUFFICES ASSUME NEW h \in Handle, sink.target = "FILE", sink.handle = <<sink.backend, h>>
                   PROVE  h # g /\ opened[h] = <<sink.backend, sink.filepath>>
        OBVIOUS
      <4>1. opened[h] = <<sink.backend, sink.filepath>>
        BY <1>5 DEF HandlesMatch
      <4>2. sink.backend \in Backend /\ sink.filepath \in Path
        BY <1>5 DEF Fits, SinkType
      <4> QED  BY <3>3, <4>1, <4>2, Names
    <3>8. Fits(p, sink)
      <4>1. ASSUME sink.target = "FILE"
            PROVE  \E h \in Handle : /\ sink.handle = <<sink.backend, h>>
                                     /\ p.opened[h] = <<sink.backend, sink.filepath>>
        <5>1. PICK h \in Handle : sink.handle = <<sink.backend, h>>
          BY <1>5, <4>1 DEF Fits
        <5>2. p.opened[h] = <<sink.backend, sink.filepath>>
          BY <1>5, <3>5, <3>7, <4>1, <5>1 DEF TypeOK
        <5> QED  BY <5>1, <5>2
      <4> QED  BY <1>5, <4>1 DEF Fits
    <3>9. held[g] = << >>
      <4> SUFFICES ASSUME held[g] # << >> PROVE FALSE
        OBVIOUS
      <4>1. sink.target = "FILE" /\ sink.handle = <<"STDIO", g>>
        BY <1>5, NowIs DEF OnlyHeld
      <4>2. PICK h \in Handle : sink.handle = <<sink.backend, h>>
        BY <1>5, <4>1 DEF Fits
      <4>3. h = g
        BY <4>1, <4>2
      <4> QED  BY <3>7, <4>1, <4>2, <4>3
    <3>10. Ordered(p)
      <4>1. ASSUME NEW h \in Handle, p.opened[h][2] \in Path
            PROVE  Below(p.contents[p.opened[h][2]], p.held[h])
        <5>1. CASE h = g
          BY <3>5, <3>9, <5>1, Nothing
        <5>2. CASE h # g
          <6>1. p.opened[h] = opened[h]
            BY <1>5, <3>5, <5>2 DEF TypeOK
          <6> QED  BY <1>5, <3>5, <4>1, <6>1, NowIs DEF Ordered
        <5> QED  BY <5>1, <5>2
      <4> QED  BY <1>5, <3>5, <4>1, NowIs DEF Ordered
    <3>11. OnlyHeld(p, sink)
      BY <1>5, <3>5, NowIs DEF OnlyHeld
    <3>12. new \in SinkType
      <4>1. o.handle \in Backend \X Stream
        BY <3>4, Names
      <4> QED  BY <4>1 DEF SinkType
    <3> QED
      BY <2>2, <3>1, <3>2, <3>3, <3>4, <3>5, <3>6, <3>8, <3>10, <3>11, <3>12
  <2> QED  BY <2>1, <2>2
<1> QED  BY <1>6 DEF SinkOpened, NewSink

LEMMA SwitchKeeps ==
  ASSUME LInv, Running, NEW backend \in Backend, NEW target \in Std \cup {"FILE"},
         NEW path \in Path \cup {NoPath}, Switch(backend, target, path),
         UNCHANGED threshold
  PROVE  LInv'
<1>1. PICK o \in Opening(backend, target, path) :
        LET new == [backend |-> backend, target |-> target, filepath |-> path, handle |-> o.handle]
        IN  \E f \in Flushed(o.out, sink) : \E c \in Closed(f.out, sink) :
            \E d \in Closed(c, MovedFrom(new)) : Becomes(d) /\ sink' = new
  BY Zenon DEF Switch
<1>0. UNCHANGED status
  BY DEF Switch
<1> DEFINE new == [backend |-> backend, target |-> target, filepath |-> path, handle |-> o.handle]
<1>2. PICK f \in Flushed(o.out, sink) : \E c \in Closed(f.out, sink) :
        \E d \in Closed(c, MovedFrom(new)) : Becomes(d) /\ sink' = new
  BY <1>1
<1>3. PICK c \in Closed(f.out, sink) :
        \E d \in Closed(c, MovedFrom(new)) : Becomes(d) /\ sink' = new
  BY <1>2
<1>4. Becomes(c) /\ sink' = new
  <2>1. PICK d \in Closed(c, MovedFrom(new)) : Becomes(d) /\ sink' = new
    BY <1>3
  <2>2. d = c
    BY DEF Closed, MovedFrom, DefaultSink
  <2> QED  BY <2>1, <2>2
<1>5. /\ Proper(Now) /\ Ordered(Now) /\ Fits(Now, sink) /\ OnlyHeld(Now, sink) /\ sink \in SinkType
      /\ TypeOK /\ HandlesMatch /\ "close" \notin mishap
  BY NowProper, NowFits DEF LInv, HandlesMatch
<1>6. /\ Proper(o.out) /\ Ordered(o.out) /\ Fits(o.out, sink) /\ OnlyHeld(o.out, sink)
      /\ o.out.buffer = buffer /\ o.out.held = held /\ o.out.contents = contents
      /\ o.out.lines = lines /\ o.out.mishap = mishap
      /\ new \in SinkType
      /\ target \in Std => o.handle \in StdHandles(backend, target) /\ o.out.opened = opened
      /\ target = "FILE" =>
            /\ path # NoPath
            /\ \E g \in Handle : /\ o.handle = <<backend, g>> /\ opened[g] = Unopened
                                 /\ o.out.opened = [opened EXCEPT ![g] = <<backend, path>>]
  <2>1. SinkOpened(o, backend, target, path)  BY OpeningKeeps
  <2> QED  BY <2>1 DEF SinkOpened, NewSink
<1> HIDE DEF new
<1>7. Proper(f.out) /\ Ordered(f.out) /\ SameFiles(o.out, f.out) /\ OnlyHeld(f.out, sink)
  BY <1>6, FlushedKeeps
<1>8. Fits(f.out, sink)
  BY <1>6, <1>7 DEF Fits, SameFiles
<1>9. /\ Proper(c) /\ Ordered(c) /\ AllClear(c)
      /\ "close" \in c.mishap <=> "close" \in f.out.mishap
      /\ c.opened = [h \in Handle |-> IF Owns(sink, h) THEN Unopened ELSE f.out.opened[h]]
  BY <1>7, <1>8, ClosedKeeps
<1>10. TypeOK' /\ Ordered(Now)'
  BY <1>0, <1>4, <1>5, <1>6, <1>9, Arrived, Levels
<1>11. /\ new.backend = backend /\ new.target = target /\ new.filepath = path /\ new.handle = o.handle
  BY DEF new
<1>12. HandlesMatch'
  <2>1. "close" \notin mishap'
    BY <1>4, <1>5, <1>6, <1>7, <1>9 DEF SameFiles, Becomes
  <2>2. \A h \in Handle : ~Owns(sink, h) => opened[h] = Unopened
    BY <1>5 DEF HandlesMatch, Owns
  <2>3. status' = "runs" /\ opened' = c.opened /\ f.out.opened = o.out.opened
    BY <1>0, <1>4, <1>5, <1>7, Levels DEF SameFiles, Becomes
  <2>4. CASE target \in Std
    <3>1. target # "FILE"
      BY <2>4, Names
    <3>2. \A h \in Handle : opened'[h] = Unopened
      BY <1>6, <1>9, <2>2, <2>3, <2>4
    <3> QED  BY <1>4, <1>6, <1>11, <2>1, <2>3, <2>4, <3>1, <3>2 DEF HandlesMatch
  <2>5. CASE target = "FILE"
    <3>1. PICK g \in Handle : /\ o.handle = <<backend, g>> /\ opened[g] = Unopened
                              /\ o.out.opened = [opened EXCEPT ![g] = <<backend, path>>]
      BY <1>6, <2>5
    <3>2. ~Owns(sink, g)
      <4> SUFFICES ASSUME Owns(sink, g) PROVE FALSE
        OBVIOUS
      <4>1. opened[g] = <<sink.backend, sink.filepath>>
        BY <1>5 DEF Owns, HandlesMatch
      <4>2. sink.backend \in Backend /\ sink.filepath \in Path
        BY <1>5 DEF Owns, Fits, SinkType
      <4> QED  BY <3>1, <4>1, <4>2, Names
    <3>3. \A h \in Handle : opened'[h] = IF h = g THEN <<backend, path>> ELSE Unopened
      BY <1>5, <1>9, <2>2, <2>3, <3>1, <3>2 DEF TypeOK
    <3>4. target \notin Std /\ path # NoPath
      BY <1>6, <2>5, Names
    <3>5. \A h \in Handle : o.handle = <<backend, h>> <=> h = g
      BY <3>1
    <3> QED  BY <1>4, <1>11, <2>1, <2>3, <2>5, <3>1, <3>3, <3>4, <3>5 DEF HandlesMatch
  <2> QED  BY <2>4, <2>5
<1>13. OnlyHeld(Now, sink)'
  <2>1. Now'.held = c.held
    BY <1>4 DEF Now, Becomes
  <2> QED  BY <1>9, <2>1 DEF OnlyHeld, AllClear
<1> QED  BY <1>10, <1>12, <1>13 DEF LInv

LEMMA SinkIsTyped == LInv => sink \in SinkType
BY NowProper DEF LInv

LEMMA TerminateKeeps ==
  ASSUME LInv, NEW target, NEW path, Terminate(target, path), UNCHANGED threshold
  PROVE  LInv'
<1>1. /\ UNCHANGED <<buffer, sink, opened, held, contents, lines, mishap, threshold>>
      /\ status' = "terminated" /\ Now' = Now
  BY DEF Terminate, Now
<1>2. TypeOK'
  BY <1>1 DEF LInv, TypeOK
<1>3. HandlesMatch'
  BY <1>1 DEF LInv, HandlesMatch, Running
<1> QED  BY <1>1, <1>2, <1>3 DEF LInv, Running

LEMMA SetSinkKeeps ==
  ASSUME LInv, NEW backend \in Backend, NEW target \in Std \cup {"FILE"},
         NEW path \in Path \cup {NoPath}, Set_sink(backend, target, path)
  PROVE  LInv'
<1>1. /\ Running /\ UNCHANGED threshold
      /\ Switch(backend, target, path) \/ Terminate(target, path)
  BY DEF Set_sink
<1> QED  BY <1>1, SwitchKeeps, TerminateKeeps

LEMMA InvInit == Init => LInv
<1> SUFFICES ASSUME Init PROVE LInv
  OBVIOUS
<1>1. /\ buffer = << >> /\ sink = DefaultSink /\ threshold = Info
      /\ opened = [h \in Handle |-> Unopened] /\ held = [x \in Stream |-> << >>]
      /\ contents = [d \in Destination |-> << >>] /\ lines = << >> /\ mishap = {}
      /\ status = "runs"
  BY DEF Init
<1>2. DefaultSink \in SinkType
  BY DEF DefaultSink, SinkType, Backend, Std, Stream
<1>3. TypeOK
  <2>1. << >> \in Seq(ByteRecord) /\ << >> \in Seq(1 .. MAX_LINE_LENGTH - 1)
        /\ Len(<< >>) <= BUFFER_SIZE
    BY SizeAssumption
  <2>2. Info \in LogLevel
    BY DEF Info, LogLevel
  <2> QED  BY <1>1, <1>2, <2>1, <2>2 DEF TypeOK, SinkType
<1>4. HandlesMatch
  <2>1. DefaultSink.target = "STDERR" /\ DefaultSink.backend = "STDIO"
        /\ DefaultSink.handle = <<"STDIO", "STDERR">>
    BY DEF DefaultSink
  <2> QED  BY <1>1, <2>1 DEF HandlesMatch, Running, StdHandles, Std
<1>5. Ordered(Now)
  <2>1. /\ \A d \in Path : contents[d] = << >>
        /\ \A h \in Handle : held[h] = << >>
    BY <1>1, Names
  <2> QED  BY <1>1, <2>1, Nothing, NowIs DEF Ordered
<1>6. OnlyHeld(Now, sink)
  BY <1>1, Names, NowIs DEF OnlyHeld
<1> QED  BY <1>3, <1>4, <1>5, <1>6 DEF LInv

(***************************************************************************)
(* Every call keeps the invariant                                          *)
(***************************************************************************)
LEMMA LogKeeps ==
  ASSUME LInv, NEW level \in UsedLevel, NEW n \in TextLength, Log(level, n)
  PROVE  LInv'
<1> DEFINE p == Entered(Now, level, n)
<1>1. Running /\ Becomes(p) /\ UNCHANGED <<sink, threshold, status>>
  BY DEF Log
<1>2. n \in Nat \ {0} /\ Proper(Now) /\ Ordered(Now) /\ OnlyHeld(Now, sink)
  BY <1>1, UseAssumption, NowProper DEF LInv
<1>3. /\ Proper(p) /\ Ordered(p) /\ p.opened = opened /\ p.held = held /\ p.mishap = mishap
  BY <1>2, EnteredKeeps, NowIs
<1> HIDE DEF p
<1>4. OnlyHeld(p, sink)
  BY <1>2, <1>3, NowIs DEF OnlyHeld
<1>5. threshold' \in LogLevel /\ status' = "runs"
  BY <1>1, Levels DEF LInv
<1> QED  BY <1>1, <1>3, <1>4, <1>5, SinkKept

LEMMA FlushKeeps ==
  ASSUME LInv, Flush
  PROVE  LInv'
<1>1. PICK f \in Flushed(Now, sink) : Becomes(f.out)
  BY DEF Flush
<1>2. Running /\ UNCHANGED <<sink, threshold, status>>
  BY DEF Flush
<1>3. /\ Proper(f.out) /\ Ordered(f.out) /\ SameFiles(Now, f.out) /\ OnlyHeld(f.out, sink)
  BY <1>2, FlushedKeeps, NowProper, NowFits DEF LInv
<1>4. threshold' \in LogLevel /\ status' = "runs"
  BY <1>2, Levels DEF LInv
<1> QED  BY <1>1, <1>2, <1>3, <1>4, SinkKept, NowIs DEF SameFiles

LEMMA SpillKeeps ==
  ASSUME LInv, NEW stream \in Stream, Spill(stream)
  PROVE  LInv'
<1>1. PICK n \in 1 .. Len(held[stream]) : Becomes(Arrive(Now, stream, n))
  BY DEF Spill
<1>2. Running /\ UNCHANGED <<sink, threshold, status>>
  BY DEF Spill
<1>3. /\ Proper(Now) /\ Ordered(Now) /\ OnlyHeld(Now, sink)
  BY <1>2, NowProper DEF LInv
<1> DEFINE p == Arrive(Now, stream, n)
<1>4. n \in 0 .. Len(Now.held[stream])
  BY NowIs
<1>5. /\ Proper(p) /\ Ordered(p) /\ p.opened = opened /\ p.mishap = mishap
      /\ \A h \in Handle : held[h] = << >> => p.held[h] = << >>
  BY <1>3, <1>4, ArriveKeeps, NowIs
<1>6. Becomes(p)
  BY <1>1
<1> HIDE DEF p
<1>7. OnlyHeld(p, sink)
  BY <1>3, <1>5, NowIs DEF OnlyHeld
<1>8. threshold' \in LogLevel /\ status' = "runs"
  BY <1>2, Levels DEF LInv
<1> QED  BY <1>2, <1>5, <1>6, <1>7, <1>8, SinkKept

LEMMA GiveUpKeeps ==
  ASSUME LInv, NEW n \in TextLength, Give_up(n)
  PROVE  LInv'
<1> DEFINE p == Entered(Now, Fatal, n)
<1>1. PICK f \in Flushed(p, sink) : Becomes(f.out)
  BY DEF Give_up
<1>2. Running /\ UNCHANGED <<sink, threshold>> /\ status' = "aborted"
  BY DEF Give_up
<1>3. /\ n \in Nat \ {0} /\ Proper(Now) /\ Ordered(Now) /\ OnlyHeld(Now, sink) /\ Fits(Now, sink)
  BY <1>2, UseAssumption, NowProper, NowFits DEF LInv
<1>4. /\ Proper(p) /\ Ordered(p) /\ p.opened = opened /\ p.held = held /\ p.mishap = mishap
  BY <1>3, EnteredKeeps, NowIs
<1> HIDE DEF p
<1>5. OnlyHeld(p, sink) /\ Fits(p, sink)
  BY <1>3, <1>4, NowIs DEF OnlyHeld, Fits
<1>6. Proper(f.out) /\ Ordered(f.out) /\ SameFiles(p, f.out) /\ OnlyHeld(f.out, sink)
  BY <1>4, <1>5, FlushedKeeps
<1>7. threshold' \in LogLevel
  BY <1>2, Levels DEF LInv
<1> QED  BY <1>1, <1>2, <1>4, <1>6, <1>7, SinkKept DEF SameFiles

LEMMA AbortKeeps ==
  ASSUME LInv, NEW reason \in TextLength, NEW what \in TextLength, Abort_on_bad_alloc(reason, what)
  PROVE  LInv'
<1>1. /\ Running /\ sink' = [DefaultSink EXCEPT !.filepath = sink.filepath]
      /\ status' = "aborted" /\ UNCHANGED threshold
  BY DEF Abort_on_bad_alloc
<1>2. PICK c \in Closed(Now, sink) : \E f \in Flushed(c, sink') :
       LET told == Entered(Entered(f.out, Error, reason), Error, what)
       IN  \E g \in Flushed(told, sink') : Becomes(g.out)
  BY Zenon DEF Abort_on_bad_alloc
<1>3. PICK f \in Flushed(c, sink') :
       LET told == Entered(Entered(f.out, Error, reason), Error, what)
       IN  \E g \in Flushed(told, sink') : Becomes(g.out)
  BY <1>2
<1> DEFINE once == Entered(f.out, Error, reason)
           told == Entered(once, Error, what)
<1>4. PICK g \in Flushed(told, sink') : Becomes(g.out)
  BY <1>3
<1>5. /\ reason \in Nat \ {0} /\ what \in Nat \ {0} /\ sink \in SinkType
      /\ Proper(Now) /\ Ordered(Now) /\ OnlyHeld(Now, sink) /\ Fits(Now, sink)
  BY <1>1, UseAssumption, NowProper, NowFits DEF LInv
<1>6. /\ Proper(c) /\ Ordered(c) /\ AllClear(c)
      /\ "close" \in c.mishap <=> "close" \in mishap
  BY <1>5, ClosedKeeps, NowIs
<1>7. /\ sink' \in SinkType /\ sink'.target = "STDERR" /\ sink'.backend = "STDIO"
      /\ sink'.handle = <<"STDIO", "STDERR">>
  BY <1>1, <1>5 DEF DefaultSink, SinkType, Backend, Std, Stream
<1>8. \A o : Fits(o, sink')
  BY <1>7 DEF Fits, StdHandles, Std
<1>9. Proper(f.out) /\ Ordered(f.out) /\ SameFiles(c, f.out) /\ OnlyHeld(f.out, sink')
  <2>1. OnlyHeld(c, sink')
    BY <1>6 DEF OnlyHeld, AllClear
  <2> QED  BY <1>6, <1>8, <2>1, FlushedKeeps
<1>10. /\ Proper(once) /\ Ordered(once) /\ once.held = f.out.held /\ once.mishap = f.out.mishap
  BY <1>5, <1>9, EnteredKeeps
<1>11. /\ Proper(told) /\ Ordered(told) /\ told.held = once.held /\ told.mishap = once.mishap
  <2> HIDE DEF once
  <2> QED  BY <1>5, <1>10, EnteredKeeps
<1> HIDE DEF once, told
<1>12. OnlyHeld(told, sink')
  BY <1>9, <1>10, <1>11 DEF OnlyHeld
<1>13. Proper(g.out) /\ Ordered(g.out) /\ SameFiles(told, g.out)
  BY <1>8, <1>11, <1>12, FlushedKeeps
<1>14. threshold' \in LogLevel
  BY <1>1, Levels DEF LInv
<1>15. TypeOK' /\ Ordered(Now)'
  BY <1>1, <1>4, <1>7, <1>13, <1>14, Arrived
<1>16. HandlesMatch'
  <2>1. "close" \notin mishap'
    BY <1>4, <1>6, <1>9, <1>10, <1>11, <1>13 DEF LInv, HandlesMatch, SameFiles, Becomes
  <2> QED  BY <1>1, <2>1 DEF HandlesMatch, Running
<1> QED  BY <1>1, <1>15, <1>16 DEF LInv, Running

LEMMA ExitKeeps ==
  ASSUME LInv, Exit
  PROVE  LInv'
<1>1. Running /\ sink' = AfterClose(sink) /\ status' = "exited" /\ UNCHANGED threshold
  BY DEF Exit
<1>2. PICK f \in AtExit(Now, sink) : \E c \in Closed(f.out, sink) :
       \E d \in Closed(c, AfterClose(sink)) :
       \E p \in PassedOn(d, "STDOUT") : \E q \in PassedOn(p.out, "STDERR") : Becomes(q.out)
  BY DEF Exit
<1>3. PICK c \in Closed(f.out, sink) :
       \E d \in Closed(c, AfterClose(sink)) :
       \E p \in PassedOn(d, "STDOUT") : \E q \in PassedOn(p.out, "STDERR") : Becomes(q.out)
  BY <1>2
<1>4. PICK p \in PassedOn(c, "STDOUT") : \E q \in PassedOn(p.out, "STDERR") : Becomes(q.out)
  <2>1. Closed(c, AfterClose(sink)) = {c}
    <3>1. CASE sink.target # "FILE"
      BY <3>1 DEF Closed, AfterClose
    <3>2. CASE sink.target = "FILE"
      <4>1. AfterClose(sink).handle = NoHandle
        BY <1>1, <3>2, NowProper DEF AfterClose, SinkType, LInv
      <4> QED  BY <4>1 DEF Closed
    <3> QED  BY <3>1, <3>2
  <2> QED  BY <1>3, <2>1
<1>5. PICK q \in PassedOn(p.out, "STDERR") : Becomes(q.out)
  BY <1>4
<1>6. /\ sink \in SinkType /\ Proper(Now) /\ Ordered(Now) /\ OnlyHeld(Now, sink) /\ Fits(Now, sink)
      /\ HandlesMatch
  BY <1>1, NowProper, NowFits DEF LInv
<1>7. Proper(f.out) /\ Ordered(f.out) /\ SameFiles(Now, f.out) /\ OnlyHeld(f.out, sink)
  BY <1>6, FlushedKeeps DEF AtExit
<1>8. Fits(f.out, sink)
  BY <1>6, <1>7 DEF Fits, SameFiles
<1>9. /\ Proper(c) /\ Ordered(c)
      /\ "close" \in c.mishap <=> "close" \in f.out.mishap
      /\ c.opened = [h \in Handle |-> IF Owns(sink, h) THEN Unopened ELSE f.out.opened[h]]
  BY <1>7, <1>8, ClosedKeeps
<1>10. "STDOUT" \in Stream /\ "STDERR" \in Stream
  BY DEF Stream, Std
<1>11. Passed(c, p.out) /\ Passed(p.out, q.out)
  BY <1>9, <1>10, PassedOnKeeps DEF Passed
<1>12. sink' \in SinkType
  BY <1>1, <1>6 DEF AfterClose, SinkType
<1>13. threshold' \in LogLevel
  BY <1>1, Levels DEF LInv
<1>14. TypeOK' /\ Ordered(Now)'
  BY <1>1, <1>5, <1>11, <1>12, <1>13, Arrived DEF Passed
<1>15. HandlesMatch'
  <2>1. "close" \notin mishap'
    BY <1>5, <1>6, <1>7, <1>9, <1>11, NowIs DEF HandlesMatch, SameFiles, Passed, Becomes
  <2>2. \A h \in Handle : opened'[h] = Unopened
    <3>1. opened' = c.opened /\ f.out.opened = opened
      BY <1>5, <1>7, <1>11, NowIs DEF SameFiles, Passed, Becomes
    <3>2. \A h \in Handle : ~Owns(sink, h) => opened[h] = Unopened
      BY <1>1, <1>6 DEF HandlesMatch, Owns
    <3> QED  BY <1>9, <3>1, <3>2
  <2> QED  BY <1>1, <2>1, <2>2 DEF HandlesMatch, Running
<1> QED  BY <1>1, <1>14, <1>15 DEF LInv, Running

LEMMA InvStep == LInv /\ [Next]_vars => LInv'
<1> SUFFICES ASSUME LInv, [Next]_vars PROVE LInv'
  OBVIOUS
<1>1. ASSUME NEW level \in UsedLevel, NEW n \in TextLength, Log(level, n) PROVE LInv'
  BY <1>1, LogKeeps
<1>2. CASE Flush  BY <1>2, FlushKeeps
<1>3. ASSUME NEW level \in UsedLevel, Set_threshold(level) PROVE LInv'
  <2>1. Running /\ threshold' = level /\ level \in LogLevel
    BY <1>3, UseAssumption DEF Set_threshold
  <2>2. UNCHANGED <<buffer, sink, opened, held, contents, lines, mishap, status>>
    BY <1>3 DEF Set_threshold
  <2>3. Now' = Now
    BY <2>2 DEF Now
  <2>4. TypeOK' /\ HandlesMatch'
    BY <2>1, <2>2 DEF LInv, TypeOK, HandlesMatch, Running
  <2>5. Ordered(Now') /\ OnlyHeld(Now', sink')
    BY <2>1, <2>2, <2>3 DEF LInv
  <2> QED  BY <2>4, <2>5 DEF LInv
<1>4. ASSUME NEW backend \in Backend, Set_backend(backend) PROVE LInv'
  <2>1. Set_sink(backend, sink.target, sink.filepath)
    BY <1>4 DEF Set_backend
  <2>2. sink.target \in Std \cup {"FILE"} /\ sink.filepath \in Path \cup {NoPath}
    BY SinkIsTyped DEF SinkType
  <2> QED  BY <2>1, <2>2, SetSinkKeeps
<1>5. ASSUME NEW target \in Std, Set_target_std(target) PROVE LInv'
  <2>1. Set_sink(sink.backend, target, NoPath)
    BY <1>5 DEF Set_target_std
  <2>2. sink.backend \in Backend
    BY SinkIsTyped DEF SinkType
  <2> QED  BY <2>1, <2>2, SetSinkKeeps
<1>6. ASSUME NEW path \in Path, Set_target_file(path) PROVE LInv'
  <2>1. Set_sink(sink.backend, "FILE", path)
    BY <1>6 DEF Set_target_file
  <2>2. sink.backend \in Backend
    BY SinkIsTyped DEF SinkType
  <2> QED  BY <2>1, <2>2, SetSinkKeeps
<1>7. ASSUME NEW reason \in TextLength, NEW what \in TextLength, Abort_on_bad_alloc(reason, what)
      PROVE  LInv'
  BY <1>7, AbortKeeps
<1>8. ASSUME NEW n \in TextLength, Give_up(n) PROVE LInv'
  BY <1>8, GiveUpKeeps
<1>9. CASE Exit  BY <1>9, ExitKeeps
<1>10. ASSUME NEW stream \in Stream, Spill(stream) PROVE LInv'
  BY <1>10, SpillKeeps
<1>11. CASE Ended \/ UNCHANGED vars
  <2>1. UNCHANGED vars
    BY <1>11 DEF Ended
  <2>2. Now' = Now
    BY <2>1 DEF Now, vars
  <2>3. TypeOK' /\ HandlesMatch'
    BY <2>1 DEF LInv, TypeOK, HandlesMatch, Running, vars
  <2>4. Ordered(Now') /\ (Running' => OnlyHeld(Now', sink'))
    BY <2>1, <2>2 DEF LInv, Running, vars
  <2> QED  BY <2>3, <2>4 DEF LInv
<1> QED
  BY <1>1, <1>2, <1>3, <1>4, <1>5, <1>6, <1>7, <1>8, <1>9, <1>10, <1>11 DEF Next

LEMMA InvCorrect == Spec => []LInv
BY InvInit, InvStep, PTL DEF Spec

(***************************************************************************)
(* The theorems                                                            *)
(***************************************************************************)

(* Buffer and lines keep their bounds, the sink its parts: for any sizes   *)
(* (log(), flush(), the setters).                                          *)
THEOREM TypeCorrect == Spec => []TypeOK
<1>1. LInv => TypeOK
  BY DEF LInv
<1> QED  BY <1>1, InvCorrect, PTL

(* However sinks are opened, moved, closed and destroyed, the Logger's has *)
(* the one open handle, and none is closed twice or left open (the setters,*)
(* Sink::operator=, ~Sink(), ~Logger()).                                   *)
THEOREM HandlesCorrect == Spec => []HandlesMatch
<1>1. LInv => HandlesMatch
  BY DEF LInv
<1> QED  BY <1>1, InvCorrect, PTL

(* A file gets its bytes in the order they were logged, none twice, for    *)
(* any number of lines and failures (flush(), Sink::write()).              *)
THEOREM OrderCorrect == Spec => []OrderKept
<1>1. LInv => OrderKept
  <2> SUFFICES ASSUME LInv, NEW d \in Path PROVE Sorted(contents[d])
    BY DEF OrderKept, Sorted
  <2> QED  BY NowIs DEF LInv, Ordered
<1> QED  BY <1>1, InvCorrect, PTL

(***************************************************************************)
(* Whole lines, and where a byte is                                        *)
(***************************************************************************)

(* A sequence that begins and ends where a line does *)
Lengths == Seq(1 .. MAX_LINE_LENGTH - 1)
WholeAt(seq, lens, p) ==
  /\ seq[p].line \in DOMAIN lens
  /\ seq[p].newline <=> seq[p].at = lens[seq[p].line]
  /\ seq[p].newline \/ (p < Len(seq) /\ seq[p + 1].line = seq[p].line)
Whole(seq, lens) == \A p \in DOMAIN seq : WholeAt(seq, lens, p)

LEMMA PlacesOfNothing == \A i, k : Places(<< >>, i, k) = {}
BY DEF Places

LEMMA WholeNothing == \A lens : Whole(<< >>, lens)
BY DEF Whole

LEMMA JoinedWhole ==
  ASSUME NEW a \in Bytes, NEW b \in Bytes, NEW lens, Whole(a, lens), Whole(b, lens)
  PROVE  Whole(a \o b, lens)
<1>1. /\ Len(a) \in Nat /\ Len(b) \in Nat /\ Len(a \o b) = Len(a) + Len(b)
      /\ DOMAIN a = 1 .. Len(a) /\ DOMAIN b = 1 .. Len(b) /\ DOMAIN (a \o b) = 1 .. Len(a) + Len(b)
      /\ \A p \in 1 .. Len(a) : (a \o b)[p] = a[p]
      /\ \A p \in 1 .. Len(b) : (a \o b)[p + Len(a)] = b[p]
  BY DEF Bytes
<1> DEFINE c == a \o b
<1> HIDE DEF c
<1> SUFFICES ASSUME NEW p \in 1 .. Len(a) + Len(b) PROVE WholeAt(c, lens, p)
  BY <1>1 DEF Whole, c
<1>2. CASE p <= Len(a)
  <2>1. p \in 1 .. Len(a) /\ c[p] = a[p] /\ WholeAt(a, lens, p)  BY <1>1, <1>2 DEF Whole, c
  <2>2. p < Len(a) => c[p + 1] = a[p + 1] /\ p < Len(c)
    <3> SUFFICES ASSUME p < Len(a) PROVE c[p + 1] = a[p + 1] /\ p < Len(c)
      OBVIOUS
    <3>1. p + 1 \in 1 .. Len(a)  BY <1>1
    <3> QED  BY <1>1, <3>1 DEF c
  <2> QED  BY <2>1, <2>2 DEF WholeAt
<1>3. CASE p > Len(a)
  <2> DEFINE q == p - Len(a)
  <2>1. q \in 1 .. Len(b) /\ p = q + Len(a)  BY <1>1, <1>3
  <2>2. c[p] = b[q] /\ WholeAt(b, lens, q)  BY <1>1, <2>1 DEF Whole, c
  <2>3. q < Len(b) => c[p + 1] = b[q + 1] /\ p < Len(c)
    <3> SUFFICES ASSUME q < Len(b) PROVE c[p + 1] = b[q + 1] /\ p < Len(c)
      OBVIOUS
    <3>1. q + 1 \in 1 .. Len(b) /\ p + 1 = (q + 1) + Len(a)  BY <1>1, <2>1
    <3>2. c[(q + 1) + Len(a)] = b[q + 1]  BY <1>1, <3>1 DEF c
    <3>3. p < Len(c)  BY <1>1, <2>1 DEF c
    <3> QED  BY <3>1, <3>2, <3>3
  <2> HIDE DEF q
  <2> QED  BY <2>2, <2>3 DEF WholeAt
<1> QED  BY <1>1, <1>2, <1>3

Single(S) == \E p : S = {p}

(* A byte of a joined sequence is in one part or the other. *)
LEMMA JoinedPlaces ==
  ASSUME NEW a \in Bytes, NEW b \in Bytes, NEW i, NEW k
  PROVE  /\ Places(b, i, k) = {} => Places(a \o b, i, k) = Places(a, i, k)
         /\ Places(a, i, k) = {} /\ Single(Places(b, i, k)) => Single(Places(a \o b, i, k))
<1>1. /\ Len(a) \in Nat /\ Len(b) \in Nat
      /\ DOMAIN a = 1 .. Len(a) /\ DOMAIN b = 1 .. Len(b) /\ DOMAIN (a \o b) = 1 .. Len(a) + Len(b)
      /\ \A p \in 1 .. Len(a) : (a \o b)[p] = a[p]
      /\ \A p \in 1 .. Len(b) : (a \o b)[p + Len(a)] = b[p]
  BY DEF Bytes
<1> DEFINE c == a \o b
<1> HIDE DEF c
<1>2. \A p \in 1 .. Len(a) + Len(b) : p \in 1 .. Len(a) \/ p - Len(a) \in 1 .. Len(b)
  BY <1>1
<1>3. \A p \in 1 .. Len(a) : p \in 1 .. Len(a) + Len(b) /\ (p \in Places(c, i, k) <=> p \in Places(a, i, k))
  BY <1>1 DEF Places, c
<1>4. \A p \in 1 .. Len(b) : p + Len(a) \in 1 .. Len(a) + Len(b)
                            /\ (p + Len(a) \in Places(c, i, k) <=> p \in Places(b, i, k))
  BY <1>1 DEF Places, c
<1>5. /\ Places(c, i, k) \subseteq 1 .. Len(a) + Len(b)
      /\ Places(a, i, k) \subseteq 1 .. Len(a) /\ Places(b, i, k) \subseteq 1 .. Len(b)
  BY <1>1 DEF Places, c
<1>6. ASSUME NEW p \in 1 .. Len(a) + Len(b), p \notin 1 .. Len(a)
      PROVE  p - Len(a) \in 1 .. Len(b) /\ p = (p - Len(a)) + Len(a)
  BY <1>1, <1>6
<1>7. ASSUME Places(b, i, k) = {} PROVE Places(c, i, k) = Places(a, i, k)
  <2>1. ASSUME NEW p \in Places(c, i, k) PROVE p \in Places(a, i, k)
    <3>1. p \in 1 .. Len(a)  BY <1>4, <1>5, <1>6, <1>7
    <3> QED  BY <1>3, <3>1
  <2> QED  BY <1>3, <1>5, <2>1
<1>8. ASSUME Places(a, i, k) = {}, NEW q, Places(b, i, k) = {q} PROVE Places(c, i, k) = {q + Len(a)}
  <2>1. ASSUME NEW p \in Places(c, i, k) PROVE p = q + Len(a)
    <3>1. p \notin 1 .. Len(a)  BY <1>3, <1>8
    <3>2. p - Len(a) \in Places(b, i, k)  BY <1>4, <1>5, <1>6, <3>1
    <3> QED  BY <1>5, <1>6, <1>8, <3>1, <3>2
  <2>2. q + Len(a) \in Places(c, i, k)  BY <1>4, <1>5, <1>8
  <2> QED  BY <2>1, <2>2
<1> QED  BY <1>7, <1>8 DEF c, Single

(***************************************************************************)
(* What holds of the states a handler comes to                             *)
(***************************************************************************)
Clean(o) == o.mishap \cap {"write", "flush"} = {}
Empty(o) == \A x \in Stream : o.held[x] = << >>

(* A byte is in the buffer, or it is at one destination. *)
Waits(o, i, k) ==
  /\ Single(Places(o.buffer, i, k))
  /\ \A d \in Destination : Places(o.contents[d], i, k) = {}
Landed(o, i, k) ==
  /\ Places(o.buffer, i, k) = {}
  /\ \E d \in Destination : /\ Single(Places(o.contents[d], i, k))
                            /\ \A e \in Destination \ {d} : Places(o.contents[e], i, k) = {}
Once(o) == \A i \in DOMAIN o.lines : \A k \in 1 .. o.lines[i] : Waits(o, i, k) \/ Landed(o, i, k)

AllWhole(o) == Whole(o.buffer, o.lines) /\ \A d \in Destination : Whole(o.contents[d], o.lines)
Safe(o) == Clean(o) => Empty(o) /\ AllWhole(o) /\ Once(o)

LEMMA LineWhole ==
  ASSUME NEW n \in Nat \ {0}, NEW lens \in Lengths
  PROVE  LET number == Len(lens) + 1
             line == Line(number, n)
         IN  /\ Whole(line, Append(lens, LineLength(n)))
             /\ \A k \in 1 .. LineLength(n) : Places(line, number, k) = {k}
             /\ \A i \in DOMAIN lens : \A k : Places(line, i, k) = {}
<1> DEFINE number == Len(lens) + 1
           line == Line(number, n)
           more == Append(lens, LineLength(n))
<1>1. /\ Len(lens) \in Nat /\ number \in Nat /\ DOMAIN lens = 1 .. Len(lens)
      /\ LineLength(n) \in 1 .. MAX_LINE_LENGTH - 1 /\ MAX_LINE_LENGTH \in Nat
  BY LineIs, SizeAssumption DEF Lengths
<1>2. /\ line \in Bytes /\ Len(line) = LineLength(n) /\ DOMAIN line = 1 .. LineLength(n)
      /\ \A p \in 1 .. LineLength(n) : line[p].line = number /\ line[p].at = p
  BY <1>1, LineIs DEF Bytes
<1>3. \A p \in 1 .. LineLength(n) : line[p].newline = (p = NewlineAt(n))
  BY <1>1 DEF Line
<1>4. NewlineAt(n) = LineLength(n)  BY DEF NewlineAt, LineLength
<1>5. number \in DOMAIN more /\ more[number] = LineLength(n)  BY <1>1 DEF Lengths
<1> HIDE DEF line, more, number
<1>6. ASSUME NEW p \in 1 .. LineLength(n) PROVE WholeAt(line, more, p)
  <2>1. line[p].newline <=> p = LineLength(n)  BY <1>3, <1>4
  <2>2. p < LineLength(n) => p + 1 \in 1 .. LineLength(n)  BY <1>1
  <2>3. p < LineLength(n) \/ p = LineLength(n)  BY <1>1
  <2> QED  BY <1>2, <1>5, <2>1, <2>2, <2>3 DEF WholeAt
<1>7. Whole(line, more)  BY <1>2, <1>6 DEF Whole
<1>8. ASSUME NEW k \in 1 .. LineLength(n) PROVE Places(line, number, k) = {k}
  BY <1>2 DEF Places
<1>9. ASSUME NEW i \in DOMAIN lens, NEW k PROVE Places(line, i, k) = {}
  <2>1. i # number  BY <1>1 DEF number
  <2> QED  BY <1>2, <2>1 DEF Places
<1> QED  BY <1>7, <1>8, <1>9 DEF line, more, number

(* Nothing that was there before changes with one line more. *)
LEMMA MoreLines ==
  ASSUME NEW lens \in Lengths, NEW len \in 1 .. MAX_LINE_LENGTH - 1, NEW seq \in Bytes, Whole(seq, lens)
  PROVE  /\ Whole(seq, Append(lens, len))
         /\ \A k : Places(seq, Len(lens) + 1, k) = {}
<1>1. /\ \A i \in DOMAIN lens : i \in DOMAIN Append(lens, len) /\ Append(lens, len)[i] = lens[i]
      /\ Len(lens) + 1 \notin DOMAIN lens
  BY DEF Lengths
<1>2. Whole(seq, Append(lens, len))
  <2> SUFFICES ASSUME NEW p \in DOMAIN seq PROVE WholeAt(seq, Append(lens, len), p)
    BY DEF Whole
  <2>1. WholeAt(seq, lens, p)  BY DEF Whole
  <2> QED  BY <1>1, <2>1 DEF WholeAt
<1>3. \A k : Places(seq, Len(lens) + 1, k) = {}
  BY <1>1 DEF Places, Whole, WholeAt
<1> QED  BY <1>2, <1>3

LEMMA EnteredSafe ==
  ASSUME NEW o, Proper(o), Safe(o), NEW level, NEW n \in Nat \ {0}
  PROVE  Safe(Entered(o, level, n))
<1> DEFINE number == Len(o.lines) + 1
           line == Line(number, n)
           len == LineLength(n)
           p == [o EXCEPT !.buffer = @ \o line, !.lines = Append(@, len)]
<1>1. CASE Entered(o, level, n) = o  BY <1>1
<1>2. CASE Entered(o, level, n) = p
  <2>1. /\ p.buffer = o.buffer \o line /\ p.lines = Append(o.lines, len)
        /\ p.held = o.held /\ p.contents = o.contents /\ p.mishap = o.mishap
        /\ o.lines \in Lengths /\ o.buffer \in Bytes /\ o.contents \in [Destination -> Bytes]
    BY DEF Proper, RecordType, Lengths
  <2>2. /\ Len(o.lines) \in Nat /\ number \in Nat /\ DOMAIN o.lines = 1 .. Len(o.lines)
        /\ len \in 1 .. MAX_LINE_LENGTH - 1 /\ line \in Bytes
    BY <2>1, LineIs DEF Lengths
  <2>0. o.buffer \in Bytes /\ line \in Bytes  BY <2>1, <2>2
  <2>3. /\ Whole(line, Append(o.lines, len))
        /\ \A k \in 1 .. len : Places(line, number, k) = {k}
        /\ \A i \in DOMAIN o.lines : \A k : Places(line, i, k) = {}
    BY <2>1, LineWhole
  <2>4. /\ DOMAIN Append(o.lines, len) = DOMAIN o.lines \cup {number}
        /\ Append(o.lines, len)[number] = len
        /\ \A i \in DOMAIN o.lines : Append(o.lines, len)[i] = o.lines[i]
        /\ number \notin DOMAIN o.lines
    BY <2>1, <2>2 DEF Lengths
  <2> HIDE DEF p, line, len, number
  <2> SUFFICES ASSUME Clean(p) PROVE Empty(p) /\ AllWhole(p) /\ Once(p)
    BY <1>2 DEF Safe
  <2>5. Clean(o) /\ Empty(o) /\ AllWhole(o) /\ Once(o)  BY <2>1 DEF Safe, Clean
  <2>6. \A seq \in Bytes : Whole(seq, o.lines) =>
           Whole(seq, p.lines) /\ \A k : Places(seq, number, k) = {}
    BY <2>1, <2>2, MoreLines DEF number
  <2>7. AllWhole(p)
    <3>1. Whole(p.buffer, p.lines)
      BY <2>1, <2>2, <2>3, <2>5, <2>6, JoinedWhole DEF AllWhole
    <3> QED  BY <2>1, <2>5, <2>6, <3>1 DEF AllWhole
  <2>8. ASSUME NEW i \in DOMAIN o.lines, NEW k \in 1 .. o.lines[i] PROVE Waits(p, i, k) \/ Landed(p, i, k)
    <3>1. Places(line, i, k) = {}  BY <2>3
    <3>2. Places(o.buffer \o line, i, k) = Places(o.buffer, i, k)  BY <2>0, <3>1, JoinedPlaces
    <3>3. Waits(o, i, k) \/ Landed(o, i, k)  BY <2>5 DEF Once
    <3> QED  BY <2>1, <3>2, <3>3 DEF Waits, Landed
  <2>9. ASSUME NEW k \in 1 .. len PROVE Waits(p, number, k)
    <3>1. Places(o.buffer, number, k) = {} /\ Places(line, number, k) = {k}
      BY <2>1, <2>3, <2>5, <2>6 DEF AllWhole
    <3>2. Single(Places(line, number, k))  BY <3>1 DEF Single
    <3>3. Single(Places(o.buffer \o line, number, k))  BY <2>0, <3>1, <3>2, JoinedPlaces
    <3>4. \A d \in Destination : Places(p.contents[d], number, k) = {}
      BY <2>1, <2>5, <2>6 DEF AllWhole
    <3> QED  BY <2>1, <3>3, <3>4 DEF Waits
  <2>10. Once(p)
    <3> SUFFICES ASSUME NEW i \in DOMAIN p.lines, NEW k \in 1 .. p.lines[i]
                 PROVE  Waits(p, i, k) \/ Landed(p, i, k)
      BY DEF Once
    <3>1. CASE i = number  BY <2>1, <2>4, <2>9, <3>1
    <3>2. CASE i # number  BY <2>1, <2>4, <2>8, <3>2
    <3> QED  BY <3>1, <3>2
  <2>11. Empty(p)  BY <2>1, <2>5 DEF Empty
  <2> QED  BY <2>7, <2>10, <2>11
<1> QED  BY <1>1, <1>2 DEF Entered

(***************************************************************************)
(* Flushing and closing                                                    *)
(***************************************************************************)

(* The same bytes in the same places, and nothing has gone wrong *)
Same(o, p) ==
  /\ Clean(o) /\ p.buffer = o.buffer /\ p.held = o.held /\ p.contents = o.contents
  /\ p.lines = o.lines

LEMMA SameSafe ==
  ASSUME NEW o, NEW p, Safe(o), Same(o, p)
  PROVE  Safe(p)
<1>1. Empty(o) /\ AllWhole(o) /\ Once(o)  BY DEF Safe, Same
<1>2. Empty(p) /\ AllWhole(p)  BY <1>1 DEF Same, Empty, AllWhole
<1>3. \A i, k : (Waits(o, i, k) => Waits(p, i, k)) /\ (Landed(o, i, k) => Landed(p, i, k))
  BY DEF Same, Waits, Landed
<1>4. Once(p)  BY <1>1, <1>3 DEF Same, Once
<1> QED  BY <1>2, <1>4 DEF Safe

LEMMA PassedOnWhole ==
  ASSUME NEW o, NEW stream, NEW r \in PassedOn(o, stream), Proper(o), stream \in Stream, Clean(r.out)
  PROVE  r.out = Arrive(o, stream, Len(o.held[stream]))
<1> DEFINE part(n) == [Arrive(o, stream, n) EXCEPT !.mishap = @ \cup {"flush"}]
           less(n) == [part(n) EXCEPT !.held[stream] = << >>]
<1>1. \/ r = [out |-> Arrive(o, stream, Len(o.held[stream])), ok |-> TRUE]
      \/ \E n \in 0 .. Len(o.held[stream]) :
            r \in {[out |-> part(n), ok |-> FALSE], [out |-> less(n), ok |-> FALSE]}
  BY Zenon DEF PassedOn
<1>2. ASSUME NEW n, r.out = part(n) \/ r.out = less(n) PROVE FALSE
  <2>1. "mishap" \in DOMAIN Arrive(o, stream, n)  BY DEF Arrive, Proper, RecordType
  <2>2. "flush" \in part(n).mishap /\ "flush" \in less(n).mishap  
    <3> HIDE DEF Arrive
    <3> QED  BY <2>1
  <2> HIDE DEF part, less
  <2> QED  BY <1>2, <2>2 DEF Clean
<1>3. ASSUME NEW n, r \in {[out |-> part(n), ok |-> FALSE], [out |-> less(n), ok |-> FALSE]}
      PROVE  FALSE
  <2> HIDE DEF part, less
  <2>1. r.out = part(n) \/ r.out = less(n)  BY <1>3
  <2> QED  BY <1>2, <2>1
<1> HIDE DEF part, less
<1>4. r = [out |-> Arrive(o, stream, Len(o.held[stream])), ok |-> TRUE]  BY <1>1, <1>3
<1> QED  BY <1>4

Put(to, d, seq) == [to EXCEPT ![d] = @ \o seq]
Emptied(from, stream) == [from EXCEPT ![stream] = << >>]

(* The C library passes on all that it holds, unless it fails to. *)
LEMMA ArriveAll ==
  ASSUME NEW o, NEW stream \in Stream, Proper(o), NEW p, p = Arrive(o, stream, Len(o.held[stream]))
  PROVE  /\ p.buffer = o.buffer /\ p.lines = o.lines /\ p.mishap = o.mishap
         /\ p.held = Emptied(o.held, stream)
         /\ p.contents = Put(o.contents, Reaches(o, stream), o.held[stream])
<1> DEFINE seq == o.held[stream]
<1>1. seq \in Bytes /\ Take(seq, Len(seq)) = seq /\ Drop(seq, Len(seq)) = << >>
  <2>1. seq \in Seq(ByteRecord)  BY DEF Proper, RecordType, Bytes
  <2> HIDE DEF seq
  <2> QED  BY <2>1 DEF Take, Drop, Bytes
<1> HIDE DEF seq
<1>2. /\ p.buffer = o.buffer /\ p.lines = o.lines /\ p.mishap = o.mishap
      /\ p.held = [o.held EXCEPT ![stream] = Drop(seq, Len(seq))]
      /\ p.contents = [o.contents EXCEPT ![Reaches(o, stream)] = @ \o Take(seq, Len(seq))]
  BY DEF Arrive, Proper, RecordType, seq
<1> QED  BY <1>1, <1>2 DEF seq, Put, Emptied

(* What was to be written has gone to one destination. *)
Moved(o, p) ==
  /\ Clean(o) /\ p.buffer = << >> /\ p.lines = o.lines /\ Empty(p)
  /\ \E d \in Destination : p.contents = Put(o.contents, d, o.buffer)

LEMMA FlushedMoves ==
  ASSUME NEW o, NEW s, NEW f \in Flushed(o, s), Proper(o), Ordered(o), Fits(o, s),
         OnlyHeld(o, s), Safe(o), Clean(f.out)
  PROVE  Moved(o, f.out)
<1> DEFINE all == Len(o.buffer)
           after(n) == [o EXCEPT !.buffer = Consumed(@, n),
                                 !.mishap = IF n < all THEN @ \cup {"write"} ELSE @]
           given == s.handle[2]
           bytes(n) == Take(o.buffer, n)
           to(n) == [after(n) EXCEPT !.held[given] = @ \o bytes(n)]
           past(n) == [after(n) EXCEPT !.contents[Reaches(o, given)] = @ \o bytes(n)]
           through(n) == IF s.backend = "STDIO" THEN to(n) ELSE past(n)
<1>1. /\ all \in Nat /\ o.buffer \in Bytes /\ o.held \in [Stream -> Bytes]
      /\ o.contents \in [Destination -> Bytes] /\ o \in RecordType
  BY DEF Proper, Bytes, RecordType
<1>2. Take(o.buffer, all) = o.buffer /\ Consumed(o.buffer, all) = << >>
  <2> DEFINE seq == o.buffer
  <2>1. seq \in Seq(ByteRecord)  BY <1>1 DEF Bytes
  <2> HIDE DEF seq
  <2>2. Take(seq, Len(seq)) = seq /\ Consumed(seq, Len(seq)) = << >>  BY <2>1 DEF Take, Drop, Consumed
  <2> QED  BY <2>2 DEF seq
<1>3. /\ after(all).buffer = << >> /\ after(all).mishap = o.mishap /\ after(all).held = o.held
      /\ after(all).contents = o.contents /\ after(all).lines = o.lines /\ after(all).opened = o.opened
  BY <1>1, <1>2 DEF RecordType
<1>4. s.handle # NoHandle => given \in Stream /\ Reaches(o, given) \in Destination
  <2> SUFFICES ASSUME s.handle # NoHandle PROVE given \in Stream /\ Reaches(o, given) \in Destination
    OBVIOUS
  <2>1. CASE s.target \in Std
    <3>1. given = s.target  BY <2>1 DEF Fits, StdHandles
    <3> QED  BY <2>1, <3>1, Names DEF Reaches
  <2>2. CASE s.target = "FILE"
    <3>1. PICK h \in Handle : s.handle = <<s.backend, h>> /\ o.opened[h] = <<s.backend, s.filepath>>
      BY <2>2 DEF Fits
    <3>2. s.filepath \in Path  BY <2>2 DEF Fits
    <3> QED  BY <3>1, <3>2, Names DEF Reaches
  <2>3. s.target \in Std \cup {"FILE"}  BY DEF Fits, SinkType
  <2> QED  BY <2>1, <2>2, <2>3
<1>5. PICK w \in WrittenOut(o, s) :
        \/ w.buffer # << >> /\ f = [out |-> w, ok |-> FALSE]
        \/ s.backend = "STDIO" /\ s.handle # NoHandle /\ f \in PassedOn(w, s.handle[2])
        \/ ~(s.backend = "STDIO" /\ s.handle # NoHandle) /\ f = [out |-> w, ok |-> TRUE]
  BY Zenon DEF Flushed
<1>6. Proper(w)  BY WrittenOutKeeps
<1>7. Clean(w)
  <2>1. CASE f = [out |-> w, ok |-> FALSE] \/ f = [out |-> w, ok |-> TRUE]
    <3>1. f.out = w  BY <2>1
    <3> QED  BY <3>1
  <2>2. CASE s.handle # NoHandle /\ f \in PassedOn(w, s.handle[2])
    <3>0. given \in Stream /\ f \in PassedOn(w, given)  BY <1>4, <2>2
    <3> HIDE DEF given
    <3>1. f.out = Arrive(w, given, Len(w.held[given]))  BY <1>6, <3>0, PassedOnWhole
    <3>2. f.out.mishap = w.mishap  BY <1>6, <3>0, <3>1, ArriveAll
    <3> QED  BY <3>2 DEF Clean
  <2> QED  BY <1>5, <2>1, <2>2
<1>8. \/ s.handle = NoHandle /\ w = after(0)
      \/ s.handle # NoHandle /\ \E n \in 0 .. all : w = through(n)
  <2>1. CASE s.handle = NoHandle
    BY <2>1, Zenon DEF WrittenOut
  <2>2. CASE s.handle # NoHandle
    <3>1. w \in {through(n) : n \in IF MayFail("write") THEN 0 .. all ELSE {all}}
      BY <2>2, Zenon DEF WrittenOut
    <3> HIDE DEF through
    <3> QED  BY <1>1, <2>2, <3>1
  <2> QED  BY <2>1, <2>2
<1>9. ASSUME NEW n \in 0 .. all, n # all, w = after(n) \/ w = through(n) PROVE FALSE
  <2>1. n < all  BY <1>1, <1>9
  <2>2. "write" \in after(n).mishap /\ "write" \in to(n).mishap /\ "write" \in past(n).mishap
    BY <1>1, <2>1 DEF RecordType
  <2> HIDE DEF to, past, after
  <2> QED  BY <1>7, <1>9, <2>2 DEF Clean
<1>10. \/ s.handle = NoHandle /\ w = after(all)
       \/ s.handle # NoHandle /\ w = through(all)
  <2> HIDE DEF after, through
  <2>1. 0 \in 0 .. all  BY <1>1
  <2> QED  BY <1>8, <1>9, <2>1
<1> HIDE DEF all, after
<1>11. w.buffer = << >> /\ w.lines = o.lines /\ w.mishap = o.mishap
  <2>1. to(all).buffer = << >> /\ to(all).lines = o.lines /\ to(all).mishap = o.mishap
    BY <1>1, <1>3 DEF RecordType
  <2>2. past(all).buffer = << >> /\ past(all).lines = o.lines /\ past(all).mishap = o.mishap
    BY <1>1, <1>3 DEF RecordType
  <2> HIDE DEF to, past
  <2> QED  BY <1>3, <1>10, <2>1, <2>2
<1>12. Clean(o) /\ Empty(o)  BY <1>7, <1>11 DEF Clean, Safe
<1>13. CASE s.handle = NoHandle
  <2>1. f.out = w /\ w = after(all) /\ w.held = o.held /\ w.contents = o.contents
    BY <1>3, <1>5, <1>10, <1>13
  <2>2. o.buffer = << >>
    <3>1. CASE all = 0  BY <1>1, <3>1 DEF all, Bytes
    <3>2. CASE all # 0
      <4>1. w = after(0)  BY <1>8, <1>13
      <4>2. 0 \in 0 .. all  BY <1>1
      <4> QED  BY <1>9, <3>2, <4>1, <4>2
    <3> QED  BY <3>1, <3>2
  <2>3. o.contents["STDERR"] \o o.buffer = o.contents["STDERR"]
    BY <1>1, <2>2, Names DEF Std, Bytes
  <2>4. "STDERR" \in Destination /\ f.out.contents = Put(o.contents, "STDERR", o.buffer)
    BY <1>1, <2>1, <2>3, Names DEF Std, Put
  <2> QED  BY <1>11, <1>12, <2>1, <2>4 DEF Moved, Empty
<1>14. CASE s.handle # NoHandle /\ s.backend # "STDIO"
  <2>1. f = [out |-> w, ok |-> TRUE]  BY <1>5, <1>11, <1>14
  <2>2. f.out = w  BY <2>1
  <2>3. w = past(all)  BY <1>10, <1>14
  <2>4. w.held = o.held /\ w.contents = Put(o.contents, Reaches(o, given), o.buffer)
    BY <1>1, <1>2, <1>3, <1>4, <1>14, <2>3 DEF RecordType, all, Put
  <2> HIDE DEF given, past
  <2>5. Empty(w)  BY <1>12, <2>4 DEF Empty
  <2> QED  BY <1>4, <1>11, <1>12, <1>14, <2>2, <2>4, <2>5 DEF Moved
<1>15. CASE s.handle # NoHandle /\ s.backend = "STDIO"
  <2>1. f \in PassedOn(w, given) /\ w = to(all)  BY <1>5, <1>10, <1>11, <1>15
  <2>2. w.held = [o.held EXCEPT ![given] = @ \o o.buffer] /\ w.contents = o.contents
        /\ w.opened = o.opened
    BY <1>1, <1>2, <1>3, <1>4, <1>15, <2>1 DEF RecordType, all
  <2>3. o.held[given] = << >> /\ w.held[given] = o.buffer
    <3>1. o.held[given] = << >> /\ given \in Stream  BY <1>4, <1>12, <1>15 DEF Empty
    <3>2. o.held[given] \o o.buffer = o.buffer  BY <1>1, <3>1 DEF Bytes
    <3> QED  BY <1>1, <2>2, <3>1, <3>2
  <2> HIDE DEF given, to
  <2>4. f.out = Arrive(w, given, Len(w.held[given]))  BY <1>4, <1>6, <1>15, <2>1, PassedOnWhole
  <2>5. /\ f.out.buffer = << >> /\ f.out.lines = o.lines
        /\ f.out.held = Emptied(w.held, given)
        /\ f.out.contents = Put(w.contents, Reaches(w, given), w.held[given])
    <3>1. given \in Stream  BY <1>4, <1>15
    <3>2. /\ f.out.buffer = w.buffer /\ f.out.lines = w.lines
          /\ f.out.held = Emptied(w.held, given)
          /\ f.out.contents = Put(w.contents, Reaches(w, given), w.held[given])
      BY <1>6, <2>4, <3>1, ArriveAll
    <3> QED  BY <1>11, <3>2
  <2>6. Reaches(w, given) = Reaches(o, given)  BY <2>2 DEF Reaches
  <2>7. Empty(f.out)  BY <1>1, <1>4, <1>12, <1>15, <2>2, <2>5 DEF Empty, Emptied
  <2>8. f.out.contents = Put(o.contents, Reaches(o, given), o.buffer)
    BY <2>2, <2>3, <2>5, <2>6
  <2> QED  BY <1>4, <1>12, <1>15, <2>5, <2>7, <2>8 DEF Moved
<1> QED  BY <1>13, <1>14, <1>15

LEMMA MovedSafe ==
  ASSUME NEW o, NEW p, Proper(o), Safe(o), Moved(o, p)
  PROVE  Safe(p)
<1>1. /\ Empty(p) /\ Empty(o) /\ AllWhole(o) /\ Once(o) /\ p.buffer = << >> /\ p.lines = o.lines
  BY DEF Safe, Moved
<1>2. PICK d \in Destination : p.contents = Put(o.contents, d, o.buffer)
  BY DEF Moved
<1>3. o.contents \in [Destination -> Bytes] /\ o.buffer \in Bytes  BY DEF Proper, RecordType
<1>4. \A e \in Destination : p.contents[e] = IF e = d THEN o.contents[d] \o o.buffer ELSE o.contents[e]
  BY <1>2, <1>3 DEF Put
<1>5. AllWhole(p)
  <2>1. Whole(o.contents[d] \o o.buffer, o.lines)  BY <1>1, <1>3, JoinedWhole DEF AllWhole
  <2> QED  BY <1>1, <1>4, <2>1, WholeNothing DEF AllWhole
<1>6. ASSUME NEW i, NEW k, Waits(o, i, k) PROVE Landed(p, i, k)
  <2>1. Single(Places(o.buffer, i, k))  BY <1>6 DEF Waits
  <2>2. \A e \in Destination : Places(o.contents[e], i, k) = {}  BY <1>6 DEF Waits
  <2>3. o.contents[d] \in Bytes  BY <1>3
  <2>4. Single(Places(o.contents[d] \o o.buffer, i, k))  BY <1>3, <2>1, <2>2, <2>3, JoinedPlaces
  <2>5. Single(Places(p.contents[d], i, k))  BY <1>4, <2>4
  <2>6. \A e \in Destination \ {d} : Places(p.contents[e], i, k) = {}  BY <1>4, <2>2
  <2> QED  BY <1>1, <2>5, <2>6, PlacesOfNothing DEF Landed
<1>7. ASSUME NEW i, NEW k, Landed(o, i, k) PROVE Landed(p, i, k)
  <2>1. Places(o.buffer, i, k) = {} /\ o.contents[d] \in Bytes  BY <1>3, <1>7 DEF Landed
  <2>2. Places(o.contents[d] \o o.buffer, i, k) = Places(o.contents[d], i, k)
    BY <1>3, <2>1, JoinedPlaces
  <2>3. \A e \in Destination : Places(p.contents[e], i, k) = Places(o.contents[e], i, k)
    BY <1>4, <2>2
  <2> QED  BY <1>1, <1>7, <2>3, PlacesOfNothing DEF Landed
<1>8. Once(p)  BY <1>1, <1>6, <1>7 DEF Once
<1> QED  BY <1>1, <1>5, <1>8 DEF Safe

LEMMA FlushedSafe ==
  ASSUME NEW o, NEW s, NEW f \in Flushed(o, s), Proper(o), Ordered(o), Fits(o, s),
         OnlyHeld(o, s), Safe(o)
  PROVE  /\ Safe(f.out)
         /\ Clean(f.out) => Clean(o) /\ f.out.buffer = << >>
<1>1. CASE Clean(f.out)
  <2>1. Moved(o, f.out)  BY <1>1, FlushedMoves
  <2> QED  BY <2>1, MovedSafe DEF Moved
<1>2. CASE ~Clean(f.out)  BY <1>2 DEF Safe
<1> QED  BY <1>1, <1>2

(* Where nothing is held back there is nothing to pass on. *)
LEMMA PassedOnSafe ==
  ASSUME NEW o, Proper(o), Safe(o), NEW stream \in Stream, NEW r \in PassedOn(o, stream)
  PROVE  Safe(r.out) /\ (Clean(r.out) => Clean(o) /\ Same(o, r.out))
<1>1. CASE Clean(r.out)
  <2>1. r.out = Arrive(o, stream, Len(o.held[stream]))  BY <1>1, PassedOnWhole
  <2>2. /\ r.out.buffer = o.buffer /\ r.out.lines = o.lines /\ r.out.mishap = o.mishap
        /\ r.out.held = Emptied(o.held, stream)
        /\ r.out.contents = Put(o.contents, Reaches(o, stream), o.held[stream])
    BY <2>1, ArriveAll
  <2>3. Clean(o) /\ o.held[stream] = << >>  BY <1>1, <2>2 DEF Clean, Safe, Empty
  <2>4. o.held \in [Stream -> Bytes] /\ o.contents \in [Destination -> Bytes]
    BY DEF Proper, RecordType
  <2>5. \A d \in Destination : o.contents[d] \o << >> = o.contents[d]
    BY <2>4 DEF Bytes
  <2> DEFINE x == Reaches(o, stream)
  <2> HIDE DEF x
  <2>6. r.out.contents = o.contents  BY <2>2, <2>3, <2>4, <2>5 DEF x, Put
  <2>7. r.out.held = o.held  BY <2>2, <2>3, <2>4 DEF Emptied
  <2> QED  BY <2>2, <2>3, <2>6, <2>7, SameSafe DEF Same
<1>2. CASE ~Clean(r.out)  BY <1>2 DEF Safe
<1> QED  BY <1>1, <1>2

LEMMA ClosedSafe ==
  ASSUME NEW o, Proper(o), Ordered(o), Safe(o), NEW s, Fits(o, s), NEW p \in Closed(o, s)
  PROVE  Safe(p) /\ (Clean(p) => Same(o, p))
<1>1. CASE p = o  BY <1>1 DEF Same
<1>2. CASE s.target = "FILE"
  <2>1. PICK h \in Handle : s.handle = <<s.backend, h>> /\ o.opened[h] = <<s.backend, s.filepath>>
    BY <1>2 DEF Fits
  <2>2. s.backend \in Backend /\ s.filepath \in Path
    BY <1>2 DEF Fits, SinkType
  <2>3. o.opened[h] # Unopened /\ s.handle # NoHandle /\ s.handle[2] = h /\ h \in Stream
    BY <2>1, <2>2, Names
  <2> DEFINE gone(q) == [q EXCEPT !.opened[h] = Unopened, !.held[h] = << >>]
  <2>4. \/ \E r \in PassedOn(o, h) : p = gone(r.out)
        \/ s.backend # "STDIO" /\ p = gone(o)
    <3>1. p \in IF s.backend = "STDIO" THEN {gone(r.out) : r \in PassedOn(o, h)} ELSE {gone(o)}
      BY <1>2, <2>3, Zenon DEF Closed
    <3> HIDE DEF gone
    <3> QED  BY <3>1
  <2>5. ASSUME NEW q, q \in RecordType, Safe(q), p = gone(q)
        PROVE  Safe(p) /\ p.mishap = q.mishap /\ (Clean(q) => Same(q, p))
    <3>1. /\ p.buffer = q.buffer /\ p.held = [q.held EXCEPT ![h] = << >>]
          /\ p.contents = q.contents /\ p.lines = q.lines /\ p.mishap = q.mishap
      BY <2>5 DEF RecordType
    <3>2. ASSUME Clean(q) PROVE p.held = q.held
      <4>1. q.held \in [Stream -> Bytes]  BY <2>5 DEF RecordType
      <4>2. q.held[h] = << >>  BY <2>3, <2>5, <3>2 DEF Safe, Empty
      <4> QED  BY <3>1, <4>1, <4>2
    <3> HIDE DEF gone
    <3>3. Clean(q) => Same(q, p)  BY <3>1, <3>2 DEF Same
    <3>4. Safe(p)
      <4>1. CASE Clean(q)  BY <2>5, <3>3, <4>1, SameSafe
      <4>2. CASE ~Clean(q)  BY <3>1, <4>2 DEF Safe, Clean
      <4> QED  BY <4>1, <4>2
    <3> QED  BY <3>1, <3>3, <3>4
  <2> HIDE DEF gone
  <2>6. ASSUME NEW r \in PassedOn(o, h), p = gone(r.out) PROVE Safe(p) /\ (Clean(p) => Same(o, p))
    <3>1. Safe(r.out) /\ (Clean(r.out) => Same(o, r.out))  BY <2>3, PassedOnSafe
    <3>2. r.out \in RecordType  BY <2>3, PassedOnKeeps DEF Passed, Proper, RecordType
    <3>3. Safe(p) /\ p.mishap = r.out.mishap /\ (Clean(r.out) => Same(r.out, p))
      BY <2>5, <2>6, <3>1, <3>2
    <3> QED  BY <3>1, <3>3 DEF Same, Clean
  <2>7. ASSUME p = gone(o) PROVE Safe(p) /\ (Clean(p) => Same(o, p))
    <3>1. o \in RecordType  BY DEF Proper, RecordType
    <3>2. Safe(p) /\ p.mishap = o.mishap /\ (Clean(o) => Same(o, p))
      BY <2>5, <2>7, <3>1
    <3> QED  BY <3>2 DEF Clean
  <2> QED  BY <2>4, <2>6, <2>7
<1> QED  BY <1>1, <1>2 DEF Closed

(***************************************************************************)
(* The inductive invariant                                                 *)
(***************************************************************************)
BytesKept == Safe(Now) /\ (FlushedAtEnd /\ Clean(Now) => buffer = << >>)
LossInv == LInv /\ BytesKept

LEMMA Came ==
  ASSUME NEW o, Safe(o), Becomes(o), status' = "runs" \/ (Clean(o) => o.buffer = << >>)
  PROVE  BytesKept'
<1>1. /\ Now'.buffer = o.buffer /\ Now'.held = o.held /\ Now'.contents = o.contents
      /\ Now'.lines = o.lines /\ Now'.mishap = o.mishap /\ buffer' = o.buffer
  BY DEF Now, Becomes
<1>2. Safe(Now')
  <2>1. CASE Clean(o)  BY <1>1, <2>1, SameSafe DEF Same
  <2>2. CASE ~Clean(o)  BY <1>1, <2>2 DEF Safe, Clean
  <2> QED  BY <2>1, <2>2
<1>3. Clean(Now') <=> Clean(o)  BY <1>1 DEF Clean
<1> QED  BY <1>1, <1>2, <1>3 DEF BytesKept, FlushedAtEnd

LEMMA Start ==
  ASSUME LossInv, Running
  PROVE  /\ Proper(Now) /\ Ordered(Now) /\ Fits(Now, sink) /\ OnlyHeld(Now, sink) /\ Safe(Now)
         /\ sink \in SinkType
BY NowProper, NowFits DEF LossInv, LInv, BytesKept

LEMMA BytesAtLog ==
  ASSUME LossInv, NEW level \in UsedLevel, NEW n \in TextLength, Log(level, n)
  PROVE  BytesKept'
<1>1. Running /\ Becomes(Entered(Now, level, n)) /\ status' = status  BY DEF Log
<1>2. Safe(Entered(Now, level, n))  BY <1>1, Start, EnteredSafe, UseAssumption
<1> QED  BY <1>1, <1>2, Came DEF Running

LEMMA BytesAtFlush ==
  ASSUME LossInv, Flush
  PROVE  BytesKept'
<1>1. PICK f \in Flushed(Now, sink) : Becomes(f.out)  BY DEF Flush
<1>2. Running /\ status' = status  BY DEF Flush
<1>3. Safe(f.out)  BY <1>2, Start, FlushedSafe
<1> QED  BY <1>1, <1>2, <1>3, Came DEF Running

LEMMA BytesAtGiveUp ==
  ASSUME LossInv, NEW n \in TextLength, Give_up(n)
  PROVE  BytesKept'
<1> DEFINE p == Entered(Now, Fatal, n)
<1>1. PICK f \in Flushed(p, sink) : Becomes(f.out)  BY DEF Give_up
<1>2. Running  BY DEF Give_up
<1>3. n \in Nat \ {0}  BY UseAssumption
<1>4. /\ Proper(p) /\ Ordered(p) /\ p.opened = opened /\ p.held = held /\ Safe(p)
  BY <1>2, <1>3, Start, EnteredKeeps, EnteredSafe, NowIs
<1> HIDE DEF p
<1>5. OnlyHeld(p, sink) /\ Fits(p, sink)
  BY <1>2, <1>4, Start, NowIs DEF OnlyHeld, Fits
<1>6. Safe(f.out) /\ (Clean(f.out) => f.out.buffer = << >>)
  BY <1>4, <1>5, FlushedSafe
<1> QED  BY <1>1, <1>6, Came

LEMMA BytesAtSpill ==
  ASSUME LossInv, NEW stream \in Stream, Spill(stream)
  PROVE  BytesKept'
<1>1. PICK n \in 1 .. Len(held[stream]) : Becomes(Arrive(Now, stream, n))
  BY DEF Spill
<1>2. Running /\ status' = status  BY DEF Spill
<1>3. held[stream] # << >>  BY <1>1
<1>4. ~Clean(Now)  BY <1>2, <1>3, Start, NowIs DEF Safe, Empty
<1>5. Arrive(Now, stream, n).mishap = mishap  BY DEF Arrive, Now
<1>6. ~Clean(Arrive(Now, stream, n))  BY <1>4, <1>5, NowIs DEF Clean
<1>7. Safe(Arrive(Now, stream, n))  BY <1>6 DEF Safe
<1> QED  BY <1>1, <1>2, <1>7, Came DEF Running

LEMMA BytesAtExit ==
  ASSUME LossInv, Exit
  PROVE  BytesKept'
<1>1. Running  BY DEF Exit
<1>2. PICK f \in AtExit(Now, sink) : \E c \in Closed(f.out, sink) :
       \E d \in Closed(c, AfterClose(sink)) :
       \E p \in PassedOn(d, "STDOUT") : \E q \in PassedOn(p.out, "STDERR") : Becomes(q.out)
  BY DEF Exit
<1>3. PICK c \in Closed(f.out, sink) :
       \E d \in Closed(c, AfterClose(sink)) :
       \E p \in PassedOn(d, "STDOUT") : \E q \in PassedOn(p.out, "STDERR") : Becomes(q.out)
  BY <1>2
<1>4. PICK p \in PassedOn(c, "STDOUT") : \E q \in PassedOn(p.out, "STDERR") : Becomes(q.out)
  <2>1. Closed(c, AfterClose(sink)) = {c}
    <3>1. CASE sink.target # "FILE"
      BY <3>1 DEF Closed, AfterClose
    <3>2. CASE sink.target = "FILE"
      <4>1. AfterClose(sink).handle = NoHandle
        BY <1>1, <3>2, Start DEF AfterClose, SinkType
      <4> QED  BY <4>1 DEF Closed
    <3> QED  BY <3>1, <3>2
  <2> QED  BY <1>3, <2>1
<1>5. PICK q \in PassedOn(p.out, "STDERR") : Becomes(q.out)
  BY <1>4
<1>6. f \in Flushed(Now, sink)  BY DEF AtExit
<1>7. Proper(f.out) /\ Ordered(f.out) /\ SameFiles(Now, f.out) /\ OnlyHeld(f.out, sink)
  BY <1>1, <1>6, Start, FlushedKeeps
<1>8. Fits(f.out, sink)
  BY <1>1, <1>7, Start DEF Fits, SameFiles
<1>9. Safe(f.out) /\ (Clean(f.out) => f.out.buffer = << >>)
  BY <1>1, <1>6, Start, FlushedSafe
<1>10. Proper(c) /\ Ordered(c)  BY <1>7, <1>8, ClosedKeeps
<1>11. Safe(c) /\ (Clean(c) => Same(f.out, c))  BY <1>7, <1>8, <1>9, ClosedSafe
<1>12. "STDOUT" \in Stream /\ "STDERR" \in Stream
  BY DEF Stream, Std
<1>13. Proper(p.out)  BY <1>10, <1>12, PassedOnKeeps DEF Passed
<1>14. Safe(p.out) /\ (Clean(p.out) => Clean(c) /\ Same(c, p.out))
  BY <1>10, <1>11, <1>12, PassedOnSafe
<1>15. Safe(q.out) /\ (Clean(q.out) => Clean(p.out) /\ Same(p.out, q.out))
  BY <1>12, <1>13, <1>14, PassedOnSafe
<1>16. Clean(q.out) => q.out.buffer = << >>
  BY <1>9, <1>11, <1>14, <1>15 DEF Same
<1> QED  BY <1>5, <1>15, <1>16, Came

LEMMA BytesAtSwitch ==
  ASSUME LossInv, Running, NEW backend \in Backend, NEW target \in Std \cup {"FILE"},
         NEW path \in Path \cup {NoPath}, Switch(backend, target, path)
  PROVE  BytesKept'
<1>1. PICK o \in Opening(backend, target, path) :
        LET new == [backend |-> backend, target |-> target, filepath |-> path, handle |-> o.handle]
        IN  \E f \in Flushed(o.out, sink) : \E c \in Closed(f.out, sink) :
            \E d \in Closed(c, MovedFrom(new)) : Becomes(d) /\ sink' = new
  BY Zenon DEF Switch
<1>0. UNCHANGED status
  BY DEF Switch
<1> DEFINE new == [backend |-> backend, target |-> target, filepath |-> path, handle |-> o.handle]
<1>2. PICK f \in Flushed(o.out, sink) : \E c \in Closed(f.out, sink) :
        \E d \in Closed(c, MovedFrom(new)) : Becomes(d) /\ sink' = new
  BY <1>1
<1>3. PICK c \in Closed(f.out, sink) :
        \E d \in Closed(c, MovedFrom(new)) : Becomes(d) /\ sink' = new
  BY <1>2
<1>4. Becomes(c)
  <2>1. PICK d \in Closed(c, MovedFrom(new)) : Becomes(d) /\ sink' = new
    BY <1>3
  <2>2. d = c
    BY DEF Closed, MovedFrom, DefaultSink
  <2> QED  BY <2>1, <2>2
<1> HIDE DEF new
<1>5. SinkOpened(o, backend, target, path)  BY OpeningKeeps DEF LossInv
<1>6. Proper(o.out) /\ Ordered(o.out) /\ Fits(o.out, sink) /\ OnlyHeld(o.out, sink)
  BY <1>5 DEF SinkOpened
<1>7. Safe(o.out)
  <2>1. /\ o.out.buffer = Now.buffer /\ o.out.held = Now.held /\ o.out.contents = Now.contents
        /\ o.out.lines = Now.lines /\ o.out.mishap = Now.mishap
    BY <1>5, NowIs DEF SinkOpened
  <2>2. CASE Clean(Now)  BY <2>1, <2>2, Start, SameSafe DEF Same
  <2>3. CASE ~Clean(Now)  BY <2>1, <2>3 DEF Safe, Clean
  <2> QED  BY <2>2, <2>3
<1>8. Proper(f.out) /\ Ordered(f.out) /\ SameFiles(o.out, f.out)
  BY <1>6, FlushedKeeps
<1>9. Fits(f.out, sink)
  BY <1>6, <1>8 DEF Fits, SameFiles
<1>10. Safe(f.out)  BY <1>6, <1>7, FlushedSafe
<1>11. Safe(c)  BY <1>8, <1>9, <1>10, ClosedSafe
<1> QED  BY <1>0, <1>4, <1>11, Came DEF Running

LEMMA BytesAtSetSink ==
  ASSUME LossInv, NEW backend \in Backend, NEW target \in Std \cup {"FILE"},
         NEW path \in Path \cup {NoPath}, Set_sink(backend, target, path)
  PROVE  BytesKept'
<1>1. /\ Running
      /\ Switch(backend, target, path) \/ Terminate(target, path)
  BY DEF Set_sink
<1>2. CASE Terminate(target, path)
  <2>1. Now' = Now /\ status' = "terminated"
    BY <1>2 DEF Terminate, Now
  <2> QED  BY <2>1 DEF LossInv, BytesKept, FlushedAtEnd
<1> QED  BY <1>1, <1>2, BytesAtSwitch

LEMMA BytesAtAbort ==
  ASSUME LossInv, NEW reason \in TextLength, NEW what \in TextLength, Abort_on_bad_alloc(reason, what)
  PROVE  BytesKept'
<1>1. Running /\ sink' = [DefaultSink EXCEPT !.filepath = sink.filepath]
  BY DEF Abort_on_bad_alloc
<1>2. PICK c \in Closed(Now, sink) : \E f \in Flushed(c, sink') :
       LET told == Entered(Entered(f.out, Error, reason), Error, what)
       IN  \E g \in Flushed(told, sink') : Becomes(g.out)
  BY Zenon DEF Abort_on_bad_alloc
<1>3. PICK f \in Flushed(c, sink') :
       LET told == Entered(Entered(f.out, Error, reason), Error, what)
       IN  \E g \in Flushed(told, sink') : Becomes(g.out)
  BY <1>2
<1> DEFINE once == Entered(f.out, Error, reason)
           told == Entered(once, Error, what)
<1>4. PICK g \in Flushed(told, sink') : Becomes(g.out)
  BY <1>3
<1>5. reason \in Nat \ {0} /\ what \in Nat \ {0}  BY UseAssumption
<1>6. Proper(c) /\ Ordered(c) /\ AllClear(c) /\ Safe(c)
  BY <1>1, Start, ClosedKeeps, ClosedSafe
<1>7. /\ sink' \in SinkType /\ sink'.target = "STDERR" /\ sink'.backend = "STDIO"
      /\ sink'.handle = <<"STDIO", "STDERR">>
  BY <1>1, Start DEF DefaultSink, SinkType, Backend, Std, Stream
<1>8. \A o : Fits(o, sink')
  BY <1>7 DEF Fits, StdHandles, Std
<1>9. Proper(f.out) /\ Ordered(f.out) /\ OnlyHeld(f.out, sink') /\ Safe(f.out)
  <2>1. OnlyHeld(c, sink')
    BY <1>6 DEF OnlyHeld, AllClear
  <2> QED  BY <1>6, <1>8, <2>1, FlushedKeeps, FlushedSafe
<1>10. Proper(once) /\ Ordered(once) /\ once.held = f.out.held /\ Safe(once)
  BY <1>5, <1>9, EnteredKeeps, EnteredSafe
<1>11. Proper(told) /\ Ordered(told) /\ told.held = once.held /\ Safe(told)
  <2> HIDE DEF once
  <2> QED  BY <1>5, <1>10, EnteredKeeps, EnteredSafe
<1> HIDE DEF once, told
<1>12. OnlyHeld(told, sink')
  BY <1>9, <1>10, <1>11 DEF OnlyHeld
<1>13. Safe(g.out) /\ (Clean(g.out) => g.out.buffer = << >>)
  BY <1>8, <1>11, <1>12, FlushedSafe
<1> QED  BY <1>4, <1>13, Came

LEMMA BytesAtStep == LossInv /\ [Next]_vars => BytesKept'
<1> SUFFICES ASSUME LossInv, [Next]_vars PROVE BytesKept'
  OBVIOUS
<1>1. ASSUME NEW level \in UsedLevel, NEW n \in TextLength, Log(level, n) PROVE BytesKept'
  BY <1>1, BytesAtLog
<1>2. CASE Flush  BY <1>2, BytesAtFlush
<1>3. ASSUME UNCHANGED <<buffer, opened, held, contents, lines, mishap, status>> PROVE BytesKept'
  <2>1. Now' = Now /\ buffer' = buffer /\ (FlushedAtEnd' <=> FlushedAtEnd)
    BY <1>3 DEF Now, FlushedAtEnd
  <2> QED  BY <2>1 DEF LossInv, BytesKept
<1>4. ASSUME NEW level \in UsedLevel, Set_threshold(level) PROVE BytesKept'
  BY <1>3, <1>4 DEF Set_threshold
<1>5. ASSUME NEW backend \in Backend, Set_backend(backend) PROVE BytesKept'
  <2>1. Set_sink(backend, sink.target, sink.filepath)
    BY <1>5 DEF Set_backend
  <2>2. sink.target \in Std \cup {"FILE"} /\ sink.filepath \in Path \cup {NoPath}
    BY SinkIsTyped DEF SinkType, LossInv
  <2> QED  BY <2>1, <2>2, BytesAtSetSink
<1>6. ASSUME NEW target \in Std, Set_target_std(target) PROVE BytesKept'
  <2>1. Set_sink(sink.backend, target, NoPath)
    BY <1>6 DEF Set_target_std
  <2>2. sink.backend \in Backend
    BY SinkIsTyped DEF SinkType, LossInv
  <2> QED  BY <2>1, <2>2, BytesAtSetSink
<1>7. ASSUME NEW path \in Path, Set_target_file(path) PROVE BytesKept'
  <2>1. Set_sink(sink.backend, "FILE", path)
    BY <1>7 DEF Set_target_file
  <2>2. sink.backend \in Backend
    BY SinkIsTyped DEF SinkType, LossInv
  <2> QED  BY <2>1, <2>2, BytesAtSetSink
<1>8. ASSUME NEW reason \in TextLength, NEW what \in TextLength, Abort_on_bad_alloc(reason, what)
      PROVE  BytesKept'
  BY <1>8, BytesAtAbort
<1>9. ASSUME NEW n \in TextLength, Give_up(n) PROVE BytesKept'
  BY <1>9, BytesAtGiveUp
<1>10. CASE Exit  BY <1>10, BytesAtExit
<1>11. ASSUME NEW stream \in Stream, Spill(stream) PROVE BytesKept'
  BY <1>11, BytesAtSpill
<1>12. CASE Ended \/ UNCHANGED vars  BY <1>3, <1>12 DEF Ended, vars
<1> QED
  BY <1>1, <1>2, <1>4, <1>5, <1>6, <1>7, <1>8, <1>9, <1>10, <1>11, <1>12 DEF Next

LEMMA BytesAtStart == Init => BytesKept
<1> SUFFICES ASSUME Init PROVE BytesKept
  OBVIOUS
<1>1. /\ buffer = << >> /\ held = [x \in Stream |-> << >>]
      /\ contents = [d \in Destination |-> << >>] /\ lines = << >> /\ status = "runs"
  BY DEF Init
<1>2. Empty(Now)  BY <1>1, NowIs DEF Empty
<1>3. AllWhole(Now)  BY <1>1, NowIs, WholeNothing DEF AllWhole
<1>4. Once(Now)  BY <1>1, NowIs DEF Once
<1> QED  BY <1>1, <1>2, <1>3, <1>4 DEF BytesKept, Safe

(* The inductive invariant: as long as no write fails, the C library holds *)
(* nothing back between two calls, buffer and files have whole lines, and  *)
(* each byte that was logged is in one place (log(), flush(), setters).    *)
THEOREM WholeCorrect == Spec => []LossInv
<1>1. Init => LossInv  BY InvInit, BytesAtStart DEF LossInv
<1>2. LossInv /\ [Next]_vars => LossInv'
  BY InvStep, BytesAtStep DEF LossInv
<1> QED  BY <1>1, <1>2, PTL DEF Spec

(* No line is cut or runs into another, whatever sinks it goes to.         *)
THEOREM LinesCorrect == Spec => []LinesWhole
<1>1. LossInv => LinesWhole
  <2> SUFFICES ASSUME LossInv, AllWritten, NEW d \in Destination, NEW p \in DOMAIN contents[d]
               PROVE  LET b == contents[d][p]
                      IN  /\ b.newline <=> b.at = lines[b.line]
                          /\ b.newline \/ (p < Len(contents[d]) /\ contents[d][p + 1].line = b.line)
    BY DEF LinesWhole
  <2>1. AllWhole(Now)  BY NowIs DEF LossInv, BytesKept, Safe, Clean, AllWritten
  <2>2. WholeAt(contents[d], lines, p)  BY <2>1, NowIs DEF AllWhole, Whole
  <2> QED  BY <2>2 DEF WholeAt
<1> QED  BY <1>1, WholeCorrect, PTL

LEMMA OneOf == 
  /\ \A S : Single(S) => Cardinality(S) = 1
  /\ Cardinality({}) = 0
BY FS_EmptySet, FS_Singleton DEF Single

(* No byte is lost or written twice, and none is left when the process     *)
(* exits, is given up or runs out of memory for a path; an exception in    *)
(* open() takes with it what waits in the buffer, and nothing else.        *)
THEOREM NothingLostCorrect == Spec => []NothingLost
<1>1. LossInv => NothingLost
  <2> DEFINE waiting(i, k) == IF FlushedAtEnd THEN {} ELSE Places(buffer, i, k)
             arrived(i, k) == UNION {{d} \X Places(contents[d], i, k) : d \in Destination}
  <2> SUFFICES ASSUME LossInv, AllWritten, NEW i \in DOMAIN lines, NEW k \in 1 .. lines[i]
               PROVE  Cardinality(waiting(i, k)) + Cardinality(arrived(i, k)) = 1
    BY DEF NothingLost
  <2>1. /\ Once(Now) /\ (FlushedAtEnd => buffer = << >>)
    BY NowIs DEF LossInv, BytesKept, Safe, Clean, AllWritten
  <2>2. CASE Waits(Now, i, k)
    <3>1. Single(Places(buffer, i, k)) /\ \A d \in Destination : Places(contents[d], i, k) = {}
      BY <2>2, NowIs DEF Waits
    <3>2. ~FlushedAtEnd  BY <2>1, <3>1, PlacesOfNothing DEF Single
    <3>3. Single(waiting(i, k)) /\ arrived(i, k) = {}  BY <3>1, <3>2
    <3> HIDE DEF waiting, arrived
    <3> QED  BY <3>3, OneOf
  <2>3. CASE Landed(Now, i, k)
    <3>1. Places(buffer, i, k) = {}  BY <2>3, NowIs DEF Landed
    <3>2. PICK d \in Destination :
             /\ Single(Places(contents[d], i, k))
             /\ \A e \in Destination \ {d} : Places(contents[e], i, k) = {}
      BY <2>3, NowIs DEF Landed
    <3>3. PICK p : Places(contents[d], i, k) = {p}  BY <3>2 DEF Single
    <3>4. arrived(i, k) = {<<d, p>>}
      <4>1. ASSUME NEW x \in arrived(i, k) PROVE x = <<d, p>>
        <5>1. PICK e \in Destination : x \in {e} \X Places(contents[e], i, k)  BY <4>1
        <5>2. e = d  BY <3>2, <5>1
        <5> QED  BY <3>3, <5>1, <5>2
      <4>2. <<d, p>> \in {d} \X Places(contents[d], i, k)  BY <3>3
      <4>3. <<d, p>> \in arrived(i, k)  BY <4>2
      <4> HIDE DEF arrived
      <4> QED  BY <4>1, <4>3
    <3>5. Single(arrived(i, k))
      <4> HIDE DEF arrived
      <4> QED  BY <3>4 DEF Single
    <3>6. waiting(i, k) = {}  BY <3>1
    <3> HIDE DEF waiting, arrived
    <3> QED  BY <3>5, <3>6, OneOf
  <2> QED  BY <2>1, <2>2, <2>3, NowIs DEF Once
<1> QED  BY <1>1, WholeCorrect, PTL
=============================================================================
