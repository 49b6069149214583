----------------------------- MODULE ByteQueue -----------------------------
(***************************************************************************)
(* What a RingBuffer promises to its callers: a queue of bytes of bounded  *)
(* size.  A caller may also let bytes land in the free space behind the    *)
(* queue, where a receive puts them, and commit them to it later.          *)
(***************************************************************************)
EXTENDS Integers, Sequences

CONSTANTS
    Buffer,     \* the RingBuffer objects
    ByteMod,    \* the number of bytes
    MaxSize     \* bound: the largest capacity

VARIABLES
    size,       \* the capacity; 0 of a buffer without memory
    queue,      \* the bytes in the queue
    landing,    \* the bytes that landed behind it
    next_byte,  \* what callers put into queues: bytes of one long stream
    ret         \* what the last operation returned

vars == <<size, queue, landing, next_byte, ret>>

Chunk(n) == [i \in 1 .. n |-> (next_byte + i - 1) % ByteMod]
Room(b) == size[b] - Len(queue[b])
Drop(seq, n) == SubSeq(seq, n + 1, Len(seq))

Init == /\ size \in [Buffer -> 0 .. MaxSize]
        /\ queue = [b \in Buffer |-> << >>]
        /\ landing = [b \in Buffer |-> << >>]
        /\ next_byte = 0
        /\ ret = <<TRUE, << >>>>

(* A new buffer is empty, and of any size: its memory may be missing. *)
Construct(b) ==
    /\ \E n \in 0 .. MaxSize : size' = [size EXCEPT ![b] = n]
    /\ queue' = [queue EXCEPT ![b] = << >>]
    /\ landing' = [landing EXCEPT ![b] = << >>]
    /\ ret' = <<TRUE, << >>>>
    /\ UNCHANGED next_byte

(* The destination becomes what the source was, which has no memory then. *)
Move(dst, src) ==
    /\ landing[dst] = << >> /\ landing[src] = << >>
    /\ \/ /\ dst # src
          /\ size' = [size EXCEPT ![dst] = size[src], ![src] = 0]
          /\ queue' = [queue EXCEPT ![dst] = queue[src], ![src] = << >>]
       \/ /\ dst = src
          /\ UNCHANGED <<size, queue>>
    /\ ret' = <<TRUE, << >>>>
    /\ UNCHANGED <<landing, next_byte>>

(* All of the bytes or none. *)
Enqueue(b, n, given) ==
    LET ok == n = 0 \/ (given /\ n <= Room(b))
    IN  /\ landing[b] = << >>
        /\ queue' = IF ok THEN [queue EXCEPT ![b] = @ \o Chunk(n)] ELSE queue
        /\ next_byte' = IF ok THEN (next_byte + n) % ByteMod ELSE next_byte
        /\ ret' = <<ok, << >>>>
        /\ UNCHANGED <<size, landing>>

Front(b, n, given) ==
    IF n = 0 \/ (given /\ n <= Len(queue[b]))
    THEN <<TRUE, SubSeq(queue[b], 1, n)>> ELSE <<FALSE, << >>>>

Dequeue(b, n, given) ==
    /\ ret' = Front(b, n, given)
    /\ queue' = [queue EXCEPT ![b] = Drop(@, Len(ret'[2]))]
    /\ UNCHANGED <<size, landing, next_byte>>

Peek(b, n, given) ==
    /\ ret' = Front(b, n, given)
    /\ UNCHANGED <<size, queue, landing, next_byte>>

Clear(b) ==
    /\ landing[b] = << >>
    /\ queue' = [queue EXCEPT ![b] = << >>]
    /\ ret' = <<TRUE, << >>>>
    /\ UNCHANGED <<size, landing, next_byte>>

Land(b, n) ==
    /\ landing[b] = << >> /\ n <= Room(b)
    /\ landing' = [landing EXCEPT ![b] = Chunk(n)]
    /\ next_byte' = (next_byte + n) % ByteMod
    /\ ret' = <<TRUE, << >>>>
    /\ UNCHANGED <<size, queue>>

Commit(b) ==
    /\ queue' = [queue EXCEPT ![b] = @ \o landing[b]]
    /\ landing' = [landing EXCEPT ![b] = << >>]
    /\ ret' = <<TRUE, << >>>>
    /\ UNCHANGED <<size, next_byte>>

Next ==
    \E b \in Buffer :
        \/ Construct(b) \/ Clear(b) \/ Commit(b)
        \/ \E src \in Buffer : Move(b, src)
        \/ \E n \in 0 .. MaxSize : Land(b, n)
        \/ \E n \in 0 .. MaxSize + 1, given \in BOOLEAN :
              Enqueue(b, n, given) \/ Dequeue(b, n, given) \/ Peek(b, n, given)

Spec == Init /\ [][Next]_vars
=============================================================================
