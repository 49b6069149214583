----------------------------- MODULE RingBuffer -----------------------------
(***************************************************************************)
(* RingBuffer: bytes in a memory whose size is a power of two, between two *)
(* free-running indices that wrap at the width of the integer.  Besides    *)
(* enqueue() and dequeue(), callers use the direct pointers and sizes to   *)
(* let the system write into the free space, or read the used space, in    *)
(* two parts, and advance the indices themselves.                          *)
(***************************************************************************)
EXTENDS Integers, Sequences

CONSTANTS
    Buffer,     \* the RingBuffer objects
    ByteMod,    \* the number of bytes
    Junk,       \* what memory holds that was not written yet
    NoMemory,   \* the buffer pointer that is nullptr
    Width,      \* of the integers, in bits (64 in the code)
    Size        \* what constructors are asked for

Byte == 0 .. ByteMod - 1
Cell == Byte \cup {Junk}

(* 2 ^ k, written as a recursion so that it can be proved about *)
Power[k \in 0 .. Width] == IF k = 0 THEN 1 ELSE 2 * Power[k - 1]
IndexMod == Power[Width]

PowersOfTwo == {Power[k] : k \in 0 .. Width - 1}

ASSUME WidthAssumption == Width \in Nat \ {0}
ASSUME SizeAssumption == Size \subseteq 0 .. Power[Width - 1]
ASSUME ByteAssumption == ByteMod \in Nat \ {0} /\ Junk \notin Byte
ASSUME MemoryAssumption == \A p \in PowersOfTwo : NoMemory \notin [0 .. p - 1 -> Cell]

MaxSize == CHOOSE p \in PowersOfTwo : /\ \A n \in Size : n <= p
                                      /\ \A q \in PowersOfTwo : q < p => \E n \in Size : n > q

VARIABLES
    buffer, capacity, mask, read_index, write_index,
    landed,     \* the bytes a caller wrote directly and has not added yet
    next_byte,  \* what callers put into buffers: bytes of one long stream
    ret         \* what the last operation returned: success, and bytes

vars == <<buffer, capacity, mask, read_index, write_index, landed, next_byte, ret>>

Chunk(n) == [i \in 1 .. n |-> (next_byte + i - 1) % ByteMod]
Done == <<TRUE, << >>>>

(***************************************************************************)
(* Mutants: bugs a change could bring in, each of the definition it is     *)
(* named after.                                                            *)
(***************************************************************************)
BitCeil_Identity(n) == IF n = 0 THEN 1 ELSE n
Used_size_NoWrap(b) == write_index[b] - read_index[b]
Fits_OneMore(b, n) == n <= capacity[b] - ((write_index[b] - read_index[b]) % IndexMod) + 1
Scatter_OnePart(memory, at, first, rest, data) ==
    [i \in DOMAIN memory |-> IF i \in at .. at + Len(data) - 1 THEN data[i - at + 1] ELSE memory[i]]
Space_to_end_OneShort(b, index) == capacity[b] - (index % (mask[b] + 1)) - 1
Emptied_Kept(f, b) == f

(***************************************************************************)
(* Sizes and positions                                                     *)
(***************************************************************************)
BitCeil(n) == CHOOSE p \in PowersOfTwo : /\ n <= p
                                         /\ \A q \in PowersOfTwo : n <= q => p <= q

Slot(b, index) == index % (mask[b] + 1)      \* index & mask
Used_size(b) == (write_index[b] - read_index[b]) % IndexMod
Free_size(b) == (capacity[b] - Used_size(b)) % IndexMod
Fits(b, n) == n <= Free_size(b)
Space_to_end(b, index) == capacity[b] - Slot(b, index)
Smaller(m, n) == IF m >= n THEN n ELSE m
Direct_enqueue_size(b) == Smaller(Space_to_end(b, write_index[b]), Free_size(b))
Direct_dequeue_size(b) == Smaller(Space_to_end(b, read_index[b]), Used_size(b))

(* Copying in two parts: "first" bytes from "at", the others from "rest". *)
Scatter(memory, at, first, rest, data) ==
    [i \in DOMAIN memory |->
        IF i \in at .. at + Smaller(first, Len(data)) - 1 THEN data[i - at + 1]
        ELSE IF i \in rest .. rest + Len(data) - first - 1 THEN data[first + i - rest + 1]
        ELSE memory[i]]
Gather(memory, at, first, rest, n) ==
    [i \in 1 .. n |-> IF i <= first THEN memory[at + i - 1] ELSE memory[rest + i - first - 1]]

(* &buffer[0] as callers find it: the direct pointer less what is before it *)
WrapPosition(b, slot, first) == slot - (capacity[b] - first)

Advance(index, n) == (index + n) % IndexMod

(***************************************************************************)
(* Construction and moves                                                  *)
(***************************************************************************)

Fresh(n) == [i \in 0 .. BitCeil(n) - 1 |-> Junk]

Init ==
    /\ \E n \in Size :
          /\ capacity = [b \in Buffer |-> BitCeil(n)]
          /\ mask = [b \in Buffer |-> BitCeil(n) - 1]
          /\ buffer = [b \in Buffer |-> Fresh(n)]
    /\ read_index = [b \in Buffer |-> 0]
    /\ write_index = [b \in Buffer |-> 0]
    /\ landed = [b \in Buffer |-> 0]
    /\ next_byte = 0
    /\ ret = Done

(* The object is destroyed, and another one constructed in its place. *)
Construct(b, n) ==
    /\ \E memory \in {Fresh(n), NoMemory} :
          /\ buffer' = [buffer EXCEPT ![b] = memory]
          /\ capacity' = [capacity EXCEPT ![b] = IF memory = NoMemory THEN 0 ELSE BitCeil(n)]
    /\ mask' = [mask EXCEPT ![b] = BitCeil(n) - 1]
    /\ read_index' = [read_index EXCEPT ![b] = 0]
    /\ write_index' = [write_index EXCEPT ![b] = 0]
    /\ landed' = [landed EXCEPT ![b] = 0]
    /\ ret' = Done
    /\ UNCHANGED next_byte

Emptied(f, b) == [f EXCEPT ![b] = 0]

(* The move constructor, and the move assignment once the old memory of    *)
(* the destination is gone; the source keeps its mask.                     *)
Moved(dst, src) ==
    /\ buffer' = [buffer EXCEPT ![dst] = buffer[src], ![src] = NoMemory]
    /\ capacity' = [capacity EXCEPT ![dst] = capacity[src], ![src] = 0]
    /\ mask' = [mask EXCEPT ![dst] = mask[src]]
    /\ read_index' = Emptied([read_index EXCEPT ![dst] = read_index[src]], src)
    /\ write_index' = Emptied([write_index EXCEPT ![dst] = write_index[src]], src)

Move(dst, src) ==
    /\ landed[dst] = 0 /\ landed[src] = 0
    /\ \/ dst # src /\ Moved(dst, src)
       \/ dst = src /\ UNCHANGED <<buffer, capacity, mask, read_index, write_index>>
    /\ ret' = Done
    /\ UNCHANGED <<landed, next_byte>>

(***************************************************************************)
(* Copying in and out; "given" says whether the caller's pointer is not    *)
(* nullptr.                                                                *)
(***************************************************************************)
Enqueue(b, n, given) ==
    LET ok == n = 0 \/ (buffer[b] # NoMemory /\ given /\ Fits(b, n))
    IN  /\ landed[b] = 0
        /\ ret' = <<ok, << >>>>
        /\ IF ok /\ n > 0
           THEN /\ buffer' = [buffer EXCEPT ![b] =
                      Scatter(@, Slot(b, write_index[b]), Space_to_end(b, write_index[b]), 0, Chunk(n))]
                /\ write_index' = [write_index EXCEPT ![b] = Advance(@, n)]
                /\ next_byte' = (next_byte + n) % ByteMod
           ELSE UNCHANGED <<buffer, write_index, next_byte>>
        /\ UNCHANGED <<capacity, mask, read_index, landed>>

Copied(b, n, given) ==
    IF n = 0 THEN Done
    ELSE IF buffer[b] = NoMemory \/ ~given \/ Used_size(b) < n THEN <<FALSE, << >>>>
    ELSE <<TRUE, Gather(buffer[b], Slot(b, read_index[b]), Space_to_end(b, read_index[b]), 0, n)>>

Dequeue(b, n, given) ==
    /\ ret' = Copied(b, n, given)
    /\ read_index' = [read_index EXCEPT ![b] = Advance(@, Len(ret'[2]))]
    /\ UNCHANGED <<buffer, capacity, mask, write_index, landed, next_byte>>

Peek(b, n, given) ==
    /\ ret' = Copied(b, n, given)
    /\ UNCHANGED <<buffer, capacity, mask, read_index, write_index, landed, next_byte>>

Clear_buffer(b) ==
    /\ landed[b] = 0
    /\ read_index' = Emptied(read_index, b)
    /\ write_index' = Emptied(write_index, b)
    /\ ret' = Done
    /\ UNCHANGED <<buffer, capacity, mask, landed, next_byte>>

(***************************************************************************)
(* What callers do with the direct pointers                                *)
(***************************************************************************)

(* A receive writes into the free space, which is one part or two. *)
WriteDirect(b, n) ==
    LET slot == Slot(b, write_index[b])
        first == Direct_enqueue_size(b)
    IN  /\ buffer[b] # NoMemory /\ landed[b] = 0
        /\ n <= Free_size(b)
        /\ buffer' = [buffer EXCEPT ![b] =
               Scatter(@, slot, first, WrapPosition(b, slot, first), Chunk(n))]
        /\ landed' = [landed EXCEPT ![b] = n]
        /\ next_byte' = (next_byte + n) % ByteMod
        /\ ret' = Done
        /\ UNCHANGED <<capacity, mask, read_index, write_index>>

(* Its completion: advance_write_index() by what it transferred. *)
Advance_write_index(b) ==
    /\ write_index' = [write_index EXCEPT ![b] = Advance(@, landed[b])]
    /\ landed' = [landed EXCEPT ![b] = 0]
    /\ ret' = Done
    /\ UNCHANGED <<buffer, capacity, mask, read_index, next_byte>>

(* A send reads the front of the used space, and advance_read_index(). *)
ReadDirect(b, n) ==
    LET slot == Slot(b, read_index[b])
        first == Direct_dequeue_size(b)
    IN  /\ buffer[b] # NoMemory /\ n <= Used_size(b)
        /\ ret' = <<TRUE, Gather(buffer[b], slot, first, WrapPosition(b, slot, first), n)>>
        /\ read_index' = [read_index EXCEPT ![b] = Advance(@, n)]
        /\ UNCHANGED <<buffer, capacity, mask, write_index, landed, next_byte>>

Next ==
    \E b \in Buffer :
        \/ \E n \in Size : Construct(b, n)
        \/ \E src \in Buffer : Move(b, src)
        \/ \E n \in 0 .. MaxSize + 1, given \in BOOLEAN : Enqueue(b, n, given)
        \/ \E n \in 0 .. MaxSize + 1, given \in BOOLEAN : Dequeue(b, n, given)
        \/ \E n \in 0 .. MaxSize + 1, given \in BOOLEAN : Peek(b, n, given)
        \/ Clear_buffer(b)
        \/ \E n \in 0 .. MaxSize : WriteDirect(b, n)
        \/ Advance_write_index(b)
        \/ \E n \in 0 .. MaxSize : ReadDirect(b, n)

Spec == Init /\ [][Next]_vars

(***************************************************************************)
(* Properties                                                              *)
(***************************************************************************)

(* Every variable has its type; the memory is as large as the capacity. *)
TypeOK ==
    /\ buffer \in [Buffer -> {NoMemory} \cup UNION {[0 .. p - 1 -> Cell] : p \in PowersOfTwo}]
    /\ capacity \in [Buffer -> PowersOfTwo \cup {0}]
    /\ mask \in [Buffer -> {p - 1 : p \in PowersOfTwo}]
    /\ read_index \in [Buffer -> 0 .. IndexMod - 1]
    /\ write_index \in [Buffer -> 0 .. IndexMod - 1]
    /\ landed \in [Buffer -> 0 .. MaxSize]
    /\ next_byte \in Byte
    /\ \A b \in Buffer :
          IF buffer[b] = NoMemory THEN capacity[b] = 0
          ELSE buffer[b] \in [0 .. capacity[b] - 1 -> Cell] /\ capacity[b] = mask[b] + 1

(* The indices are never further apart than the capacity, in particular    *)
(* not when one of them has wrapped, nor of a buffer that was moved from.  *)
WithinCapacity ==
    \A b \in Buffer : Used_size(b) + landed[b] <= capacity[b]

(* A caller that uses the first part only (as recv() and send() in         *)
(* SelectServer do) gets no byte only if there is none, or no room.        *)
DirectPartsUsable ==
    \A b \in Buffer :
        /\ Free_size(b) > 0 <=> Direct_enqueue_size(b) > 0
        /\ Used_size(b) > 0 <=> Direct_dequeue_size(b) > 0

(* The queue is what lies between the indices. *)
Between(b, from, n) == [i \in 1 .. n |-> buffer[b][Slot(b, from + i - 1)]]
Contents == [b \in Buffer |-> Between(b, read_index[b], Used_size(b))]
Landing == [b \in Buffer |-> Between(b, write_index[b], landed[b])]

Queue == INSTANCE ByteQueue WITH size <- capacity, queue <- Contents, landing <- Landing

(* Every operation does to the bytes between the indices what it does to   *)
(* the queue, and returns the same.                                        *)
ImplementsByteQueue == Queue!Spec
=============================================================================
