# TLA+ models of Course3

Course3 holds two game-server exercises on Winsock, the ring buffer and the
logger they share, and a small client. These modules model the servers, the
buffer and the logger; TLC checks them on small instances, and TLAPS proves the
echo server for every number of threads, sessions and bytes, the select server
for every pool, batch and buffer size, the Game for every world and any number of
heroes, that the ring buffer is a bounded queue for every size and width of the
integers, and that the logger writes its lines whole, in order and once.

## The system

| Component | State | Operations | Correct when |
|---|---|---|---|
| **RingBuffer** (`RingBuffer/`) | memory, capacity (a power of two), two indices that only grow and wrap at the width of `size_t` | enqueue, dequeue, peek, clear, direct sizes and pointers with advance, move | it is a bounded byte queue, and the direct parts stay within it |
| **IOCP echo server** (`IOCP Echo Server/`) | session map under an SRW lock, sessions with `io_count`, `sending`, a lock, two buffers, two OVERLAPPEDs; threads; port | start, shutdown, accept, receive and send completions | bytes come back once and in order, a session is deleted once and by its last user, shutdown ends if its packets can be posted |
| **SelectServer** (`Select MMO Server/SelectServer.*`) | pool of sessions, stack of free ids, table from socket to id, buffers, time of last activity | `update()`: accept, receive, process, send, idle check, clean-up; `send_to`, `broadcast`, `disconnect` | ids and sockets are never confused, the Game sees one connection at a time per id, dead sessions leave |
| **Game** (`Game.*`) | what each hero is doing | three callbacks of the server, six packet types, `update()` 25 times a second | every client shows the heroes around its own, as they are |
| **GameWorld** | heroes, who is alive, list of heroes per section | add, remove, move, damage, sections around a section | lists and heroes agree |
| **Packet** | none | wire layout | framing by a size byte |
| **Logger** (`Logger/`) | ring buffer, sink (backend, target, path, handle), threshold | log, flush, change of backend or target, end of the process | lines reach the sinks whole, in order and once; handles are opened and closed once |
| **TCP Client** | none | a blocking sample | not part of the servers |

How they interact. In the *echo server* an accept thread makes sessions and
posts their first receive; workers take completions from the port, post the
next receive, move bytes from the receive to the send buffer and start a send
unless one is on its way. All share a session through `io_count`, its lock and
the map. Main starts and joins the threads. In the *select server* one thread
does everything: `Game::run()` calls `SelectServer::update()`, which calls the
Game back; the Game calls `send_to()`, `broadcast()` and `disconnect()` from
inside these callbacks, so a session may die in the middle of any loop of the
server.

What is hard: in the echo server the interleavings of completions with
posting, the life time of a session, the `sending` flag against a send that
just ended, refused and failing I/O, shutdown. In the select server the long
histories: ids and socket handles are used again, sessions are killed in every
phase and cleaned up in one, the Game may send while a session is being
removed. In the Game the bookkeeping of what each client has been told. In the
ring buffer the wrap of the indices and the copies in two parts. In the logger
writes that fail half way, bytes the C library holds back, and handles that
pass through moves and destructors.

## Modules

| Module | Models | Notes |
|---|---|---|
| `ByteQueue` | abstract | two bounded byte queues with moves |
| `RingBuffer`, `MCRingBuffer` | RingBuffer.cpp | implements `ByteQueue` |
| `RingBufferProofs` | | theorems about `RingBuffer`, and that it implements `ByteQueue` |
| `EchoService` | abstract | what the echo server promises a client |
| `EchoServer`, `MCEchoServer` | IOCPEchoServer.cpp, its main.cpp | threads, kernel, clients; implements `EchoService` |
| `EchoServerProofs` | | theorems about the control of `EchoServer` |
| `EchoDataProofs` | | theorems about its bytes, and that it implements `EchoService` |
| `EchoMapProofs` | | theorems about its session map |
| `ClientSessions` | abstract | what a server promises to the Game |
| `SelectServer`, `MCSelectServer` | SelectServer.cpp, the loop of Game.cpp | with any Game; implements `ClientSessions` |
| `SelectServerProofs` | | theorems about `SelectServer` |
| `LoggerProofs` | | theorems about `Logger` |
| `GameWorld` | GameWorld.cpp | the world as operators on three variables |
| `GameWorldProofs` | | lemmas about sections and lists |
| `Game`, `MCGame` | Game.cpp, Game.tpp | over any server that behaves as `ClientSessions` |
| `GameProofs` | | theorems about `Game` |
| `Logger`, `MCLogger` | Logger.cpp | any calls of one thread, the C library and the system |

`SelectServer` and `Game` are composed through `ClientSessions`. The server is
modelled with a Game that does anything in its callbacks and is shown to
implement `ClientSessions`; the Game is modelled with any server that does what
`ClientSessions` allows (`Sessions!Opens`, `Delivers`, `Frees` and `Ends` are
conjuncts of its actions). Neither model needs the other's state. In the same way `EchoServer`
uses its ring buffers as the bounded sequences that `RingBuffer` is shown to
implement.

**EchoServer.** `pc[t]` is the place of a thread, named after the code: `recv_lock`,
`recvpost`, `wsarecv`, `echo`, `sendpost`, `wsasend` and so on in
`worker_thread_proc()`; `accept`, `emplace`, `associate`, `abandon` in
`accept_thread_proc()`; `dec`, `erase`, `drain`, `reap` in
`decrement_io_count()`. A step is what happens between two points where another
thread can see a difference: every interlocked operation, every lock, every
call that hands an OVERLAPPED to the kernel is a step of its own. `ret[t]` is
where `decrement_io_count()` and `sendpost()` return to. The completion port is
the state of the OVERLAPPEDs (`io`) and the number of packets without one
(`nulls`). Clients send the bytes 1, 2, 3, ... and may close or reset at any
time. `Failures` says what may fail, any number of times: start-up, allocations,
I/O, and the posting of the packets `shutdown()` wakes the workers with. Where the
code calls `DebugBreak()`, deletes a session twice or lets a `bad_alloc` out of
`emplace()` or out of the list of threads, `aborted` ends the behaviour.
`shutdown()` does not look at whether a packet was posted: `refused` counts those
that were not, and `WaitsInVain` is the state in which main waits for a worker
that waits for one of them, where the server stands still for ever. To its client
a connection is what `EchoService` says: `Stage` maps a session's memory to "none", "open" and "closed", the other variables are the
same.

**RingBuffer.** Memory is a function from slots to bytes, the indices are
numbers modulo `2 ^ Width`, and every copy is made in the two parts of the
code. The two `*Direct` actions are the ways the servers fill and drain a
buffer in place. Bytes come from a stream modulo `ByteMod`, so a byte out of
place shows.

**SelectServer.** `pc` is the phase of `update()`; every accept, receive,
packet, send and clean-up of one session is a step, with the callback of the
Game as a part of it (`GameCalls`: any messages to any sessions, any
disconnects). A receive buffer is the sequence of its bytes, a send buffer the
number of its messages. `silent` is the time since the last activity, cut off
just above the time-out. `memory` is which sessions got their buffers.

**Game.** Every handler is one action. `view[v][o]` is what client v shows of
character o once it has read what was sent to it; a client whose session is not
open shows nothing. `update()` takes one hero at a time from `todo`, and no
callback comes in between. A handler with several attacks or directions is
one action with a parameter. What the clients do with positions of moving
characters (they extrapolate) is left to them (`Underway`).

**Logger.** A handler is one action. What it does to the files is followed as
a record `o` of the variables it has come to: `WrittenOut`, `PassedOn` and
`Closed` return the records one step may lead to, and `Switch` strings them
together in the order of the setters: open, flush, close the old sink, take
the new one over, destroy what was moved from. A byte is known by its line, its
place there and whether it is the newline. `held` is what the C library keeps
of a stream, and passes on at any time (`Spill`), at `fflush()` and at
`fclose()`; a file opened by `CreateFileW()` is shared with readers only. A
closed handle may be given again. Writes and flushes fail any number of times;
`mishap` records the kinds that have. The process ends in four ways: it
exits, gives up, runs out of memory for the copy of a path (the last two abort
after a flush), or `open()`, which is `noexcept`, meets an exception in
`string()` or `wstring()` (`Terminate`). This last one flushes nothing: what waits in the
buffer is lost with the process.

## Runs

| Run | Question | Bounds |
|---|---|---|
| `echo_core` | reference counts, life time, single receive and send, windows, order of bytes, lost wake-up, map; implements `EchoService` | 1 session, 2 workers, 3 bytes, buffers of 4 or 0, every failure, refused packets included |
| `echo_sessions` | the same id for two sessions | 2 sessions, 2 workers, 1 byte, ids modulo 1 |
| `echo_liveness` | every byte of a connection that does not fail comes back; sessions are freed; shutdown ends, or stops at a packet it could not post | 1 session, 2 workers, 2 bytes, buffers of 2, failing I/O, any of the 2 packets refused |
| `echo_recv_full`, `echo_send_full` | the two `DebugBreak()`s, both reached | buffers of 2 |
| `ring_one` | all operations at all positions and wraps | one buffer of 1 or 4 bytes, indices of 3 bits |
| `ring_two` | two buffers, moves, no memory | buffers of 2 bytes, indices of 2 bits |
| `select_core` | ids, table, buffers; implements `ClientSessions` | 2 sessions in 2 batches, 3 sockets, 2 packet sizes, every failure |
| `select_liveness` | killed sessions leave | 2 sessions, 2 sockets |
| `game_line` | lists, views, hit points, tolerance | 3 heroes, 3 sections in a row, 1 attack, 3 hit points |
| `logger_sinks` | order, loss and wholeness of lines; handles | 2 lines, one cut off, 2 files, 2 handles, a buffer of 3 bytes, arrays of 3; memory, conversions of a path, writes and the C library's flush fail any number of times |
| `game_plane` | areas of interest at edges, corners, diagonals | 2 heroes, 4 x 3 sections of 2 x 2 positions |

Why the bounds are enough to be interesting. Two workers are enough for a
receive and a send of one session to be handled at once, with the accept thread
as a third party; a third worker would need a third operation. Three bytes in buffers of four make partial sends and
echoes that overtake them; ids modulo 1 make the wrap of the counter happen
at once. In the ring buffer every value of both indices occurs. Two sessions
and a batch size of one let a callback for one session kill another that is
before or after it in the loop, in the same batch or the next; three sockets
allow the system to give a handle again or a new one. Four columns of sections
make a step that leaves one column of sections and enters another while two
stay; three rows bring the invalid sections of the edges into the merge. Three
heroes are an attacker, a target and someone who watches. In the logger a
text of 3 is cut at the end of its array of 3 and one of 1 just fits, so that
both are lines of 2 bytes; two lines do not fit the buffer at once, but one fits
behind the part of another that a failed write has left, and a later flush, to the
same or another sink, takes both up; two files and two handles are what a
setter has in its hands at once.

Every property has a mutant: a definition changed the way a bug would change it
(`..._Kept`, `..._OneShort` and the like, at the head of each module), under which
TLC finds the property violated.

**Fairness.** `EchoServer!FairSpec`: threads are scheduled (weak fairness of every
thread and of main while it is not waiting for the user), and clients read or
reset (weak fairness of the completion of a send). Nothing forces a
client to send, to close, or the user to press ENTER. Locks need no strong
fairness because a waiting thread's step stays enabled once the last holder is
through. `EchoComplete` says that again and again all that was delivered has come
back: as a client sends at most `MaxBytes`, that is to say that every byte comes back.
`ShutdownEnds` says that `shutdown()` returns, or that packets were refused and no
more workers are left than there were refused packets; if every packet is posted
(`refused = 0`), it returns. `SelectServer!FairSpec`: the loop goes on as long as it is not ended,
and finds the queue of connections empty at some time, for the accept loop runs
as long as it does not.

**What the two violations say.** `recvpost()` is called before the received bytes
are moved on, with a window of all the free space: a receive that fills the
buffer makes the next `recvpost()` find no room (`NeverRecvFull`). Nothing
holds back a client that sends and does not read: the send buffer fills
(`NeverSendFull`). Both end in `DebugBreak()`.

## Proofs

`EchoServerProofs` proves, for any finite set of workers, any set of sessions
and any capacity, byte bound and failures (the named assumptions of
`EchoServer`), without fairness:

- `ControlTypeCorrect`: `Spec => []ControlTypeOK`, one step per action.
- `LifetimeCorrect`: `Spec => []LifetimeInv`, the inductive invariant.
- `RefCountCorrect` and `NoUseAfterFreeCorrect`, two of its conjuncts.

Why the strengthening. `RefCount` alone is not inductive: to know that a
decrement to 0 leaves nobody, one must know that the operation just posted was
not posted already (`OneRecv`, `OneSend`: one thread at a time has the *token*
of a session's receive or send, and while it has, the kernel has none), where a
thread returns to after a decrement (`ControlFlow`), and that a session in its first
moments, or after its last reference is gone, belongs to one thread
(`Exclusive(t) => Alone(t)`). The hard steps are a posting (`Posted`, `Submitted`), a
completion taken from the port (`Dequeued`), a decrement (`Decremented`) and a
deletion (`Freed`); all other steps keep the references as they are
(`QuietStep`). Counting is done by `CardinalityChange` and `IoRefsChange`: a
step adds or removes at most one reference of one kind. TLC checks the same
`LifetimeInv` in `echo_core`.

`EchoDataProofs` builds on it and proves `TypeOK`, `WindowsSafe`, `NoOverlappedReuse`,
`ReapAlone`, `NoLostWakeup`, `EchoInOrder` and, as `EchoServiceImplemented`,
`Spec => ImplementsEchoService`. Its invariant `DataInv` (`DataCorrect`) says seven
things of every session:

- `Held`: the owner of the lock is the worker that is at a label inside it.
- `Landing`: bytes the kernel has written are those of the completion that waits in
  the port, or that a thread has just taken from it.
- `Windows`: the two windows, also while a thread is just about to post them.
- `InOrder`: what came back, the send buffer without what is sent already, the
  receive buffer and what has landed are runs that follow one another
  (`Follow`), from the first byte to the last one delivered.
- `Waking`: if nothing failed, bytes in the send buffer mean that `sending` is 1, and
  that means an operation or a thread that has the send.
- `Posts`: bytes in the receive buffer mean a worker on its way to move them; a
  thread that was refused an operation has noted the failure.
- `Ends`: a live session has its receive under way, unless its client has closed its side or
  something failed.

`EchoInOrder` and `NoLostWakeup` say less than these, and neither is kept by itself: a
lost wake-up is excluded because nobody ends a send without looking at the
buffer under the lock, so the lock (`Held`) comes in; and that a session is
deleted only after everything came back needs `Ends`, `Waking`, `Posts` and
`Landing` at once, with the solitude of its deleter from `LifetimeInv`. A step of
one thread leaves the other sessions alone (`Local`), so each lemma is about one
session; the lemmas `Follow...` are the steps that move bytes. TLC checked
`DataInv` on the instances of `echo_core` and `echo_sessions` before it was proved.

`SelectServerProofs` proves, for any set of sockets, any `MAX_SESSION` that is a
multiple of `FD_SETSIZE`, any capacities and packet sizes that fit a buffer,
and any Game:

- `TypeCorrect`, `PoolCorrect`, `TableCorrect`, `LookupsCorrect`: `Spec => []` of
  `TypeOK`, `PoolExact`, `TableMatches`, `LookupsSucceed`. The inductive invariant
  `IInv` adds the types of the bytes (`Types`), which session each phase is with
  (`Phases`), and that a socket in a batch belongs to a session until its
  turn (`Reported`): the table alone does not say that what `select()` reported
  some callbacks ago still leads somewhere. That a
  free id exists when a session must be pushed is a pigeonhole argument: the
  stack holds distinct ids, so it is not full while one is in use.
- `SendCorrect`: the same for `NeverSendEmpty`.
- `RoomCorrect`: `RoomToReceive`. A second invariant, `StreamInv`, says that a
  receive buffer begins with a packet, that each byte is one that may follow the
  byte before it, and that outside `Process` no buffer of a live session holds
  a whole packet. That the bytes after a packet that was taken out begin a
  packet again is shown by the least place where they would not (`NatMin`),
  which takes the place of an induction over the packet.
- `SessionsImplemented`: `Spec => ImplementsClientSessions`, every action a step
  of `ClientSessions` or a stutter.

`EchoMapProofs` proves `MapMatches` (`MapMatchesCorrect`) from the invariant `MapInv`
(`MapCorrect`): what the map has is live, filed under its own id and not about
to be deleted (`Entries`), and, as long as no more sessions are made than there
are ids (`NoWrap`), the ids are those of the sessions made so far, each its own
(`Numbered`), and a live session is in the map unless the accept thread is just
putting it there (`Coming`) or its last user has taken it out (`Leaving`;
`Listed`). Without `NoWrap` two sessions may share an id; `Entries` holds all the same,
because `NotLeaving` rests on the solitude of the deleter in `LifetimeInv`. TLC
checked `MapInv` with ids modulo 1 and 2 and in `echo_core`.

`GameProofs` proves, for any size of the world and of its sections, any set of
heroes, any attacks and any tolerance, and any server that behaves as
`ClientSessions`: `TypeOK`, `SectionsMatch`, `ViewExact`, `ViewAccurate`,
`StandsNear`, `SlainLeave`, all from one inductive invariant `IInv`
(`InvariantCorrect`). What the properties do not say and `IInv` needs:

- `Placed`: list, place and session agree at once. A hero is in the list of its
  section exactly once and in no other, its section is that of its position,
  and it is alive exactly while its session is not free.
- `Underways`: who still has a turn in `update()` is alive and moving, because a
  `stop` and a disconnect come between two updates and take it off.
- `Views`: v shows o exactly if v's session is open, o is alive and o's section
  is in the area of interest of v. Each broadcast must then reach those and only
  those whose view changes.

A hero that steps from one section into another merges the two areas of
interest, which the code does with two sorted arrays and two indices. `MergeSolved`
says that the recursive function of the model has exactly one solution, by going
back from the ends of the arrays one index at a time, and `Changes` that it
yields the two set differences, entered and left. It needs that the arrays are ascending up
to their invalid entries (`AdjacentAscending`), and that a section is in the
area of another if that one is in its own (`AdjacentSymmetric`), both of which are
arithmetic on rows and columns (`Parts`, `PartsUnique`). The lists are changed by
swapping with the last entry (`RemovedFromList`). TLC checked `IInv` on the instances
of `game_line` and `game_plane` first.

`LoggerProofs` proves, for any sizes of the buffer and of a line, any number of
files and handles and any failures, as often as they come, that `TypeOK` (`TypeCorrect`), `HandlesMatch`
(`HandlesCorrect`) and `OrderKept` (`OrderCorrect`) always hold. `OrderKept`
speaks of what is in the files only. It is kept because what a file has, what
the C library holds back for it and what waits in the buffer follow one another
(`Ordered(Now)`), which needs that no handle but the sink's has bytes held back
(`OnlyHeld`) and that the sink's handle is open for the sink's file
(`HandlesMatch`). `LInv` is the conjunction of these. A call of the logger is
several steps in one action, so each step is a lemma about the record that
describes the logger between two steps, and an action is their composition.
`NothingLost` (`NothingLostCorrect`) and `LinesWhole` (`LinesCorrect`) follow from a
second invariant on top of it, `LossInv` (`WholeCorrect`), whose part `BytesKept`
says: while no write and no flush has failed, the buffer and every destination hold whole
lines and nothing else, every byte of a line that was taken is in exactly one place, in
the buffer (`Waits`) or at a destination (`Landed`), no stream holds anything back between two calls,
and the buffer is empty once the process has ended in a way that flushes it (`FlushedAtEnd`).
An exception in `open()` ends the process without a flush; `NothingLost` then says that what is
not at a destination is still in the buffer, so that no more than that is lost, and
no byte is lost that a flush has taken. `LinesWhole` alone is not
inductive, since it does not speak of the buffer the files are filled from; nor is `NothingLost`,
since a line that waits twice could be written twice. The heart of the proof is that
a flush without a failure moves the whole buffer into one destination (`Moved`).

`RingBufferProofs` proves, for any number of buffers, any sizes up to half the range
of the integers, any width of these and any number of different bytes, `TypeOK`
(`TypeCorrect`), `WithinCapacity` (`CapacityCorrect`), `DirectPartsUsable`
(`DirectPartsCorrect`) and that every step is a step of `ByteQueue` or a stutter
(`QueueImplemented`). The inductive invariant `IInv` (`InvariantCorrect`) is the first
two and that no capacity is larger than `MaxSize`. That a capacity stays below
`IndexMod` is what keeps the free and the used size from wrapping, and moves pass
capacities on; the bound itself comes from the sizes constructors are given. The
steps of the argument:

- Powers of two are a recursive function. That it is defined is shown by the least
  argument at which it would not be (`Least`, `DoublesSolvable`), and in the same way
  that a capacity divides `IndexMod` (`PowerDivides`) and that `BitCeil` finds
  one (`BitCeilIs`).
- So an index that has wrapped leads to the slot it would have led to
  (`SlotOfWrapped`), and the slots from one index to another are a `Window` of the memory
  that may go on at slot 0.
- A copy in two parts is a copy to, or from, such a window (`ScatterIs`, `GatherWindow`).
  It leaves the other windows alone (`ScatterWindows`), so an enqueue appends and a dequeue takes
  off the front.
- Each operation is then a lemma about the buffers it changes.

TLC checked `IInv` on the instances of `ring_one` and `ring_two` first.

Only model-checked: all liveness and fairness (`ENABLED` and temporal proofs with
it are out of the prover's reach).

## Not modelled

- Two threads in the logger at once. Main, in `start()`, and the accept thread of
  the echo server do that without a lock: a data race on the indices of the
  buffer, whose outcomes C++ leaves undefined.
- In the logger, the `catch (...)` of two setters (`Logger.cpp:170` and `238`): the copy
  of a path throws nothing but `bad_alloc`. Were one reached, the setter would return
  false with a sink in its hands that has the target `FILE` and still the handle
  `stderr`, and `~Sink()` would close `stderr`. Nor what threshold or text cost in
  characters: a line is its length.
- The layout and constructors of packets, which copy fields; the type byte of a
  header.
- `main()` of the select server: its calls of the logger and the server are
  some of those the modules allow in any order.
- Set-up of Winsock in `SelectServer`: it succeeds or aborts the process.
- The frame clock of `Game::run()`, and the sample client.
- In the echo server, sessions whose operations are outstanding when the port
  is closed: the process ends.

## Plan

1. Done: `RingBuffer` over `ByteQueue`, `EchoServer` over `EchoService` with its
   life-time proof, `SelectServer` over `ClientSessions` with the proof of it,
   `Game` and `GameWorld`, `Logger`.
2. Every safety property and every refinement a run expects to hold is proved.
   What is left for proofs: to state the step from `RingBuffer` to the bounded sequences
   of the servers, and from `ClientSessions` to `SelectServer` under `Game`, as theorems of
   composition.
