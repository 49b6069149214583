------------------------------- MODULE Logger -------------------------------
(***************************************************************************)
(* Logger: lines wait in a ring buffer until flush() writes them to the    *)
(* sink, which is a standard stream or a file, reached through the C       *)
(* library (STDIO), descriptors (POSIX) or the Windows API.  The program   *)
(* is any sequence of calls of one thread.                                 *)
(*                                                                         *)
(* The ring buffer is the bounded sequence of bytes that RingBuffer is     *)
(* shown to implement.  A byte is known by its line, its place there, and  *)
(* whether it is the newline.                                              *)
(***************************************************************************)
EXTENDS Integers, Sequences, FiniteSets

CONSTANTS
    Path, NoPath,       \* the files; a filepath that is empty
    Handle, NoHandle,   \* of open files; nullptr, -1, INVALID_HANDLE_VALUE
    BUFFER_SIZE,
    MAX_LINE_LENGTH,
    UsedLevel,          \* the levels the program logs with
    TextLength,         \* the lengths of what it logs, with the prefix
    MaxLines,           \* bound: the lines that enter the buffer before the process ends
    Failures            \* what may fail: memory for a path, its conversion, writes, flushes

LogLevel == 0 .. 4                  \* Debug, Info, Warning, Error, Fatal
Info == 1
Error == 3
Fatal == 4
Backend == {"STDIO", "POSIX", "WINDOWS"}
Std == {"STDERR", "STDOUT"}
Stream == Std \cup Handle           \* what bytes are written through
Destination == Std \cup Path        \* where they end up

ASSUME NameAssumption == /\ NoPath \notin Path
                         /\ Std \cap (Handle \cup Path) = {}
                         /\ NoHandle \notin Backend \X Stream
ASSUME SizeAssumption == /\ BUFFER_SIZE \in Nat
                         /\ MAX_LINE_LENGTH \in Nat \ {0, 1}
                         /\ MaxLines \in Nat
ASSUME UseAssumption == /\ UsedLevel \subseteq LogLevel
                        /\ TextLength \subseteq Nat \ {0}
                        /\ Failures \subseteq {"memory", "path", "write", "flush"}

VARIABLES
    buffer, sink, threshold,    \* the Logger
    opened,     \* for every handle, the backend and path of its open file
    held,       \* what the FILE of a stream holds back
    contents,   \* what has arrived
    lines,      \* the lines that entered the buffer: their lengths
    mishap,     \* what has gone wrong: a "write", the C library's "flush",
                \* the "close" of a closed handle
    status      \* of the process: "runs"; "exited", "aborted" by the program,
                \* "terminated" by an exception

vars == <<buffer, sink, threshold, opened, held, contents, lines, mishap, status>>

Unopened == <<"none", NoPath>>
Drop(seq, n) == SubSeq(seq, n + 1, Len(seq))
Take(seq, n) == SubSeq(seq, 1, n)

(* A Sink that was constructed, or moved from: "handle" names the backend  *)
(* whose member of the union it is.                                        *)
DefaultSink == [backend |-> "STDIO", target |-> "STDERR", filepath |-> NoPath,
                handle |-> <<"STDIO", "STDERR">>]

Init ==
    /\ buffer = << >> /\ sink = DefaultSink /\ threshold = Info
    /\ opened = [h \in Handle |-> Unopened]
    /\ held = [x \in Stream |-> << >>]
    /\ contents = [d \in Destination |-> << >>]
    /\ lines = << >> /\ mishap = {} /\ status = "runs"

(***************************************************************************)
(* Mutants: bugs a change could bring in, each of the definition it is     *)
(* named after.                                                            *)
(***************************************************************************)
LineLength_Returned(n) == n
NewlineAt_Beyond(n) == n + 1
Consumed_Nothing(bytes, n) == IF n < Len(bytes) THEN bytes ELSE << >>
MovedFrom_Kept(new) == new
AtExit_Drops(o, s) == {[out |-> o, ok |-> TRUE]}

(***************************************************************************)
(* log()                                                                   *)
(***************************************************************************)

(* The text of n characters is cut off so that its last place in the       *)
(* array is for the terminator and the one before it for the newline.      *)
Written(n) == IF n < MAX_LINE_LENGTH - 1 THEN n ELSE MAX_LINE_LENGTH - 1
NewlineAt(n) == IF Written(n) = MAX_LINE_LENGTH - 1 THEN MAX_LINE_LENGTH - 1 ELSE Written(n) + 1
LineLength(n) == IF Written(n) = MAX_LINE_LENGTH - 1 THEN Written(n) ELSE Written(n) + 1
Line(number, n) ==
    [i \in 1 .. LineLength(n) |-> [line |-> number, at |-> i, newline |-> i = NewlineAt(n)]]

(* The line enters the buffer as a whole or not at all.                    *)
Entered(state, level, n) ==
    IF level >= threshold /\ Len(state.buffer) + LineLength(n) <= BUFFER_SIZE
    THEN [state EXCEPT !.buffer = @ \o Line(Len(state.lines) + 1, n),
                       !.lines = Append(@, LineLength(n))]
    ELSE state

(***************************************************************************)
(* What a handler does to buffer, files and streams, step by step: "o" is  *)
(* the state it has come to.                                               *)
(***************************************************************************)
Now == [buffer |-> buffer, opened |-> opened, held |-> held, contents |-> contents,
        lines |-> lines, mishap |-> mishap]
Becomes(o) ==
    /\ buffer' = o.buffer /\ opened' = o.opened /\ held' = o.held
    /\ contents' = o.contents /\ lines' = o.lines /\ mishap' = o.mishap

Reaches(o, stream) == IF stream \in Std THEN stream ELSE o.opened[stream][2]

Running == status = "runs"
MayFail(what) == what \in Failures

(* Bytes held back for a stream arrive, the first n of them.               *)
Arrive(o, stream, n) ==
    [o EXCEPT !.contents[Reaches(o, stream)] = @ \o Take(o.held[stream], n),
              !.held[stream] = Drop(@, n)]

(* The C library passes on what it holds, or fails to after some of it and *)
(* keeps or forgets the rest.                                              *)
PassedOn(o, stream) ==
    {[out |-> Arrive(o, stream, Len(o.held[stream])), ok |-> TRUE]}
    \cup IF ~MayFail("flush") THEN {}
         ELSE UNION {LET part == [Arrive(o, stream, n) EXCEPT !.mishap = @ \cup {"flush"}]
                     IN  {[out |-> part, ok |-> FALSE],
                          [out |-> [part EXCEPT !.held[stream] = << >>], ok |-> FALSE]}
                     : n \in 0 .. Len(o.held[stream])}

Consumed(bytes, n) == Drop(bytes, n)

(* The loop of flush() and Sink::write(): all bytes are written, or some   *)
(* until a write fails; the C library holds what it is given.              *)
WrittenOut(o, s) ==
    LET all == Len(o.buffer)
        after(n) == [o EXCEPT !.buffer = Consumed(@, n),
                              !.mishap = IF n < all THEN @ \cup {"write"} ELSE @]
        given == s.handle[2]
        bytes(n) == Take(o.buffer, n)
        through(n) == IF s.backend = "STDIO"
                      THEN [after(n) EXCEPT !.held[given] = @ \o bytes(n)]
                      ELSE [after(n) EXCEPT !.contents[Reaches(o, given)] = @ \o bytes(n)]
    IN  IF s.handle = NoHandle THEN {after(0)}
        ELSE {through(n) : n \in IF MayFail("write") THEN 0 .. all ELSE {all}}

(* flush()                                                                 *)
Flushed(o, s) ==
    UNION {IF w.buffer # << >> THEN {[out |-> w, ok |-> FALSE]}
           ELSE IF s.backend = "STDIO" /\ s.handle # NoHandle THEN PassedOn(w, s.handle[2])
           ELSE {[out |-> w, ok |-> TRUE]}
           : w \in WrittenOut(o, s)}

(* Sink::close(): a file is closed, and what its FILE holds goes with it.  *)
Closed(o, s) ==
    IF s.target # "FILE" \/ s.handle = NoHandle THEN {o}
    ELSE LET h == s.handle[2]
             gone(p) == [p EXCEPT !.opened[h] = Unopened, !.held[h] = << >>]
         IN  IF o.opened[h] = Unopened THEN {[o EXCEPT !.mishap = @ \cup {"close"}]}
             ELSE IF s.backend = "STDIO" THEN {gone(p.out) : p \in PassedOn(o, h)}
             ELSE {gone(o)}
AfterClose(s) == IF s.target = "FILE" THEN [s EXCEPT !.handle = NoHandle] ELSE s

(* Sink::open() succeeds: with the handles it may get.  A file opened by   *)
(* CreateFileW() is not shared with others that write.  If it fails, the   *)
(* setter leaves everything as it is.                                      *)
Shared(path, backend) ==
    \A h \in Handle : opened[h][2] = path => "WINDOWS" \notin {opened[h][1], backend}
StdHandles(backend, target) ==
    {<<backend, target>>} \cup IF backend = "WINDOWS" THEN {NoHandle} ELSE {}
Opening(backend, target, path) ==
    IF target \in Std THEN {[handle |-> x, out |-> Now] : x \in StdHandles(backend, target)}
    ELSE IF path = NoPath \/ ~Shared(path, backend) THEN {}
    ELSE {[handle |-> <<backend, h>>, out |-> [Now EXCEPT !.opened[h] = <<backend, path>>]]
          : h \in {g \in Handle : opened[g] = Unopened}}

(* The path that open() converts for the system may throw, and open() is   *)
(* noexcept: std::terminate() ends the process where it stands.            *)
Terminate(target, path) ==
    /\ target = "FILE" /\ path # NoPath /\ "path" \in Failures
    /\ status' = "terminated"
    /\ UNCHANGED <<buffer, sink, opened, held, contents, lines, mishap>>

(* What destroys the local Sink when a setter returns, once it was moved   *)
(* from.                                                                   *)
MovedFrom(new) == DefaultSink

(* The setters: open, flush, close the old sink and take the new one over; *)
(* whether flush() succeeds is not asked.                                  *)
Switch(backend, target, path) ==
    /\ \E o \in Opening(backend, target, path) :
        LET new == [backend |-> backend, target |-> target, filepath |-> path, handle |-> o.handle]
        IN  \E f \in Flushed(o.out, sink) : \E c \in Closed(f.out, sink) :
            \E d \in Closed(c, MovedFrom(new)) : Becomes(d) /\ sink' = new
    /\ UNCHANGED status

(***************************************************************************)
(* The calls                                                               *)
(***************************************************************************)

Log(level, n) ==
    /\ Running /\ (level >= threshold => Len(lines) < MaxLines)
    /\ Becomes(Entered(Now, level, n))
    /\ UNCHANGED <<sink, threshold, status>>

Flush ==
    /\ Running
    /\ \E f \in Flushed(Now, sink) : Becomes(f.out)
    /\ UNCHANGED <<sink, threshold, status>>

Set_threshold(level) ==
    /\ Running
    /\ threshold' = level
    /\ UNCHANGED <<buffer, sink, opened, held, contents, lines, mishap, status>>

Set_sink(backend, target, path) ==
    /\ Running
    /\ Switch(backend, target, path) \/ Terminate(target, path)
    /\ UNCHANGED threshold

Set_backend(backend) == Set_sink(backend, sink.target, sink.filepath)
Set_target_std(target) == Set_sink(sink.backend, target, NoPath)
Set_target_file(path) == Set_sink(sink.backend, "FILE", path)

(* No memory for the path: what waits and the reason go to stderr, and the *)
(* process is aborted.                                                     *)
Abort_on_bad_alloc(reason, what) ==
    /\ Running /\ "memory" \in Failures
    /\ sink' = [DefaultSink EXCEPT !.filepath = sink.filepath]
    /\ \E c \in Closed(Now, sink) : \E f \in Flushed(c, sink') :
       LET told == Entered(Entered(f.out, Error, reason), Error, what)
       IN  \E g \in Flushed(told, sink') : Becomes(g.out)
    /\ status' = "aborted"
    /\ UNCHANGED threshold

(* The way SelectServer gives up: the reason is logged and flushed.        *)
Give_up(n) ==
    /\ Running
    /\ \E f \in Flushed(Entered(Now, Fatal, n), sink) : Becomes(f.out)
    /\ status' = "aborted"
    /\ UNCHANGED <<sink, threshold>>

(* ~Logger(), ~Sink() of its sink, and the C library's own streams.        *)
AtExit(o, s) == Flushed(o, s)
Exit ==
    /\ Running
    /\ \E f \in AtExit(Now, sink) : \E c \in Closed(f.out, sink) :
       \E d \in Closed(c, AfterClose(sink)) :
       \E p \in PassedOn(d, "STDOUT") : \E q \in PassedOn(p.out, "STDERR") : Becomes(q.out)
    /\ sink' = AfterClose(sink)
    /\ status' = "exited"
    /\ UNCHANGED threshold

(* The C library may pass on at any time what it holds.                    *)
Spill(stream) ==
    /\ Running
    /\ \E n \in 1 .. Len(held[stream]) : Becomes(Arrive(Now, stream, n))
    /\ UNCHANGED <<sink, threshold, status>>

Ended == ~Running /\ UNCHANGED vars

Next ==
    \/ \E level \in UsedLevel, n \in TextLength : Log(level, n)
    \/ Flush
    \/ \E level \in UsedLevel : Set_threshold(level)
    \/ \E backend \in Backend : Set_backend(backend)
    \/ \E target \in Std : Set_target_std(target)
    \/ \E path \in Path : Set_target_file(path)
    \/ \E reason, what \in TextLength : Abort_on_bad_alloc(reason, what)
    \/ \E n \in TextLength : Give_up(n)
    \/ Exit
    \/ \E stream \in Stream : Spill(stream)
    \/ Ended

Spec == Init /\ [][Next]_vars

(***************************************************************************)
(* Properties                                                              *)
(***************************************************************************)
ByteRecord == [line : Nat, at : Nat, newline : BOOLEAN]

(* Every variable has its type; the buffer keeps its bounds, and a line    *)
(* those of its array.                                                     *)
TypeOK ==
    /\ buffer \in Seq(ByteRecord) /\ Len(buffer) <= BUFFER_SIZE
    /\ threshold \in LogLevel
    /\ sink \in [backend : Backend, target : Std \cup {"FILE"}, filepath : Path \cup {NoPath},
                 handle : (Backend \X Stream) \cup {NoHandle}]
    /\ opened \in [Handle -> (Backend \X Path) \cup {Unopened}]
    /\ held \in [Stream -> Seq(ByteRecord)]
    /\ contents \in [Destination -> Seq(ByteRecord)]
    /\ lines \in Seq(1 .. MAX_LINE_LENGTH - 1)
    /\ mishap \subseteq {"write", "flush", "close"}
    /\ status \in {"runs", "exited", "aborted", "terminated"}

(* Over all setters, moves and destructions of Sinks, whatever fails: the  *)
(* Logger's sink has an open handle of its own backend and file, which is  *)
(* the only open one, no handle is closed twice and none is left over.     *)
HandlesMatch ==
    /\ "close" \notin mishap
    /\ Running =>
          /\ sink.target \in Std => sink.handle \in StdHandles(sink.backend, sink.target)
          /\ sink.target = "FILE" => sink.filepath # NoPath
          /\ \A h \in Handle :
                opened[h] = IF sink.target = "FILE" /\ sink.handle = <<sink.backend, h>>
                            THEN <<sink.backend, sink.filepath>> ELSE Unopened
          /\ sink.target = "FILE" => \E h \in Handle : sink.handle = <<sink.backend, h>>
    /\ status = "exited" => \A h \in Handle : opened[h] = Unopened

Precedes(b, c) == b.line < c.line \/ (b.line = c.line /\ b.at < c.at)

(* A file has what was logged in order and no byte of it twice, although   *)
(* writes fail half way, one sink for it follows another, and the C        *)
(* library holds bytes of the one while the other is opened.               *)
OrderKept ==
    \A d \in Path : \A p, q \in DOMAIN contents[d] :
        p < q => Precedes(contents[d][p], contents[d][q])

AllWritten == mishap \cap {"write", "flush"} = {}

(* As long as no write fails, every byte that entered the buffer is there  *)
(* or has arrived at one destination, once; and none is left behind when   *)
(* the process exits, is given up or runs out of memory for a path.  What  *)
(* an exception in open() takes with it is what still waits in the buffer. *)
Places(seq, i, k) == {p \in DOMAIN seq : seq[p].line = i /\ seq[p].at = k}
FlushedAtEnd == status \in {"exited", "aborted"}
NothingLost ==
    LET waiting(i, k) == IF FlushedAtEnd THEN {} ELSE Places(buffer, i, k)
        arrived(i, k) == UNION {{d} \X Places(contents[d], i, k) : d \in Destination}
    IN  AllWritten =>
            \A i \in DOMAIN lines : \A k \in 1 .. lines[i] :
                Cardinality(waiting(i, k)) + Cardinality(arrived(i, k)) = 1

(* As long as no write fails, a destination has whole lines only, each     *)
(* ended by its newline: no change of the sink, and no line that is cut    *)
(* off, makes two lines one or a line two.                                 *)
LinesWhole ==
    AllWritten =>
        \A d \in Destination : \A p \in DOMAIN contents[d] :
            LET b == contents[d][p]
            IN  /\ b.newline <=> b.at = lines[b.line]
                /\ b.newline \/ (p < Len(contents[d]) /\ contents[d][p + 1].line = b.line)
=============================================================================
