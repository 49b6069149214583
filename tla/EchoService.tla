---------------------------- MODULE EchoService ----------------------------
(***************************************************************************)
(* What the echo server promises a client, whatever its threads do: the    *)
(* bytes a connection delivers come back in order, each once, and a        *)
(* connection that is sound is closed only when its client has closed its  *)
(* side and has got back everything.                                       *)
(***************************************************************************)
EXTENDS Integers, Sequences

CONSTANTS
    Connection,
    MaxBytes    \* bound: the bytes a client sends

VARIABLES
    stage,      \* of a connection: "none", "open", "closed"
    delivered,  \* the number of bytes the client's side has delivered
    echoed,     \* the bytes the client has got back
    fin,        \* whether the client has closed its side
    failed      \* whether an operation on the connection has failed

vars == <<stage, delivered, echoed, fin, failed>>

FirstBytes(n) == [i \in 1 .. n |-> i]

Init ==
    /\ stage = [c \in Connection |-> "none"]
    /\ delivered = [c \in Connection |-> 0]
    /\ echoed = [c \in Connection |-> << >>]
    /\ fin = [c \in Connection |-> FALSE]
    /\ failed = [c \in Connection |-> FALSE]

Accept(c) ==
    /\ stage[c] = "none"
    /\ stage' = [stage EXCEPT ![c] = "open"]
    /\ UNCHANGED <<delivered, echoed, fin, failed>>

Receive(c) ==
    /\ stage[c] = "open" /\ ~fin[c]
    /\ \E n \in delivered[c] + 1 .. MaxBytes : delivered' = [delivered EXCEPT ![c] = n]
    /\ UNCHANGED <<stage, echoed, fin, failed>>

(* The next bytes of those that were delivered come back.                  *)
Echo(c) ==
    /\ stage[c] = "open"
    /\ \E n \in Len(echoed[c]) + 1 .. delivered[c] :
          echoed' = [echoed EXCEPT ![c] = FirstBytes(n)]
    /\ UNCHANGED <<stage, delivered, fin, failed>>

CloseSide(c) ==
    /\ stage[c] = "open" /\ ~fin[c]
    /\ fin' = [fin EXCEPT ![c] = TRUE]
    /\ UNCHANGED <<stage, delivered, echoed, failed>>

Break(c) ==
    /\ stage[c] = "open"
    /\ failed' = [failed EXCEPT ![c] = TRUE]
    /\ UNCHANGED <<stage, delivered, echoed, fin>>

Close(c) ==
    /\ stage[c] = "open"
    /\ failed[c] \/ (fin[c] /\ Len(echoed[c]) = delivered[c])
    /\ stage' = [stage EXCEPT ![c] = "closed"]
    /\ UNCHANGED <<delivered, echoed, fin, failed>>

Next == \E c \in Connection :
            Accept(c) \/ Receive(c) \/ Echo(c) \/ CloseSide(c) \/ Break(c) \/ Close(c)

Spec == Init /\ [][Next]_vars
=============================================================================
