--------------------------- MODULE ClientSessions ---------------------------
(***************************************************************************)
(* What SelectServer promises to the Game: a session is announced, then    *)
(* delivers whole packets until something ends it, and is reported closed  *)
(* once before its id is used again.                                       *)
(***************************************************************************)
CONSTANTS
    Sid,        \* session ids
    NoSid,
    Packet      \* what a client may send
VARIABLES
    state,      \* of a session: "free", "open", or "closing"
    event       \* the last callback

vars == <<state, event>>

Event(call, s, packet) == [call |-> call, sid |-> s, packet |-> packet]
Quiet == Event("none", NoSid, << >>)

Init == /\ state = [s \in Sid |-> "free"]
        /\ event = Quiet

(* Any step may end sessions: the Game disconnects them, does not keep up  *)
(* with their buffers, or their connections fail.                          *)
Ends(now) ==
    \E ended \in SUBSET {s \in Sid : now[s] = "open"} :
        state' = [s \in Sid |-> IF s \in ended THEN "closing" ELSE now[s]]

(* What the three callbacks are about *)
Opens(s) == state[s] = "free" /\ Ends([state EXCEPT ![s] = "open"])
Delivers(s) == state[s] = "open" /\ Ends(state)
Frees(s) == state[s] = "closing" /\ Ends([state EXCEPT ![s] = "free"])

Connected(s) == Opens(s) /\ event' = Event("connected", s, << >>)
PacketReceived(s) ==
    Delivers(s) /\ \E packet \in Packet : event' = Event("packet", s, packet)
Disconnected(s) == Frees(s) /\ event' = Event("disconnected", s, << >>)

Between == Ends(state) /\ event' = Quiet

(* The destructor closes every session and tells nobody. *)
Closed == /\ state' = [s \in Sid |-> "free"]
          /\ event' = Quiet

Next == \/ \E s \in Sid : Connected(s) \/ PacketReceived(s) \/ Disconnected(s)
        \/ Between \/ Closed

Spec == Init /\ [][Next]_vars
=============================================================================
