-------------------------------- MODULE Game --------------------------------
(***************************************************************************)
(* Game: what it does when the server calls it, and in its own update(),   *)
(* with the world and with what the clients see of it.                     *)
(*                                                                         *)
(* The server is any that keeps the promise of ClientSessions, as          *)
(* SelectServer does: at any step sessions may end.  "view" is what a      *)
(* client whose session is open shows once it has read what was sent to    *)
(* it; a message about a character it does not show is of no effect.       *)
(***************************************************************************)
EXTENDS GameWorld

CONSTANTS
    START_HP,
    TOLERANCE,
    STEP_X, STEP_Y,     \* of a diagonal step
    Attacks,            \* the attacks' ranges and damages
    Spawn,              \* where heroes start: any position in the code
    Directions,         \* bound: the directions clients send
    Reports,            \* bound: the positions clients send
    NotShown,           \* of a character a client does not show
    Underway            \* a moving character: its client says where it is

MOVE_DIR_LL == 0
MOVE_DIR_RR == 4
MOVE_DIR_LD == 7
Left == {0, 1, 7}
Up == {1, 2, 3}
Right == {3, 4, 5}
Down == {5, 6, 7}

ASSUME GameAssumption ==
    /\ START_HP \in Nat \ {0} /\ TOLERANCE \in Nat
    /\ STEP_X \in Nat \ {0} /\ STEP_Y \in Nat \ {0}
    /\ \A attack \in Attacks : attack \in [x : Nat, y : Nat, damage : Nat]
    /\ Spawn \subseteq (0 .. WORLD_WIDTH - 1) \X (0 .. WORLD_HEIGHT - 1)
    /\ Directions \subseteq 0 .. 255
    /\ Reports \subseteq (0 .. 2 ^ 16 - 1) \X (0 .. 2 ^ 16 - 1)

(* What a client shows of a character *)
Shown == [direction : 0 .. 7, moving : BOOLEAN, hp : 0 .. START_HP,
          at : (Nat \X Nat) \cup {Underway}]

ASSUME ShownAssumption == NotShown \notin Shown

VARIABLES
    actions,    \* what the heroes are doing
    state,      \* of the sessions
    view,       \* the characters each client shows
    todo        \* the moving heroes update() has not come to

vars == <<worldVars, actions, state, view, todo>>

Sessions == INSTANCE ClientSessions
            WITH Sid <- Id, NoSid <- "none", Packet <- {}, event <- "not recorded"

Standing == [move_direction |-> MOVE_DIR_LL, moving |-> FALSE]

(***************************************************************************)
(* Mutants                                                                 *)
(***************************************************************************)
Seen_Standing(o) == [direction |-> heroes'[o].direction, moving |-> FALSE,
                     hp |-> heroes'[o].hp, at |-> <<heroes'[o].x, heroes'[o].y>>]
Mismatch_Never(hero, at) == FALSE
Slain_BeforeDamage(id) == heroes[id].hp = 0
Around_OwnSection(id) == Players(sections, {heroes[id].section})
Hides_LargerFirst(i, j, old, new) == i < 10 /\ (j = 10 \/ old[i] > new[j])

(***************************************************************************)
(* What is sent                                                            *)
(***************************************************************************)

(* A CREATE_OTHER_CHARACTER, and a MOVE_START if the hero is moving *)
Seen(o) == [direction |-> heroes'[o].direction, moving |-> actions'[o].moving,
            hp |-> heroes'[o].hp,
            at |-> IF actions'[o].moving THEN Underway ELSE <<heroes'[o].x, heroes'[o].y>>]

(* <<v, o>> \in shown: v is sent a CREATE of o; \in hidden: a DELETE. *)
Show(shown, hidden) ==
    view' = [v \in Id |-> [o \in Id |->
                IF state'[v] # "open" THEN NotShown
                ELSE IF <<v, o>> \in shown THEN Seen(o)
                ELSE IF <<v, o>> \in hidden THEN NotShown
                ELSE view[v][o]]]

(* <<v, o>> \in heard: v is sent what makes it show news[v][o] for o. *)
Tell(heard, news) ==
    view' = [v \in Id |-> [o \in Id |->
                IF state'[v] # "open" \/ view[v][o] = NotShown THEN NotShown
                ELSE IF <<v, o>> \in heard THEN news[v][o]
                ELSE view[v][o]]]

TellNothing == Show({}, {})

(* section_broadcast_packet() in the area of interest of hero id *)
Around(id) == Players(sections, area_of_interest[heroes[id].section])
ToAround(id) == Around(id) \X {id}

(***************************************************************************)
(* Clients come and go.                                                    *)
(***************************************************************************)
Init ==
    /\ WorldInit
    /\ actions = [id \in Id |-> Standing]
    /\ state = [id \in Id |-> "free"]
    /\ view = [v \in Id |-> [o \in Id |-> NotShown]]
    /\ todo = {}

on_client_connected(s) ==
    /\ todo = {} /\ Sessions!Opens(s)
    /\ \E p \in Spawn : add_hero(s, [direction |-> MOVE_DIR_LL, x |-> p[1], y |-> p[2],
                                     hp |-> START_HP, section |-> INVALID_SECTION])
    /\ actions' = [actions EXCEPT ![s] = Standing]
    /\ LET around == Players(sections', area_of_interest[heroes'[s].section])
       IN  Show((around \X {s}) \cup ({s} \X around), {})
    /\ UNCHANGED todo

on_client_disconnected(s) ==
    /\ todo = {} /\ Sessions!Frees(s)
    /\ remove_hero(s)
    /\ actions' = [actions EXCEPT ![s] = Standing]
    /\ Show({}, ToAround(s))
    /\ UNCHANGED todo

(* Sessions end: their clients leave or are too slow. *)
SessionsEnd ==
    /\ Sessions!Ends(state)
    /\ TellNothing
    /\ UNCHANGED <<worldVars, actions, todo>>

(***************************************************************************)
(* Packets.  Each handler is part of the callback on_packet_received().    *)
(***************************************************************************)
disconnect(ids) == \A id \in ids : state'[id] # "open"

Abs(n) == IF n < 0 THEN -n ELSE n
Near(hero, at) == Abs(at[1] - hero.x) <= TOLERANCE /\ Abs(at[2] - hero.y) <= TOLERANCE
Mismatch(hero, at) == ~Near(hero, at)

(* A direction that does not exist *)
Invalid(s) ==
    /\ \E direction \in Directions : direction > MOVE_DIR_LD
    /\ disconnect({s})
    /\ TellNothing
    /\ UNCHANGED <<worldVars, actions>>

(* The position of the packet matters to the others' clients only, which   *)
(* extrapolate from it; a SYNC before is overtaken by the MOVE_START.      *)
handle_cs_move_start(s) ==
    \E direction \in Directions :
        LET started == [v \in Id |-> [o \in Id |->
                [view[v][o] EXCEPT !.direction = direction, !.moving = TRUE, !.at = Underway]]]
        IN  /\ direction <= MOVE_DIR_LD /\ alive[s]
            /\ ~(actions[s].moving /\ actions[s].move_direction = direction)
            /\ actions' = [actions EXCEPT ![s] = [move_direction |-> direction, moving |-> TRUE]]
            /\ turn_hero(s, direction)
            /\ Tell(ToAround(s), started)

(* The clients are told the position of the packet, or that of the hero if *)
(* it is too far away; the hero stays where it is.                         *)
handle_cs_move_stop(s) ==
    \E direction \in Directions, at \in Reports :
        LET final == IF Mismatch(heroes[s], at) THEN <<heroes[s].x, heroes[s].y>> ELSE at
            stopped == [v \in Id |-> [o \in Id |->
                [view[v][o] EXCEPT !.direction = direction, !.moving = FALSE, !.at = final]]]
        IN  /\ direction <= MOVE_DIR_LD /\ alive[s] /\ actions[s].moving
            /\ actions' = [actions EXCEPT ![s] = Standing]
            /\ turn_hero(s, direction)
            /\ Tell(ToAround(s), stopped)

InBox(attacker, attack, target) ==
    LET left == IF attacker.direction = MOVE_DIR_LL THEN attacker.x - attack.x ELSE attacker.x
        right == IF attacker.direction = MOVE_DIR_RR THEN attacker.x + attack.x ELSE attacker.x
    IN  /\ target.x \in left .. right
        /\ target.y \in attacker.y - attack.y \div 2 .. attacker.y + attack.y \div 2

Slain(id) == heroes'[id].hp = 0

handle_cs_attack(s) ==
    \E attack \in Attacks :
        LET targets == {id \in Id \ {s} : alive[id] /\ InBox(heroes[s], attack, heroes[id])}
            place == IF actions[s].moving THEN Underway ELSE <<heroes[s].x, heroes[s].y>>
            fought == [v \in Id |-> [o \in Id |->
                IF o = s THEN [view[v][o] EXCEPT !.at = place]
                ELSE [view[v][o] EXCEPT !.hp = heroes'[o].hp]]]
        IN  /\ alive[s]
            /\ apply_damage(targets, attack.damage)
            /\ disconnect({id \in targets : Slain(id)})
            /\ Tell(UNION {ToAround(id) : id \in targets \cup {s}}, fought)
            /\ UNCHANGED actions

(* A wrong code, size or type; a MOVE_START or a MOVE_STOP too many *)
Ignored == TellNothing /\ UNCHANGED <<worldVars, actions>>

on_packet_received(s) ==
    /\ todo = {} /\ Sessions!Delivers(s)
    /\ \/ Invalid(s) \/ handle_cs_move_start(s) \/ handle_cs_move_stop(s)
       \/ handle_cs_attack(s) \/ Ignored
    /\ UNCHANGED todo

(***************************************************************************)
(* update()                                                                *)
(***************************************************************************)
update ==
    /\ todo = {}
    /\ todo' = {id \in Id : alive[id] /\ actions[id].moving}
    /\ UNCHANGED <<worldVars, actions, state, view>>

is_blocked_by_world_bound(hero) ==
    \/ hero.x = 0 /\ hero.direction \in Left
    \/ hero.x = WORLD_WIDTH - 1 /\ hero.direction \in Right
    \/ hero.y = 0 /\ hero.direction \in Up
    \/ hero.y = WORLD_HEIGHT - 1 /\ hero.direction \in Down

Clamp(n, last) == IF n < 0 THEN 0 ELSE IF n > last THEN last ELSE n
StepX(d) == IF d \in Left THEN -STEP_X ELSE IF d \in Right THEN STEP_X ELSE 0
StepY(d) == IF d \in Up THEN -STEP_Y ELSE IF d \in Down THEN STEP_Y ELSE 0

Hides(i, j, old, new) == i < 10 /\ (j = 10 \/ old[i] < new[j])

(* The merge of two areas of interest, from the i-th section of one and    *)
(* the j-th of the other on: what becomes of each section.  Had a section  *)
(* two turns, the later one would tell.                                    *)
Turn(later, section, what) == [later EXCEPT ![section] = IF @ = "stays" THEN what ELSE @]

Merge(old, new) ==
    LET from[at \in (1 .. 10) \X (1 .. 10)] ==
            LET i == at[1]
                j == at[2]
            IN  IF i = 10 /\ j = 10 THEN [section \in Section |-> "stays"]
                ELSE IF i < 10 /\ old[i] = INVALID_SECTION THEN from[<<i + 1, j>>]
                ELSE IF j < 10 /\ new[j] = INVALID_SECTION THEN from[<<i, j + 1>>]
                ELSE IF i < 10 /\ j < 10 /\ old[i] = new[j] THEN from[<<i + 1, j + 1>>]
                ELSE IF Hides(i, j, old, new) THEN Turn(from[<<i + 1, j>>], old[i], "hide")
                ELSE Turn(from[<<i, j + 1>>], new[j], "show")
    IN  from[<<1, 1>>]

SectionChange ==
    [old_section \in Section |-> [new_section \in Section |->
        Merge(get_adjacent_sections[old_section], get_adjacent_sections[new_section])]]

handle_section_change(s) ==
    LET change == SectionChange[heroes[s].section][heroes'[s].section]
        those(turn) == Players(sections', {i \in Section : change[i] = turn}) \ {s}
        both(others) == (others \X {s}) \cup ({s} \X others)
    IN  Show(both(those("show")), both(those("hide")))

progress_player_movement(s) ==
    LET hero == heroes[s]
    IN  /\ s \in todo
        /\ todo' = todo \ {s}
        /\ UNCHANGED actions
        /\ IF is_blocked_by_world_bound(hero)
           THEN UNCHANGED <<worldVars, state, view>>
           ELSE /\ Sessions!Ends(state)
                /\ move_hero(s, Clamp(hero.x + StepX(hero.direction), WORLD_WIDTH - 1),
                                Clamp(hero.y + StepY(hero.direction), WORLD_HEIGHT - 1))
                /\ IF heroes'[s].section # hero.section THEN handle_section_change(s)
                   ELSE TellNothing

Next == \/ \E s \in Id : \/ on_client_connected(s) \/ on_client_disconnected(s)
                         \/ on_packet_received(s) \/ progress_player_movement(s)
        \/ SessionsEnd \/ update

Spec == Init /\ [][Next]_vars

(***************************************************************************)
(* Properties                                                              *)
(***************************************************************************)

(* Every variable has its type; no hero is outside the world. *)
TypeOK ==
    /\ heroes \in [Id -> [direction : 0 .. 7, x : 0 .. WORLD_WIDTH - 1,
                          y : 0 .. WORLD_HEIGHT - 1, hp : 0 .. START_HP,
                          section : Section \cup {INVALID_SECTION}]]
    /\ alive \in [Id -> BOOLEAN] /\ sections \in [Section -> Seq(Id)]
    /\ actions \in [Id -> [move_direction : 0 .. 7, moving : BOOLEAN]]
    /\ state \in [Id -> {"free", "open", "closing"}]
    /\ view \in [Id -> [Id -> Shown \cup {NotShown}]] /\ todo \subseteq Id

(* The lists and the heroes agree: who is alive is in the list of the      *)
(* section of its position, once, and in no other, so the assertion of     *)
(* remove_from_section() holds; and it is alive while its session lasts.   *)
SectionsMatch ==
    \A id \in Id :
        /\ alive[id] <=> state[id] # "free"
        /\ alive[id] => heroes[id].section = pos_to_section(heroes[id].x, heroes[id].y)
        /\ \A section \in Section :
              Cardinality({i \in DOMAIN sections[section] : sections[section][i] = id})
                  = IF alive[id] /\ heroes[id].section = section THEN 1 ELSE 0

(* Their sections are the same, or neighbours, also across a corner. *)
InSight(v, o) ==
    LET Apart(a, b) == Abs((a \div SECTION_SIZE) - (b \div SECTION_SIZE))
    IN  /\ Apart(heroes[v].x, heroes[o].x) <= 1
        /\ Apart(heroes[v].y, heroes[o].y) <= 1

(* A client shows the heroes of its area of interest, all of them and no   *)
(* other, whoever moved in or out, came, went, or has a new id.            *)
ViewExact ==
    \A v \in Id : state[v] = "open" =>
        {o \in Id : view[v][o] # NotShown} = {o \in Id : alive[o] /\ InSight(v, o)}

(* It shows them as they are: where they turn to, whether they move, how   *)
(* much life is left.                                                      *)
ViewAccurate ==
    \A v, o \in Id : view[v][o] # NotShown =>
        /\ view[v][o].direction = heroes[o].direction
        /\ view[v][o].moving = actions[o].moving
        /\ view[v][o].hp = heroes[o].hp

(* Where a client shows a hero that stands still is not farther from its   *)
(* place in the world than the server tolerates.                           *)
StandsNear ==
    \A v, o \in Id : (view[v][o] # NotShown /\ ~actions[o].moving) =>
        Near(heroes[o], view[v][o].at)

(* A hero without life has no say any more: its session has ended. *)
SlainLeave == \A id \in Id : (alive[id] /\ heroes[id].hp = 0) => state[id] # "open"
=============================================================================
