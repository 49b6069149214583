----------------------------- MODULE GameWorld -----------------------------
(***************************************************************************)
(* GameWorld: the heroes, where they are, and for every section of the     *)
(* world the list of the heroes in it.                                     *)
(***************************************************************************)
EXTENDS Integers, Sequences, FiniteSets

CONSTANTS
    Id,                 \* of heroes, which are those of sessions
    SECTION_SIZE,
    SECTION_X_COUNT,
    SECTION_Y_COUNT

ASSUME SectionAssumption == /\ SECTION_SIZE \in Nat \ {0}
                            /\ SECTION_X_COUNT \in Nat \ {0}
                            /\ SECTION_Y_COUNT \in Nat \ {0}
                            /\ SECTION_X_COUNT * SECTION_Y_COUNT < 2 ^ 16

VARIABLES heroes, alive, sections

worldVars == <<heroes, alive, sections>>

WORLD_WIDTH == SECTION_SIZE * SECTION_X_COUNT
WORLD_HEIGHT == SECTION_SIZE * SECTION_Y_COUNT
Section == 0 .. SECTION_X_COUNT * SECTION_Y_COUNT - 1
INVALID_SECTION == 2 ^ 16 - 1

Nobody == [direction |-> 0, x |-> 0, y |-> 0, hp |-> 0, section |-> INVALID_SECTION]

(* Mutants *)
Without_KeepsLast(vec, i) == SubSeq(vec, 1, Len(vec) - 1)
Damaged_Unclamped(hp, damage) == hp - damage

WorldInit == /\ heroes = [id \in Id |-> Nobody]
             /\ alive = [id \in Id |-> FALSE]
             /\ sections = [section \in Section |-> << >>]

pos_to_section(x, y) == (y \div SECTION_SIZE) * SECTION_X_COUNT + x \div SECTION_SIZE

(* The section and those around it, row by row *)
get_adjacent_sections ==
    [section \in Section |-> [k \in 1 .. 9 |->
        LET x == (section % SECTION_X_COUNT) + ((k - 1) % 3) - 1
            y == (section \div SECTION_X_COUNT) + ((k - 1) \div 3) - 1
        IN  IF x \in 0 .. SECTION_X_COUNT - 1 /\ y \in 0 .. SECTION_Y_COUNT - 1
            THEN y * SECTION_X_COUNT + x ELSE INVALID_SECTION]]

area_of_interest ==
    [section \in Section |->
        {get_adjacent_sections[section][k] : k \in 1 .. 9} \ {INVALID_SECTION}]

add_to_section(lists, section, id) == [lists EXCEPT ![section] = Append(@, id)]

(* The last entry takes the place of the i-th. *)
Without(vec, i) == SubSeq([vec EXCEPT ![i] = vec[Len(vec)]], 1, Len(vec) - 1)

(* An id that is not in the list fails an assertion, or nothing happens. *)
remove_from_section(lists, section, id) ==
    LET at == {i \in DOMAIN lists[section] : lists[section][i] = id}
        first == CHOOSE i \in at : \A j \in at : i <= j
    IN  IF at = {} THEN lists
        ELSE [lists EXCEPT ![section] = Without(@, first)]

add_hero(id, hero) ==
    LET section == pos_to_section(hero.x, hero.y)
    IN  /\ heroes' = [heroes EXCEPT ![id] = [hero EXCEPT !.section = section]]
        /\ alive' = [alive EXCEPT ![id] = TRUE]
        /\ sections' = add_to_section(sections, section, id)

(* Only the section is reset; nothing else is read before add_hero(). *)
remove_hero(id) ==
    IF alive[id]
    THEN /\ sections' = remove_from_section(sections, heroes[id].section, id)
         /\ heroes' = [heroes EXCEPT ![id] = Nobody]
         /\ alive' = [alive EXCEPT ![id] = FALSE]
    ELSE UNCHANGED worldVars

move_hero(id, x, y) ==
    LET old == heroes[id].section
        new == pos_to_section(x, y)
    IN  /\ heroes' = [heroes EXCEPT ![id].x = x, ![id].y = y, ![id].section = new]
        /\ sections' = IF old = new THEN sections
                       ELSE add_to_section(remove_from_section(sections, old, id), new, id)
        /\ UNCHANGED alive

turn_hero(id, direction) ==
    /\ heroes' = [heroes EXCEPT ![id].direction = direction]
    /\ UNCHANGED <<alive, sections>>

Damaged(hp, damage) == IF damage >= hp THEN 0 ELSE hp - damage

apply_damage(targets, damage) ==
    /\ heroes' = [id \in Id |-> IF id \in targets
                                THEN [heroes[id] EXCEPT !.hp = Damaged(@, damage)]
                                ELSE heroes[id]]
    /\ UNCHANGED <<alive, sections>>

(* The heroes in the lists of some sections *)
Players(lists, where) == UNION {{lists[section][i] : i \in DOMAIN lists[section]} : section \in where}
=============================================================================
