----------------------------- MODULE GameProofs -----------------------------
(***************************************************************************)
(* Proofs about Game for a world of any size, any heroes, attacks and      *)
(* directions, and any server that keeps the promise of ClientSessions.    *)
(***************************************************************************)
EXTENDS Game, GameWorldProofs

(***************************************************************************)
(* The merge of two areas of interest                                      *)
(***************************************************************************)
Grid == (1 .. 10) \X (1 .. 10)

(* One turn of the merge, when the others are known *)
Body(from, old, new, at) ==
  LET i == at[1]
      j == at[2]
  IN  IF i = 10 /\ j = 10 THEN [section \in Section |-> "stays"]
      ELSE IF i < 10 /\ old[i] = INVALID_SECTION THEN from[<<i + 1, j>>]
      ELSE IF j < 10 /\ new[j] = INVALID_SECTION THEN from[<<i, j + 1>>]
      ELSE IF i < 10 /\ j < 10 /\ old[i] = new[j] THEN from[<<i + 1, j + 1>>]
      ELSE IF Hides(i, j, old, new) THEN Turn(from[<<i + 1, j>>], old[i], "hide")
      ELSE Turn(from[<<i, j + 1>>], new[j], "show")

MergesTo(from, old, new) == from = [at \in Grid |-> Body(from, old, new, at)]

LEMMA MergeRecursion ==
  ASSUME NEW old, NEW new
  PROVE  Merge(old, new) = (CHOOSE from : MergesTo(from, old, new))[<<1, 1>>]
BY DEF Merge, MergesTo, Body, Grid

(* The valid entries from the k-th on *)
Rest(entries, k) == {entries[l] : l \in k .. 9} \ {INVALID_SECTION}

Ascending(entries) ==
  /\ \A k \in 1 .. 9 : entries[k] \in Section \cup {INVALID_SECTION}
  /\ \A k, l \in 1 .. 9 : (k < l /\ entries[k] # INVALID_SECTION /\ entries[l] # INVALID_SECTION)
                             => entries[k] < entries[l]

(* What the merge should tell from the i-th and the j-th entries on *)
Outcome(old, new, i, j) ==
  [section \in Section |->
      IF section \in Rest(old, i) \ Rest(new, j) THEN "hide"
      ELSE IF section \in Rest(new, j) \ Rest(old, i) THEN "show"
      ELSE "stays"]

LEMMA RestNext ==
  ASSUME NEW entries, Ascending(entries), NEW k \in 1 .. 9
  PROVE  /\ entries[k] = INVALID_SECTION => Rest(entries, k) = Rest(entries, k + 1)
         /\ entries[k] # INVALID_SECTION =>
               /\ Rest(entries, k) = Rest(entries, k + 1) \cup {entries[k]}
               /\ entries[k] \in Section
               /\ \A section \in Rest(entries, k + 1) : entries[k] < section
<1>1. k .. 9 = {k} \cup (k + 1 .. 9)  OBVIOUS
<1>2. Rest(entries, k) = ({entries[k]} \cup {entries[l] : l \in k + 1 .. 9}) \ {INVALID_SECTION}
  BY <1>1 DEF Rest
<1>3. ASSUME entries[k] # INVALID_SECTION, NEW section \in Rest(entries, k + 1)
      PROVE  entries[k] < section
  BY <1>3 DEF Rest, Ascending
<1>4. entries[k] # INVALID_SECTION => entries[k] \in Section  BY DEF Ascending
<1>5. QED BY <1>2, <1>3, <1>4 DEF Rest

LEMMA RestLast == ASSUME NEW entries PROVE Rest(entries, 10) = {}
BY DEF Rest

LEMMA SectionIsInt == \A section \in Section : section \in Int
BY Sizes DEF Section

LEMMA Order == \A m, n \in Int : (m < n \/ m = n \/ n < m) /\ (m < n => (m # n /\ ~(n < m)))
OBVIOUS

LEMMA OutcomeStep ==
  ASSUME NEW old, NEW new, Ascending(old), Ascending(new), NEW i \in 1 .. 10, NEW j \in 1 .. 10,
         NEW from, \A k, l \in 1 .. 10 : k + l > i + j => from[<<k, l>>] = Outcome(old, new, k, l)
  PROVE  Body(from, old, new, <<i, j>>) = Outcome(old, new, i, j)
<1> USE InvalidSection
<1>1. CASE i = 10 /\ j = 10
  BY <1>1, RestLast DEF Body, Outcome
<1>2. CASE i < 10 /\ old[i] = INVALID_SECTION
  <2>1. Rest(old, i) = Rest(old, i + 1)  BY <1>2, RestNext
  <2>2. Body(from, old, new, <<i, j>>) = from[<<i + 1, j>>]  BY <1>2 DEF Body
  <2>3. from[<<i + 1, j>>] = Outcome(old, new, i + 1, j)
    <3>1. i + 1 \in 1 .. 10 /\ (i + 1) + j > i + j  BY <1>2
    <3>2. QED BY <3>1, Zenon
  <2>4. QED BY <2>1, <2>2, <2>3 DEF Outcome
<1>3. CASE ~(i < 10 /\ old[i] = INVALID_SECTION) /\ j < 10 /\ new[j] = INVALID_SECTION
  <2>1. Rest(new, j) = Rest(new, j + 1)  BY <1>3, RestNext
  <2>2. Body(from, old, new, <<i, j>>) = from[<<i, j + 1>>]  BY <1>3 DEF Body
  <2>3. from[<<i, j + 1>>] = Outcome(old, new, i, j + 1)
    <3>1. j + 1 \in 1 .. 10 /\ i + (j + 1) > i + j  BY <1>3
    <3>2. QED BY <3>1, Zenon
  <2>4. QED BY <2>1, <2>2, <2>3 DEF Outcome
<1>4. CASE /\ ~(i = 10 /\ j = 10)
           /\ i < 10 => old[i] # INVALID_SECTION
           /\ j < 10 => new[j] # INVALID_SECTION
  <2>1. ASSUME i < 10
        PROVE  /\ Rest(old, i) = Rest(old, i + 1) \cup {old[i]} /\ old[i] \in Section /\ old[i] \in Int
               /\ \A section \in Rest(old, i + 1) : old[i] < section
               /\ old[i] \notin Rest(old, i + 1)
    BY <1>4, <2>1, RestNext, SectionIsInt
  <2>2. ASSUME j < 10
        PROVE  /\ Rest(new, j) = Rest(new, j + 1) \cup {new[j]} /\ new[j] \in Section /\ new[j] \in Int
               /\ \A section \in Rest(new, j + 1) : new[j] < section
               /\ new[j] \notin Rest(new, j + 1)
    BY <1>4, <2>2, RestNext, SectionIsInt
  <2>3. CASE i < 10 /\ j < 10 /\ old[i] = new[j]
    <3>1. Body(from, old, new, <<i, j>>) = from[<<i + 1, j + 1>>]  BY <1>4, <2>3 DEF Body
    <3>2. from[<<i + 1, j + 1>>] = Outcome(old, new, i + 1, j + 1)
      <4>1. i + 1 \in 1 .. 10 /\ j + 1 \in 1 .. 10 /\ (i + 1) + (j + 1) > i + j  BY <2>3
      <4>2. QED BY <4>1, Zenon
    <3>3. Outcome(old, new, i + 1, j + 1) = Outcome(old, new, i, j)
      <4>1. \A section \in Section :
               /\ section \in Rest(old, i) \ Rest(new, j) <=>
                    section \in Rest(old, i + 1) \ Rest(new, j + 1)
               /\ section \in Rest(new, j) \ Rest(old, i) <=>
                    section \in Rest(new, j + 1) \ Rest(old, i + 1)
        BY <2>1, <2>2, <2>3
      <4>2. QED BY <4>1 DEF Outcome
    <3>4. QED BY <3>1, <3>2, <3>3
  <2>4. CASE ~(i < 10 /\ j < 10 /\ old[i] = new[j]) /\ Hides(i, j, old, new)
    <3>1. i < 10 /\ (j = 10 \/ old[i] < new[j])  BY <2>4 DEF Hides
    <3>2. Body(from, old, new, <<i, j>>) = Turn(from[<<i + 1, j>>], old[i], "hide")
      BY <1>4, <2>4, <3>1 DEF Body
    <3>3. from[<<i + 1, j>>] = Outcome(old, new, i + 1, j)
      <4>1. i + 1 \in 1 .. 10 /\ (i + 1) + j > i + j  BY <3>1
      <4>2. QED BY <4>1, Zenon
    <3>4. old[i] \notin Rest(new, j)
      <4>1. CASE j = 10  BY <4>1, RestLast
      <4>2. CASE j < 10
        <5>2. old[i] \in Int /\ new[j] \in Int /\ old[i] < new[j]  BY <2>1, <2>2, <3>1, <4>2
        <5>3. \A section \in Rest(new, j) : section = new[j] \/ section \in Rest(new, j + 1)
          BY <2>2, <4>2
        <5>4. \A section \in Rest(new, j + 1) : new[j] < section  BY <2>2, <4>2
        <5>5. SUFFICES ASSUME old[i] \in Rest(new, j) PROVE FALSE  OBVIOUS
        <5>6. old[i] = new[j] \/ new[j] < old[i]  BY <5>3, <5>4, <5>5, Zenon
        <5>7. QED BY <5>2, <5>6, Order, Zenon
      <4>3. QED BY <4>1, <4>2
    <3>5. Turn(Outcome(old, new, i + 1, j), old[i], "hide") = Outcome(old, new, i, j)
      BY <2>1, <3>1, <3>4 DEF Turn, Outcome
    <3>6. QED BY <3>2, <3>3, <3>5
  <2>5. CASE ~(i < 10 /\ j < 10 /\ old[i] = new[j]) /\ ~Hides(i, j, old, new)
    <3>1. j < 10 /\ (i = 10 \/ new[j] < old[i])
      <4>1. ~(i < 10 /\ (j = 10 \/ old[i] < new[j]))  BY <2>5 DEF Hides
      <4>2. CASE i = 10  BY <1>4, <4>2
      <4>3. CASE i < 10
        <5>1. j < 10 /\ ~(old[i] < new[j]) /\ old[i] # new[j]  BY <2>5, <4>1, <4>3
        <5>2. old[i] \in Int /\ new[j] \in Int  BY <2>1, <2>2, <4>3, <5>1
        <5>3. QED BY <5>1, <5>2, Order, Zenon
      <4>4. QED BY <4>2, <4>3
    <3>2. Body(from, old, new, <<i, j>>) = Turn(from[<<i, j + 1>>], new[j], "show")
      BY <1>4, <2>5, <3>1 DEF Body
    <3>3. from[<<i, j + 1>>] = Outcome(old, new, i, j + 1)
      <4>1. j + 1 \in 1 .. 10 /\ i + (j + 1) > i + j  BY <3>1
      <4>2. QED BY <4>1, Zenon
    <3>4. new[j] \notin Rest(old, i)
      <4>1. CASE i = 10  BY <4>1, RestLast
      <4>2. CASE i < 10
        <5>2. old[i] \in Int /\ new[j] \in Int /\ new[j] < old[i]  BY <2>1, <2>2, <3>1, <4>2
        <5>3. \A section \in Rest(old, i) : section = old[i] \/ section \in Rest(old, i + 1)
          BY <2>1, <4>2
        <5>4. \A section \in Rest(old, i + 1) : old[i] < section  BY <2>1, <4>2
        <5>5. SUFFICES ASSUME new[j] \in Rest(old, i) PROVE FALSE  OBVIOUS
        <5>6. new[j] = old[i] \/ old[i] < new[j]  BY <5>3, <5>4, <5>5, Zenon
        <5>7. QED BY <5>2, <5>6, Order, Zenon
      <4>3. QED BY <4>1, <4>2
    <3>5. Turn(Outcome(old, new, i, j + 1), new[j], "show") = Outcome(old, new, i, j)
      BY <2>2, <3>1, <3>4 DEF Turn, Outcome
    <3>6. QED BY <3>2, <3>3, <3>5
  <2>6. QED BY <2>3, <2>4, <2>5
<1>5. QED BY <1>1, <1>2, <1>3, <1>4

(* The recursion has a solution, and no other.  The steps go back from the *)
(* ends of the arrays, where nothing is left to merge.                     *)
LEMMA MergeSolved ==
  ASSUME NEW old, NEW new, Ascending(old), Ascending(new)
  PROVE  Merge(old, new) = Outcome(old, new, 1, 1)
<1> DEFINE solution == [at \in Grid |-> Outcome(old, new, at[1], at[2])]
<1>1. \A k, l \in 1 .. 10 : solution[<<k, l>>] = Outcome(old, new, k, l)  BY DEF Grid
<1>2. \A k, l \in 1 .. 10 : Body(solution, old, new, <<k, l>>) = Outcome(old, new, k, l)
  <2> HIDE DEF solution
  <2>1. ASSUME NEW k \in 1 .. 10, NEW l \in 1 .. 10
        PROVE  Body(solution, old, new, <<k, l>>) = Outcome(old, new, k, l)
    <3>1. \A p, q \in 1 .. 10 : p + q > k + l => solution[<<p, q>>] = Outcome(old, new, p, q)
      BY <1>1
    <3>2. QED BY <3>1, OutcomeStep
  <2>2. QED BY <2>1
<1>3. MergesTo(solution, old, new)
  <2>1. \A at \in Grid : at = <<at[1], at[2]>> /\ at[1] \in 1 .. 10 /\ at[2] \in 1 .. 10  BY DEF Grid
  <2>2. \A at \in Grid : Outcome(old, new, at[1], at[2]) = Body(solution, old, new, at)
    <3> HIDE DEF solution
    <3>1. QED BY <1>2, <2>1
  <2>3. solution = [at \in Grid |-> Body(solution, old, new, at)]
    BY <2>2
  <2>4. QED BY <2>3 DEF MergesTo
<1>4. ASSUME NEW from, MergesTo(from, old, new)
      PROVE  from[<<1, 1>>] = Outcome(old, new, 1, 1)
  <2> DEFINE Known(n) == \A k, l \in 1 .. 10 : k + l > n => from[<<k, l>>] = Outcome(old, new, k, l)
  <2>1. \A k, l \in 1 .. 10 : from[<<k, l>>] = Body(from, old, new, <<k, l>>)
    BY <1>4 DEF MergesTo, Grid
  <2>2. ASSUME NEW n \in Nat, Known(n + 1) PROVE Known(n)
    <3>1. ASSUME NEW k \in 1 .. 10, NEW l \in 1 .. 10, k + l > n
          PROVE  from[<<k, l>>] = Outcome(old, new, k, l)
      <4>1. \A p, q \in 1 .. 10 : p + q > k + l => from[<<p, q>>] = Outcome(old, new, p, q)
        <5>1. ASSUME NEW p \in 1 .. 10, NEW q \in 1 .. 10, p + q > k + l
              PROVE  from[<<p, q>>] = Outcome(old, new, p, q)
          <6>1. p + q > n + 1  BY <3>1, <5>1
          <6>2. QED BY <2>2, <6>1, Zenon
        <5>2. QED BY <5>1
      <4>2. QED BY <2>1, <4>1, OutcomeStep
    <3>2. QED BY <3>1
  <2>3. Known(20)  OBVIOUS
  <2> HIDE DEF Known
  <2>4. Known(15)  BY <2>2, <2>3
  <2>5. Known(10)  BY <2>2, <2>4
  <2>6. Known(5)  BY <2>2, <2>5
  <2>7. Known(0)  BY <2>2, <2>6
  <2>8. QED BY <2>7 DEF Known
<1>5. MergesTo(CHOOSE from : MergesTo(from, old, new), old, new)  BY <1>3
<1>6. QED BY <1>4, <1>5, MergeRecursion

LEMMA Changes ==
  ASSUME NEW a \in Section, NEW b \in Section, NEW section \in Section
  PROVE  SectionChange[a][b][section]
            = IF section \in area_of_interest[a] \ area_of_interest[b] THEN "hide"
              ELSE IF section \in area_of_interest[b] \ area_of_interest[a] THEN "show"
              ELSE "stays"
<1>1. ASSUME NEW c \in Section
      PROVE  /\ Ascending(get_adjacent_sections[c])
             /\ Rest(get_adjacent_sections[c], 1) = area_of_interest[c]
  <2>1. area_of_interest[c] = Rest(get_adjacent_sections[c], 1)  BY DEF area_of_interest, Rest
  <2>2. \A k \in 1 .. 9 : get_adjacent_sections[c][k] \in Section \cup {INVALID_SECTION}
    BY <2>1, AreaOfInterest DEF Rest
  <2>3. QED BY <2>1, <2>2, AdjacentAscending DEF Ascending
<1>2. SectionChange[a][b] = Merge(get_adjacent_sections[a], get_adjacent_sections[b])
  BY DEF SectionChange
<1>3. SectionChange[a][b] = Outcome(get_adjacent_sections[a], get_adjacent_sections[b], 1, 1)
  BY <1>1, <1>2, MergeSolved
<1>4. QED BY <1>1, <1>3 DEF Outcome

(***************************************************************************)
(* The inductive invariant                                                 *)
(***************************************************************************)
Place == [id \in Id |-> heroes[id].section]

(* Lists, heroes and sessions agree. *)
Placed ==
  /\ ListsOf(sections, Place)
  /\ \A id \in Id :
        /\ alive[id] <=> state[id] # "free"
        /\ alive[id] => heroes[id].section = pos_to_section(heroes[id].x, heroes[id].y)
        /\ ~alive[id] => heroes[id].section = INVALID_SECTION

(* Who has a turn in update() is still there, and still moving. *)
Underways == \A id \in todo : alive[id] /\ actions[id].moving

(* A client shows the heroes in its area of interest.                      *)
InArea(v, o) == heroes[o].section \in area_of_interest[heroes[v].section]

Views ==
  \A v, o \in Id :
     view[v][o] # NotShown <=> (state[v] = "open" /\ alive[o] /\ InArea(v, o))

IInv == TypeOK /\ Placed /\ Underways /\ Views /\ ViewAccurate /\ StandsNear /\ SlainLeave


(***************************************************************************)
(* What an invariant of the places says                                    *)
(***************************************************************************)
HeroType == [direction : 0 .. 7, x : 0 .. WORLD_WIDTH - 1, y : 0 .. WORLD_HEIGHT - 1,
             hp : 0 .. START_HP, section : Section \cup {INVALID_SECTION}]

LEMMA AliveHasSection ==
  ASSUME TypeOK, Placed, NEW id \in Id
  PROVE  alive[id] <=> heroes[id].section \in Section
<1>1. heroes[id].x \in 0 .. WORLD_WIDTH - 1 /\ heroes[id].y \in 0 .. WORLD_HEIGHT - 1  BY DEF TypeOK
<1>2. pos_to_section(heroes[id].x, heroes[id].y) \in Section  BY <1>1, SectionOfPosition
<1>3. QED BY <1>2, InvalidSection DEF Placed

LEMMA PlayersAre ==
  ASSUME Placed, NEW where, where \subseteq Section
  PROVE  Players(sections, where) = {id \in Id : heroes[id].section \in where}
<1>1. Players(sections, where) = {id \in Id : Place[id] \in where}  BY PlayersListed DEF Placed
<1>2. QED BY <1>1 DEF Place

(* Who is around a hero, and whom a client shows *)
LEMMA AroundIs ==
  ASSUME TypeOK, Placed, NEW id \in Id, alive[id]
  PROVE  Around(id) = {v \in Id : InArea(id, v)}
<1>1. area_of_interest[heroes[id].section] \subseteq Section  BY AliveHasSection, AreaOfInterest
<1>2. QED BY <1>1, PlayersAre DEF Around, InArea

LEMMA InAreaSymmetric ==
  ASSUME TypeOK, Placed, NEW v \in Id, NEW o \in Id, alive[v], alive[o]
  PROVE  InArea(v, o) <=> InArea(o, v)
BY AliveHasSection, AdjacentSymmetric DEF InArea

(* Whoever shows a hero is told the news of it. *)
LEMMA ShownAround ==
  ASSUME TypeOK, Placed, Views, NEW v \in Id, NEW o \in Id, view[v][o] # NotShown
  PROVE  <<v, o>> \in ToAround(o)
<1>1. state[v] = "open" /\ alive[o] /\ InArea(v, o)  BY DEF Views
<1>2. alive[v]  BY <1>1 DEF Placed
<1>3. v \in Around(o)  BY <1>1, <1>2, AroundIs, InAreaSymmetric
<1>4. QED BY <1>3 DEF ToAround

(***************************************************************************)
(* Sessions that end                                                       *)
(***************************************************************************)
SessionType == [Id -> {"free", "open", "closing"}]

LEMMA EndsKeeps ==
  ASSUME NEW now \in SessionType, Sessions!Ends(now)
  PROVE  /\ state' \in SessionType
         /\ \A id \in Id : state'[id] = now[id] \/ (now[id] = "open" /\ state'[id] = "closing")
<1>1. PICK ended \in SUBSET {s \in Id : now[s] = "open"} :
        state' = [s \in Id |-> IF s \in ended THEN "closing" ELSE now[s]]
  BY DEF Sessions!Ends
<1>2. QED BY <1>1 DEF SessionType

(* A step that only tells clients nothing, while sessions may end *)
LEMMA Quiet ==
  ASSUME IInv, Sessions!Ends(state), TellNothing, UNCHANGED <<worldVars, actions, todo>>
  PROVE  IInv'
<1> USE DEF worldVars
<1>1. /\ state' \in SessionType
      /\ \A id \in Id : state'[id] = state[id] \/ (state[id] = "open" /\ state'[id] = "closing")
  BY EndsKeeps DEF IInv, TypeOK, SessionType
<1>2. /\ view' = [v \in Id |-> [o \in Id |-> IF state'[v] # "open" THEN NotShown ELSE view[v][o]]]
  BY DEF TellNothing, Show
<1>3. \A v, o \in Id : view'[v][o] = IF state'[v] # "open" THEN NotShown ELSE view[v][o]
  BY <1>2
<1>4. TypeOK'
  <2>1. \A v, o \in Id : view[v][o] \in Shown \cup {NotShown}  BY DEF IInv, TypeOK
  <2>2. view' \in [Id -> [Id -> Shown \cup {NotShown}]]  BY <1>2, <2>1
  <2>3. QED BY <1>1, <2>2 DEF IInv, TypeOK, SessionType
<1>5. Placed'
  <2>1. Place' = Place  BY DEF Place
  <2>2. QED BY <1>1, <2>1 DEF IInv, Placed
<1>6. Underways'  BY DEF IInv, Underways
<1>7. Views'  BY <1>1, <1>3 DEF IInv, Views, InArea
<1>8. ViewAccurate'  BY <1>1, <1>3 DEF IInv, ViewAccurate
<1>9. StandsNear'  BY <1>1, <1>3 DEF IInv, StandsNear, Near
<1>10. SlainLeave'  BY <1>1 DEF IInv, SlainLeave
<1>11. QED BY <1>4, <1>5, <1>6, <1>7, <1>8, <1>9, <1>10 DEF IInv

(***************************************************************************)
(* What is sent                                                            *)
(***************************************************************************)
ActionType == [move_direction : 0 .. 7, moving : BOOLEAN]

LEMMA Numbers ==
  /\ START_HP \in Nat /\ START_HP > 0 /\ TOLERANCE \in Nat
  /\ STEP_X \in Nat /\ STEP_Y \in Nat
  /\ \A direction \in Directions : direction \in Nat
  /\ \A at \in Reports : at \in Nat \X Nat
  /\ \A attack \in Attacks : attack.damage \in Nat
<1>1. /\ START_HP \in Nat \ {0} /\ TOLERANCE \in Nat
      /\ STEP_X \in Nat \ {0} /\ STEP_Y \in Nat \ {0}
  BY GameAssumption, Zenon
<1>2. \A direction \in Directions : direction \in Nat
  <2>1. Directions \subseteq 0 .. 255  BY GameAssumption, Zenon
  <2>2. QED BY <2>1
<1>3. \A at \in Reports : at \in Nat \X Nat
  <2>1. Reports \subseteq (0 .. 2 ^ 16 - 1) \X (0 .. 2 ^ 16 - 1)  BY GameAssumption, Zenon
  <2>2. ASSUME NEW at \in Reports PROVE at \in Nat \X Nat
    <3>1. 2 ^ 16 - 1 \in Int  OBVIOUS
    <3> DEFINE last == 2 ^ 16 - 1
    <3> HIDE DEF last
    <3>2. last \in Int /\ at \in (0 .. last) \X (0 .. last)  BY <2>1, <3>1 DEF last
    <3>3. QED BY <3>2
  <2>3. QED BY <2>2
<1>4. \A attack \in Attacks : attack.damage \in Nat
  <2>1. \A attack \in Attacks : attack \in [x : Nat, y : Nat, damage : Nat]
    BY GameAssumption, Zenon
  <2>2. QED BY <2>1
<1>5. QED BY <1>1, <1>2, <1>3, <1>4

LEMMA ViewType ==
  ASSUME TypeOK, NEW v \in Id, NEW o \in Id
  PROVE  view[v][o] \in Shown \cup {NotShown}
BY DEF TypeOK

LEMMA NearItself ==
  ASSUME NEW hero, hero.x \in Nat, hero.y \in Nat
  PROVE  Near(hero, <<hero.x, hero.y>>)
<1>1. hero.x - hero.x = 0 /\ hero.y - hero.y = 0 /\ 0 <= TOLERANCE  BY Numbers
<1>2. Abs(0) = 0  BY DEF Abs
<1>3. QED BY <1>1, <1>2 DEF Near

LEMMA SeenIs ==
  ASSUME heroes' \in [Id -> HeroType], actions' \in [Id -> ActionType], NEW o \in Id
  PROVE  /\ Seen(o) \in Shown /\ Seen(o) # NotShown
         /\ Seen(o).direction = heroes'[o].direction
         /\ Seen(o).moving = actions'[o].moving
         /\ Seen(o).hp = heroes'[o].hp
         /\ ~actions'[o].moving => Near(heroes'[o], Seen(o).at)
<1>1. /\ heroes'[o] \in HeroType /\ actions'[o] \in ActionType
      /\ heroes'[o].x \in Nat /\ heroes'[o].y \in Nat
  BY Sizes DEF HeroType
<1>2. Seen(o) \in Shown  BY <1>1 DEF Seen, Shown, HeroType, ActionType
<1>3. ~actions'[o].moving => Seen(o).at = <<heroes'[o].x, heroes'[o].y>>  BY DEF Seen
<1>4. Near(heroes'[o], <<heroes'[o].x, heroes'[o].y>>)
  BY <1>1, NearItself
<1>5. QED BY <1>2, <1>3, <1>4, ShownAssumption DEF Seen

LEMMA ShowIs ==
  ASSUME NEW shown, NEW hidden, Show(shown, hidden), NEW v \in Id, NEW o \in Id
  PROVE  view'[v][o] = IF state'[v] # "open" THEN NotShown
                       ELSE IF <<v, o>> \in shown THEN Seen(o)
                       ELSE IF <<v, o>> \in hidden THEN NotShown
                       ELSE view[v][o]
BY DEF Show

(* If what clients go on showing has not changed, all they show is right.  *)
LEMMA ShowAccurate ==
  ASSUME IInv, heroes' \in [Id -> HeroType], actions' \in [Id -> ActionType],
         NEW shown, NEW hidden, Show(shown, hidden),
         \A v, o \in Id : (view[v][o] # NotShown /\ <<v, o>> \notin shown \cup hidden) =>
            /\ heroes'[o].direction = heroes[o].direction
            /\ heroes'[o].hp = heroes[o].hp
            /\ actions'[o].moving = actions[o].moving
            /\ actions'[o].moving \/ (heroes'[o].x = heroes[o].x /\ heroes'[o].y = heroes[o].y)
  PROVE  ViewAccurate' /\ StandsNear' /\ view' \in [Id -> [Id -> Shown \cup {NotShown}]]
<1>1. ASSUME NEW v \in Id, NEW o \in Id
      PROVE  \/ view'[v][o] = Seen(o)
             \/ view'[v][o] = NotShown
             \/ /\ view'[v][o] = view[v][o] /\ view[v][o] # NotShown
                /\ <<v, o>> \notin shown \cup hidden
  BY ShowIs
<1>2. view' \in [Id -> [Id -> Shown \cup {NotShown}]]
  <2>1. ASSUME NEW v \in Id, NEW o \in Id
        PROVE  view'[v][o] \in Shown \cup {NotShown}
    <3>1. view[v][o] \in Shown \cup {NotShown}  BY DEF IInv, TypeOK
    <3>2. Seen(o) \in Shown  BY SeenIs
    <3>3. QED BY <1>1, <3>1, <3>2
  <2>2. view' = [v \in Id |-> [o \in Id |-> view'[v][o]]]  BY DEF Show
  <2>3. QED BY <2>1, <2>2
<1>3. ViewAccurate'
  <2>1. ASSUME NEW v \in Id, NEW o \in Id, view'[v][o] # NotShown
        PROVE  /\ view'[v][o].direction = heroes'[o].direction
               /\ view'[v][o].moving = actions'[o].moving
               /\ view'[v][o].hp = heroes'[o].hp
    <3>1. CASE view'[v][o] = Seen(o)  BY <3>1, SeenIs
    <3>2. CASE /\ view'[v][o] = view[v][o] /\ view[v][o] # NotShown
               /\ <<v, o>> \notin shown \cup hidden
      BY <3>2 DEF IInv, ViewAccurate
    <3>3. QED BY <1>1, <2>1, <3>1, <3>2
  <2>2. QED BY <2>1 DEF ViewAccurate
<1>4. StandsNear'
  <2>1. ASSUME NEW v \in Id, NEW o \in Id, view'[v][o] # NotShown, ~actions'[o].moving
        PROVE  Near(heroes'[o], view'[v][o].at)
    BY <1>1, <2>1, SeenIs DEF IInv, StandsNear, Near
  <2>2. QED BY <2>1 DEF StandsNear
<1>5. QED BY <1>2, <1>3, <1>4

(***************************************************************************)
(* Clients come and go.                                                    *)
(***************************************************************************)
LEMMA ConnectedKeeps ==
  ASSUME IInv, NEW s \in Id, on_client_connected(s)
  PROVE  IInv'
<1>1. PICK p \in Spawn :
        add_hero(s, [direction |-> MOVE_DIR_LL, x |-> p[1], y |-> p[2],
                     hp |-> START_HP, section |-> INVALID_SECTION])
  BY DEF on_client_connected
<1> DEFINE section == pos_to_section(p[1], p[2])
           hero == [direction |-> MOVE_DIR_LL, x |-> p[1], y |-> p[2], hp |-> START_HP,
                    section |-> section]
           around == Players(sections', area_of_interest[heroes'[s].section])
<1>2. /\ p[1] \in 0 .. WORLD_WIDTH - 1 /\ p[2] \in 0 .. WORLD_HEIGHT - 1
  BY GameAssumption
<1>3. section \in Section  BY <1>2, SectionOfPosition
<1>4. hero \in HeroType  BY <1>2, <1>3, Numbers DEF HeroType, MOVE_DIR_LL
<1>5. /\ heroes' = [heroes EXCEPT ![s] = hero]
      /\ alive' = [alive EXCEPT ![s] = TRUE]
      /\ sections' = add_to_section(sections, section, s)
  <2> DEFINE new == [direction |-> MOVE_DIR_LL, x |-> p[1], y |-> p[2],
                     hp |-> START_HP, section |-> INVALID_SECTION]
  <2>1. new.x = p[1] /\ new.y = p[2] /\ [new EXCEPT !.section = section] = hero  OBVIOUS
  <2> HIDE DEF new, hero
  <2>2. add_hero(s, new)  BY <1>1 DEF new
  <2>3. QED BY <2>1, <2>2 DEF add_hero
<1> HIDE DEF section
<1>6. /\ todo = {} /\ todo' = {}
      /\ actions' = [actions EXCEPT ![s] = Standing]
      /\ Show((around \X {s}) \cup ({s} \X around), {})
  BY DEF on_client_connected
<1>7. /\ state[s] = "free" /\ state' \in SessionType
      /\ state'[s] \in {"open", "closing"}
      /\ \A id \in Id \ {s} : state'[id] = state[id] \/ (state[id] = "open" /\ state'[id] = "closing")
  <2>1. state[s] = "free" /\ Sessions!Ends([state EXCEPT ![s] = "open"])
    BY DEF on_client_connected, Sessions!Opens
  <2>2. [state EXCEPT ![s] = "open"] \in SessionType  BY DEF IInv, TypeOK, SessionType
  <2>3. QED BY <2>1, <2>2, EndsKeeps DEF IInv, TypeOK, SessionType
<1>8. ~alive[s] /\ heroes[s].section = INVALID_SECTION  BY <1>7 DEF IInv, Placed
<1>9. /\ heroes' \in [Id -> HeroType] /\ heroes'[s] = hero
      /\ \A id \in Id \ {s} : heroes'[id] = heroes[id]
  BY <1>4, <1>5 DEF IInv, TypeOK, HeroType
<1>10. /\ actions' \in [Id -> ActionType] /\ \A id \in Id \ {s} : actions'[id] = actions[id]
  BY <1>6 DEF IInv, TypeOK, ActionType, Standing, MOVE_DIR_LL
<1>11. alive' \in [Id -> BOOLEAN] /\ alive'[s] /\ \A id \in Id \ {s} : alive'[id] = alive[id]
  BY <1>5 DEF IInv, TypeOK
<1>12. Place \in [Id -> Section \cup {INVALID_SECTION}] /\ Place' = [Place EXCEPT ![s] = section]
  <2>1. \A id \in Id : heroes[id] \in HeroType  BY DEF IInv, TypeOK, HeroType
  <2>2. \A id \in Id : heroes'[id].section = IF id = s THEN section ELSE heroes[id].section
    BY <1>9
  <2>3. QED BY <2>1, <2>2 DEF Place, HeroType
<1>13. ListsOf(sections', Place')
  <2>1. Place[s] = INVALID_SECTION  BY <1>8 DEF Place
  <2>2. QED BY <1>3, <1>5, <1>12, <2>1, AddedToList DEF IInv, Placed
<1>14. Placed'
  <2>1. hero.section = pos_to_section(hero.x, hero.y)  BY DEF section
  <2>2. ASSUME NEW id \in Id
        PROVE  /\ alive'[id] <=> state'[id] # "free"
               /\ alive'[id] => heroes'[id].section = pos_to_section(heroes'[id].x, heroes'[id].y)
               /\ ~alive'[id] => heroes'[id].section = INVALID_SECTION
    <3>1. CASE id = s  BY <1>7, <1>9, <1>11, <2>1, <3>1
    <3>2. CASE id # s  BY <1>7, <1>9, <1>11, <3>2 DEF IInv, Placed
    <3>3. QED BY <3>1, <3>2
  <2>3. QED BY <1>13, <2>2 DEF Placed
<1>15. around = {id \in Id : heroes'[id].section \in area_of_interest[section]}
  <2>1. around = {id \in Id : Place'[id] \in area_of_interest[section]}
    BY <1>3, <1>9, <1>13, PlayersListed, AreaOfInterest
  <2>2. QED BY <2>1 DEF Place
<1> HIDE DEF around, hero
<1>16. ASSUME NEW v \in Id, NEW o \in Id
       PROVE  view'[v][o] = IF state'[v] # "open" THEN NotShown
                            ELSE IF (v \in around /\ o = s) \/ (v = s /\ o \in around) THEN Seen(o)
                            ELSE view[v][o]
  <2>1. view'[v][o] = IF state'[v] # "open" THEN NotShown
                      ELSE IF <<v, o>> \in (around \X {s}) \cup ({s} \X around) THEN Seen(o)
                      ELSE IF <<v, o>> \in {} THEN NotShown
                      ELSE view[v][o]
    BY <1>6 DEF Show
  <2>2. QED BY <2>1
<1>17. ViewAccurate' /\ StandsNear' /\ view' \in [Id -> [Id -> Shown \cup {NotShown}]]
  <2>1. \A v \in Id : view[v][s] = NotShown  BY <1>8 DEF IInv, Views
  <2>2. QED BY <1>6, <1>9, <1>10, <2>1, ShowAccurate
<1>18. TypeOK'
  <2>1. sections' \in [Section -> Seq(Id)]  BY <1>13 DEF ListsOf
  <2>2. QED BY <1>6, <1>7, <1>9, <1>10, <1>11, <1>17, <2>1 DEF TypeOK, HeroType, ActionType, SessionType
<1>19. Views'
  <2>1. ASSUME NEW v \in Id, NEW o \in Id
        PROVE  view'[v][o] # NotShown <=> (state'[v] = "open" /\ alive'[o] /\ InArea(v, o)')
    <3>1. heroes'[s].section = section  BY <1>9 DEF hero
    <3>2. CASE state'[v] # "open"  BY <1>16, <3>2
    <3>3. CASE state'[v] = "open" /\ v = s
      <4>1. view[s][o] = NotShown  BY <1>7 DEF IInv, Views
      <4>2. view'[v][o] = IF o \in around \/ (o = s /\ s \in around) THEN Seen(o) ELSE NotShown
        BY <1>16, <3>3, <4>1
      <4>3. heroes'[o].section \in area_of_interest[section] => alive'[o]
        <5>1. heroes'[o].section \in Section => alive'[o]  BY <1>14, InvalidSection DEF Placed
        <5>2. QED BY <1>3, <5>1, AreaOfInterest
      <4>4. QED BY <1>9, <1>10, <1>15, <3>1, <3>3, <4>2, <4>3, SeenIs DEF InArea
    <3>4. CASE state'[v] = "open" /\ v # s /\ o = s
      <4>1. view[v][s] = NotShown  BY <1>8 DEF IInv, Views
      <4>2. view'[v][s] = IF v \in around THEN Seen(s) ELSE NotShown
        BY <1>16, <3>4, <4>1
      <4>3. alive[v] /\ heroes'[v].section \in Section
        BY <1>7, <1>9, <3>4, AliveHasSection DEF IInv, Placed
      <4>4. v \in around <=> InArea(v, s)'
        BY <1>3, <1>15, <3>1, <4>3, AdjacentSymmetric DEF InArea
      <4>5. QED BY <1>9, <1>10, <1>11, <3>4, <4>2, <4>4, SeenIs
    <3>5. CASE state'[v] = "open" /\ v # s /\ o # s
      <4>1. view'[v][o] = view[v][o]  BY <1>16, <3>5
      <4>2. state[v] = "open"  BY <1>7, <3>5
      <4>3. QED BY <1>9, <1>11, <3>5, <4>1, <4>2 DEF IInv, Views, InArea
    <3>6. QED BY <3>2, <3>3, <3>4, <3>5
  <2>2. QED BY <2>1 DEF Views
<1>20. Underways'  BY <1>6 DEF Underways
<1>21. SlainLeave'
  <2>1. hero.hp # 0  BY GameAssumption DEF hero
  <2>2. QED BY <1>7, <1>9, <1>11, <2>1 DEF IInv, SlainLeave
<1>22. QED BY <1>14, <1>17, <1>18, <1>19, <1>20, <1>21 DEF IInv

LEMMA DisconnectedKeeps ==
  ASSUME IInv, NEW s \in Id, on_client_disconnected(s)
  PROVE  IInv'
<1>1. /\ todo = {} /\ todo' = {}
      /\ remove_hero(s)
      /\ actions' = [actions EXCEPT ![s] = Standing]
      /\ Show({}, ToAround(s))
  BY DEF on_client_disconnected
<1>2. /\ state[s] = "closing" /\ state' \in SessionType
      /\ state'[s] = "free"
      /\ \A id \in Id \ {s} : state'[id] = state[id] \/ (state[id] = "open" /\ state'[id] = "closing")
  <2>1. state[s] = "closing" /\ Sessions!Ends([state EXCEPT ![s] = "free"])
    BY DEF on_client_disconnected, Sessions!Frees
  <2>2. [state EXCEPT ![s] = "free"] \in SessionType  BY DEF IInv, TypeOK, SessionType
  <2>3. QED BY <2>1, <2>2, EndsKeeps DEF IInv, TypeOK, SessionType
<1>3. alive[s] /\ heroes[s].section \in Section
  BY <1>2, AliveHasSection DEF IInv, Placed
<1>4. /\ sections' = remove_from_section(sections, heroes[s].section, s)
      /\ heroes' = [heroes EXCEPT ![s] = Nobody]
      /\ alive' = [alive EXCEPT ![s] = FALSE]
  BY <1>1, <1>3 DEF remove_hero
<1>5. Nobody \in HeroType /\ Nobody.section = INVALID_SECTION
  BY Sizes, Numbers DEF Nobody, HeroType
<1>6. /\ heroes' \in [Id -> HeroType] /\ heroes'[s] = Nobody
      /\ \A id \in Id \ {s} : heroes'[id] = heroes[id]
  BY <1>4, <1>5 DEF IInv, TypeOK, HeroType
<1>7. /\ actions' \in [Id -> ActionType] /\ \A id \in Id \ {s} : actions'[id] = actions[id]
  BY <1>1 DEF IInv, TypeOK, ActionType, Standing, MOVE_DIR_LL
<1>8. alive' \in [Id -> BOOLEAN] /\ ~alive'[s] /\ \A id \in Id \ {s} : alive'[id] = alive[id]
  BY <1>4 DEF IInv, TypeOK
<1>9. Place \in [Id -> Section \cup {INVALID_SECTION}] /\ Place' = [Place EXCEPT ![s] = INVALID_SECTION]
  <2>1. \A id \in Id : heroes[id] \in HeroType  BY DEF IInv, TypeOK, HeroType
  <2>2. QED BY <1>5, <1>6, <2>1 DEF Place, HeroType
<1>10. ListsOf(sections', Place')
  <2>1. Place[s] = heroes[s].section  BY DEF Place
  <2>2. QED BY <1>3, <1>4, <1>9, <2>1, RemovedFromList DEF IInv, Placed
<1>11. Placed'
  <2>1. ASSUME NEW id \in Id
        PROVE  /\ alive'[id] <=> state'[id] # "free"
               /\ alive'[id] => heroes'[id].section = pos_to_section(heroes'[id].x, heroes'[id].y)
               /\ ~alive'[id] => heroes'[id].section = INVALID_SECTION
    <3>1. CASE id = s  BY <1>2, <1>5, <1>6, <1>8, <3>1
    <3>2. CASE id # s  BY <1>2, <1>6, <1>8, <3>2 DEF IInv, Placed
    <3>3. QED BY <3>1, <3>2
  <2>2. QED BY <1>10, <2>1 DEF Placed
<1>12. \A v \in Id : view[v][s] # NotShown => <<v, s>> \in ToAround(s)
  BY ShownAround DEF IInv
<1>13. \A v, o \in Id : <<v, o>> \in ToAround(s) => o = s  BY DEF ToAround
<1>14. ViewAccurate' /\ StandsNear' /\ view' \in [Id -> [Id -> Shown \cup {NotShown}]]
  BY <1>1, <1>6, <1>7, <1>12, ShowAccurate
<1>15. TypeOK'
  <2>1. sections' \in [Section -> Seq(Id)]  BY <1>10 DEF ListsOf
  <2>2. QED BY <1>1, <1>2, <1>6, <1>7, <1>8, <1>14, <2>1 DEF TypeOK, HeroType, ActionType, SessionType
<1>16. ASSUME NEW v \in Id, NEW o \in Id
       PROVE  view'[v][o] = IF state'[v] # "open" \/ <<v, o>> \in ToAround(s) THEN NotShown
                            ELSE view[v][o]
  <2>1. view'[v][o] = IF state'[v] # "open" THEN NotShown
                      ELSE IF <<v, o>> \in {} THEN Seen(o)
                      ELSE IF <<v, o>> \in ToAround(s) THEN NotShown
                      ELSE view[v][o]
    BY <1>1 DEF Show
  <2>2. QED BY <2>1
<1>17. Views'
  <2>1. ASSUME NEW v \in Id, NEW o \in Id
        PROVE  view'[v][o] # NotShown <=> (state'[v] = "open" /\ alive'[o] /\ InArea(v, o)')
    <3>1. CASE state'[v] # "open"  BY <1>16, <3>1
    <3>2. CASE state'[v] = "open" /\ o = s
      <4>1. view'[v][s] = NotShown  BY <1>12, <1>16, <3>2
      <4>2. QED BY <1>8, <3>2, <4>1
    <3>3. CASE state'[v] = "open" /\ o # s
      <4>1. v # s /\ state[v] = "open"  BY <1>2, <3>3
      <4>2. view'[v][o] = view[v][o]  BY <1>13, <1>16, <3>3
      <4>3. QED BY <1>6, <1>8, <3>3, <4>1, <4>2 DEF IInv, Views, InArea
    <3>4. QED BY <3>1, <3>2, <3>3
  <2>2. QED BY <2>1 DEF Views
<1>18. Underways'  BY <1>1 DEF Underways
<1>19. SlainLeave'  BY <1>2, <1>6, <1>8 DEF IInv, SlainLeave
<1>20. QED BY <1>11, <1>14, <1>15, <1>17, <1>18, <1>19 DEF IInv

(***************************************************************************)
(* Packets                                                                 *)
(***************************************************************************)

(* A hero starts, turns or stops, and whoever shows it is told.            *)
LEMMA TurnedKeeps ==
  ASSUME IInv, NEW s \in Id, Sessions!Ends(state), todo = {}, UNCHANGED todo,
         NEW direction \in 0 .. 7, turn_hero(s, direction), NEW moving \in BOOLEAN,
         NEW move_direction \in 0 .. 7,
         actions' = [actions EXCEPT ![s] = [move_direction |-> move_direction, moving |-> moving]],
         NEW at \in (Nat \X Nat) \cup {Underway}, moving = FALSE => Near(heroes[s], at),
         view' = [v \in Id |-> [o \in Id |->
                     IF state'[v] # "open" \/ view[v][o] = NotShown THEN NotShown
                     ELSE IF <<v, o>> \in ToAround(s)
                          THEN [view[v][o] EXCEPT !.direction = direction, !.moving = moving, !.at = at]
                     ELSE view[v][o]]]
  PROVE  IInv'
<1>1. /\ state' \in SessionType
      /\ \A id \in Id : state'[id] = state[id] \/ (state[id] = "open" /\ state'[id] = "closing")
  BY EndsKeeps DEF IInv, TypeOK, SessionType
<1>2. UNCHANGED <<alive, sections>> /\ heroes' = [heroes EXCEPT ![s].direction = direction]
  BY DEF turn_hero
<1>3. /\ heroes' \in [Id -> HeroType]
      /\ \A id \in Id : heroes'[id] = IF id = s THEN [heroes[s] EXCEPT !.direction = direction]
                                      ELSE heroes[id]
  BY <1>2 DEF IInv, TypeOK, HeroType
<1>4. \A id \in Id : /\ heroes'[id].x = heroes[id].x /\ heroes'[id].y = heroes[id].y
                     /\ heroes'[id].hp = heroes[id].hp /\ heroes'[id].section = heroes[id].section
                     /\ heroes'[id].direction = IF id = s THEN direction ELSE heroes[id].direction
  <2>1. \A id \in Id : heroes[id] \in HeroType  BY DEF IInv, TypeOK, HeroType
  <2>2. QED BY <1>3, <2>1 DEF HeroType
<1>5. /\ actions' \in [Id -> ActionType]
      /\ actions'[s].moving = moving /\ \A id \in Id \ {s} : actions'[id] = actions[id]
  BY DEF IInv, TypeOK, ActionType
<1>6. ASSUME NEW v \in Id, NEW o \in Id
      PROVE  /\ view[v][o] \in Shown \cup {NotShown}
             /\ view'[v][o] \in Shown \cup {NotShown}
             /\ view'[v][o] # NotShown <=> (state'[v] = "open" /\ view[v][o] # NotShown)
             /\ (view'[v][o] # NotShown /\ o = s) =>
                   /\ view'[v][o].direction = direction /\ view'[v][o].moving = moving
                   /\ view'[v][o].hp = view[v][o].hp /\ view'[v][o].at = at
             /\ (view'[v][o] # NotShown /\ o # s) => view'[v][o] = view[v][o]
  <2> DEFINE told == [view[v][o] EXCEPT !.direction = direction, !.moving = moving, !.at = at]
  <2>1. view[v][o] \in Shown \cup {NotShown}  BY ViewType DEF IInv
  <2>2. view'[v][o] = IF state'[v] # "open" \/ view[v][o] = NotShown THEN NotShown
                      ELSE IF <<v, o>> \in ToAround(s) THEN told ELSE view[v][o]
    OBVIOUS
  <2>3. view[v][o] # NotShown =>
          /\ told \in Shown /\ told # NotShown /\ told.direction = direction /\ told.moving = moving
          /\ told.hp = view[v][o].hp /\ told.at = at
    BY <2>1, ShownAssumption DEF Shown
  <2>4. view[v][o] # NotShown => (<<v, o>> \in ToAround(s) <=> o = s)
    BY ShownAround DEF IInv, ToAround
  <2> HIDE DEF told
  <2>5. CASE state'[v] # "open" \/ view[v][o] = NotShown  BY <2>1, <2>2, <2>5
  <2>6. CASE state'[v] = "open" /\ view[v][o] # NotShown /\ o = s
    BY <2>1, <2>2, <2>3, <2>4, <2>6
  <2>7. CASE state'[v] = "open" /\ view[v][o] # NotShown /\ o # s
    BY <2>1, <2>2, <2>4, <2>7
  <2>8. QED BY <2>5, <2>6, <2>7
<1>7. TypeOK'
  <2>1. view' \in [Id -> [Id -> Shown \cup {NotShown}]]  BY <1>6
  <2>2. /\ alive' \in [Id -> BOOLEAN] /\ sections' \in [Section -> Seq(Id)]
        /\ todo' \subseteq Id
    BY <1>2 DEF IInv, TypeOK
  <2>3. QED BY <1>1, <1>3, <1>5, <2>1, <2>2, Zenon DEF TypeOK, HeroType, ActionType, SessionType
<1>8. Placed'
  <2>1. Place' = Place  BY <1>4 DEF Place
  <2>2. ListsOf(sections, Place)'
    <3>1. ListsOf(sections, Place)  BY DEF IInv, Placed
    <3>2. QED BY <1>2, <2>1, <3>1
  <2>3. ASSUME NEW id \in Id
        PROVE  /\ alive'[id] <=> state'[id] # "free"
               /\ alive'[id] => heroes'[id].section = pos_to_section(heroes'[id].x, heroes'[id].y)
               /\ ~alive'[id] => heroes'[id].section = INVALID_SECTION
    BY <1>1, <1>2, <1>4 DEF IInv, Placed
  <2>4. QED BY <2>2, <2>3 DEF Placed
<1>9. Underways'  BY DEF Underways
<1>10. Views'
  <2>1. ASSUME NEW v \in Id, NEW o \in Id
        PROVE  view'[v][o] # NotShown <=> (state'[v] = "open" /\ alive'[o] /\ InArea(v, o)')
    <3>1. InArea(v, o)' <=> InArea(v, o)  BY <1>4 DEF InArea
    <3>2. view[v][o] # NotShown <=> (state[v] = "open" /\ alive[o] /\ InArea(v, o))
      BY DEF IInv, Views
    <3>3. state'[v] = state[v] \/ (state[v] = "open" /\ state'[v] = "closing")  BY <1>1
    <3>4. view'[v][o] # NotShown <=> (state'[v] = "open" /\ view[v][o] # NotShown)  BY <1>6
    <3>5. alive'[o] = alive[o]  BY <1>2
    <3>6. QED BY <3>1, <3>2, <3>3, <3>4, <3>5
  <2>2. QED BY <2>1 DEF Views
<1>11. ViewAccurate'
  <2>1. ASSUME NEW v \in Id, NEW o \in Id, view'[v][o] # NotShown
        PROVE  /\ view'[v][o].direction = heroes'[o].direction
               /\ view'[v][o].moving = actions'[o].moving
               /\ view'[v][o].hp = heroes'[o].hp
    <3>1. view[v][o] # NotShown  BY <1>6, <2>1
    <3>2. /\ view[v][o].direction = heroes[o].direction
          /\ view[v][o].moving = actions[o].moving
          /\ view[v][o].hp = heroes[o].hp
      BY <3>1 DEF IInv, ViewAccurate
    <3>3. CASE o = s
      <4>1. /\ view'[v][o].direction = direction /\ view'[v][o].moving = moving
            /\ view'[v][o].hp = view[v][o].hp
        BY <1>6, <2>1, <3>3
      <4>2. /\ heroes'[o].direction = direction /\ actions'[o].moving = moving
            /\ heroes'[o].hp = heroes[o].hp
        BY <1>4, <1>5, <3>3
      <4>3. QED BY <3>2, <4>1, <4>2
    <3>4. CASE o # s
      <4>1. /\ view'[v][o].direction = view[v][o].direction
            /\ view'[v][o].moving = view[v][o].moving
            /\ view'[v][o].hp = view[v][o].hp
        BY <1>6, <2>1, <3>4
      <4>2. /\ heroes'[o].direction = heroes[o].direction
            /\ actions'[o].moving = actions[o].moving
            /\ heroes'[o].hp = heroes[o].hp
        BY <1>4, <1>5, <3>4
      <4>3. QED BY <3>2, <4>1, <4>2
    <3>5. QED BY <3>3, <3>4
  <2>2. QED BY <2>1 DEF ViewAccurate
<1>12. StandsNear'
  <2>1. ASSUME NEW v \in Id, NEW o \in Id, view'[v][o] # NotShown, ~actions'[o].moving
        PROVE  Near(heroes'[o], view'[v][o].at)
    <3>1. view[v][o] # NotShown  BY <1>6, <2>1
    <3>2. heroes'[o].x = heroes[o].x /\ heroes'[o].y = heroes[o].y  BY <1>4
    <3>3. CASE o = s
      <4>1. Near(heroes[s], at) /\ view'[v][o].at = at  BY <1>5, <1>6, <2>1, <3>3
      <4>2. QED BY <3>2, <3>3, <4>1 DEF Near
    <3>4. CASE o # s
      <4>1. ~actions[o].moving  BY <1>5, <2>1, <3>4
      <4>2. view'[v][o].at = view[v][o].at  BY <1>6, <2>1, <3>4
      <4>3. Near(heroes[o], view[v][o].at)  BY <3>1, <4>1 DEF IInv, StandsNear
      <4>4. QED BY <3>2, <4>2, <4>3 DEF Near
    <3>5. QED BY <3>3, <3>4
  <2>2. QED BY <2>1 DEF StandsNear
<1>13. SlainLeave'  BY <1>1, <1>2, <1>4 DEF IInv, SlainLeave
<1>14. QED BY <1>7, <1>8, <1>9, <1>10, <1>11, <1>12, <1>13 DEF IInv

(* What the clients show after news given as a function. *)
LEMMA Heard ==
  ASSUME NEW heard, NEW news, Tell(heard, news)
  PROVE  view' = [v \in Id |-> [o \in Id |->
                    IF state'[v] # "open" \/ view[v][o] = NotShown THEN NotShown
                    ELSE IF <<v, o>> \in heard THEN news[v][o]
                    ELSE view[v][o]]]
BY DEF Tell

LEMMA StartKeeps ==
  ASSUME IInv, NEW s \in Id, Sessions!Ends(state), todo = {}, UNCHANGED todo,
         handle_cs_move_start(s)
  PROVE  IInv'
<1>1. PICK direction \in Directions :
        /\ direction <= MOVE_DIR_LD
        /\ actions' = [actions EXCEPT ![s] = [move_direction |-> direction, moving |-> TRUE]]
        /\ turn_hero(s, direction)
        /\ Tell(ToAround(s), [v \in Id |-> [o \in Id |->
                [view[v][o] EXCEPT !.direction = direction, !.moving = TRUE, !.at = Underway]]])
  BY DEF handle_cs_move_start
<1> DEFINE told(v, o) == [view[v][o] EXCEPT !.direction = direction, !.moving = TRUE, !.at = Underway]
           news == [v \in Id |-> [o \in Id |-> told(v, o)]]
<1>4. view' = [v \in Id |-> [o \in Id |->
                IF state'[v] # "open" \/ view[v][o] = NotShown THEN NotShown
                ELSE IF <<v, o>> \in ToAround(s) THEN told(v, o)
                ELSE view[v][o]]]
  <2>1. Tell(ToAround(s), news)  BY <1>1
  <2> HIDE DEF told
  <2>2. \A v \in Id : \A o \in Id : news[v][o] = told(v, o)  OBVIOUS
  <2> HIDE DEF news
  <2>3. QED BY <2>1, <2>2, Heard
<1>2. direction \in 0 .. 7
  <2>1. direction \in Nat  BY Numbers
  <2>2. direction <= 7  BY <1>1 DEF MOVE_DIR_LD
  <2>3. QED BY <2>1, <2>2
<1>5. TRUE \in BOOLEAN /\ Underway \in (Nat \X Nat) \cup {Underway} /\ (TRUE = FALSE => Near(heroes[s], Underway))
  OBVIOUS
<1>6. turn_hero(s, direction) /\ actions' = [actions EXCEPT ![s] = [move_direction |-> direction, moving |-> TRUE]]
  BY <1>1
<1>7. QED BY <1>2, <1>4, <1>5, <1>6, TurnedKeeps, Zenon

LEMMA StopKeeps ==
  ASSUME IInv, NEW s \in Id, Sessions!Ends(state), todo = {}, UNCHANGED todo,
         handle_cs_move_stop(s)
  PROVE  IInv'
<1>1. PICK direction \in Directions, at \in Reports :
        LET final == IF Mismatch(heroes[s], at) THEN <<heroes[s].x, heroes[s].y>> ELSE at
        IN  /\ direction <= MOVE_DIR_LD
            /\ actions' = [actions EXCEPT ![s] = Standing]
            /\ turn_hero(s, direction)
            /\ Tell(ToAround(s), [v \in Id |-> [o \in Id |->
                    [view[v][o] EXCEPT !.direction = direction, !.moving = FALSE, !.at = final]]])
  BY DEF handle_cs_move_stop
<1> DEFINE final == IF Mismatch(heroes[s], at) THEN <<heroes[s].x, heroes[s].y>> ELSE at
           told(v, o) == [view[v][o] EXCEPT !.direction = direction, !.moving = FALSE, !.at = final]
           news == [v \in Id |-> [o \in Id |-> told(v, o)]]
<1>2. direction \in 0 .. 7
  <2>1. direction \in Nat  BY Numbers
  <2>2. direction <= 7  BY <1>1 DEF MOVE_DIR_LD
  <2>3. QED BY <2>1, <2>2
<1>3. /\ heroes[s].x \in 0 .. WORLD_WIDTH - 1 /\ heroes[s].y \in 0 .. WORLD_HEIGHT - 1
      /\ heroes[s].x \in Nat /\ heroes[s].y \in Nat
  BY Sizes DEF IInv, TypeOK
<1>4. final \in (Nat \X Nat) \cup {Underway}
  <2>1. at \in Nat \X Nat  BY Numbers
  <2>2. QED BY <1>3, <2>1
<1>5. Near(heroes[s], final)
  <2>1. CASE Mismatch(heroes[s], at)  BY <1>3, <2>1, NearItself
  <2>2. CASE ~Mismatch(heroes[s], at)  BY <2>2 DEF Mismatch
  <2>3. QED BY <2>1, <2>2
<1> HIDE DEF final
<1>6. Standing = [move_direction |-> 0, moving |-> FALSE]  BY DEF Standing, MOVE_DIR_LL
<1>7. /\ actions' = [actions EXCEPT ![s] = [move_direction |-> 0, moving |-> FALSE]]
      /\ turn_hero(s, direction)
  BY <1>1, <1>6
<1>8. FALSE \in BOOLEAN /\ 0 \in 0 .. 7  OBVIOUS
<1>9. view' = [v \in Id |-> [o \in Id |->
                IF state'[v] # "open" \/ view[v][o] = NotShown THEN NotShown
                ELSE IF <<v, o>> \in ToAround(s) THEN told(v, o)
                ELSE view[v][o]]]
  <2>1. Tell(ToAround(s), news)  BY <1>1 DEF final
  <2> HIDE DEF told
  <2>2. \A v \in Id : \A o \in Id : news[v][o] = told(v, o)  OBVIOUS
  <2> HIDE DEF news
  <2>3. QED BY <2>1, <2>2, Heard
<1>10. QED BY <1>2, <1>4, <1>5, <1>7, <1>8, <1>9, TurnedKeeps, Zenon

LEMMA AttackKeeps ==
  ASSUME IInv, NEW s \in Id, Sessions!Ends(state), todo = {}, UNCHANGED todo,
         handle_cs_attack(s)
  PROVE  IInv'
<1> DEFINE place == IF actions[s].moving THEN Underway ELSE <<heroes[s].x, heroes[s].y>>
           heard(targets) == UNION {ToAround(id) : id \in targets \cup {s}}
           said(v, o) == IF o = s THEN [view[v][o] EXCEPT !.at = place]
                        ELSE [view[v][o] EXCEPT !.hp = heroes'[o].hp]
           news == [v \in Id |-> [o \in Id |-> said(v, o)]]
<1>1. PICK attack \in Attacks : \E targets \in SUBSET (Id \ {s}) :
        /\ apply_damage(targets, attack.damage)
        /\ disconnect({id \in targets : Slain(id)})
        /\ UNCHANGED actions
        /\ Tell(heard(targets), news)
  <2>1. PICK attack \in Attacks :
          LET targets == {id \in Id \ {s} : alive[id] /\ InBox(heroes[s], attack, heroes[id])}
          IN  /\ apply_damage(targets, attack.damage)
              /\ disconnect({id \in targets : Slain(id)})
              /\ UNCHANGED actions
              /\ Tell(heard(targets), news)
    BY DEF handle_cs_attack
  <2> DEFINE targets == {id \in Id \ {s} : alive[id] /\ InBox(heroes[s], attack, heroes[id])}
  <2>2. targets \in SUBSET (Id \ {s})  OBVIOUS
  <2> HIDE DEF news, heard
  <2>3. QED BY <2>1, <2>2
<1>2. PICK targets \in SUBSET (Id \ {s}) :
        /\ apply_damage(targets, attack.damage)
        /\ disconnect({id \in targets : Slain(id)})
        /\ UNCHANGED actions
        /\ view' = [v \in Id |-> [o \in Id |->
                     IF state'[v] # "open" \/ view[v][o] = NotShown THEN NotShown
                     ELSE IF <<v, o>> \in heard(targets) THEN said(v, o)
                     ELSE view[v][o]]]
  <2> HIDE DEF said, heard
  <2>1. \A v \in Id : \A o \in Id : news[v][o] = said(v, o)  OBVIOUS
  <2> HIDE DEF news
  <2>2. PICK targets \in SUBSET (Id \ {s}) :
          /\ apply_damage(targets, attack.damage)
          /\ disconnect({id \in targets : Slain(id)})
          /\ UNCHANGED actions
          /\ Tell(heard(targets), news)
    BY <1>1
  <2>3. view' = [v \in Id |-> [o \in Id |->
                   IF state'[v] # "open" \/ view[v][o] = NotShown THEN NotShown
                   ELSE IF <<v, o>> \in heard(targets) THEN said(v, o)
                   ELSE view[v][o]]]
    BY <2>1, <2>2, Heard
  <2>4. QED BY <2>2, <2>3
<1>3. /\ state' \in SessionType
      /\ \A id \in Id : state'[id] = state[id] \/ (state[id] = "open" /\ state'[id] = "closing")
  BY EndsKeeps DEF IInv, TypeOK, SessionType
<1>4. UNCHANGED <<alive, sections, actions>>  BY <1>2 DEF apply_damage
<1>5. ASSUME NEW id \in Id
      PROVE  /\ heroes'[id] \in HeroType
             /\ heroes'[id].x = heroes[id].x /\ heroes'[id].y = heroes[id].y
             /\ heroes'[id].section = heroes[id].section
             /\ heroes'[id].direction = heroes[id].direction
             /\ id \notin targets => heroes'[id].hp = heroes[id].hp
  <2>1. heroes[id] \in HeroType  BY DEF IInv, TypeOK, HeroType
  <2>2. attack.damage \in Nat /\ START_HP \in Nat  BY Numbers
  <2>3. Damaged(heroes[id].hp, attack.damage) \in 0 .. START_HP
    BY <2>1, <2>2 DEF HeroType, Damaged
  <2>4. heroes'[id] = IF id \in targets
                      THEN [heroes[id] EXCEPT !.hp = Damaged(heroes[id].hp, attack.damage)]
                      ELSE heroes[id]
    BY <1>2 DEF apply_damage
  <2>5. QED BY <2>1, <2>3, <2>4 DEF HeroType
<1>6. heroes' \in [Id -> HeroType]
  <2>1. heroes' = [id \in Id |-> heroes'[id]]  BY <1>2 DEF apply_damage
  <2>2. QED BY <1>5, <2>1
<1>7. place \in (Nat \X Nat) \cup {Underway} /\ (~actions[s].moving => Near(heroes[s], place))
  <2>1. heroes[s].x \in Nat /\ heroes[s].y \in Nat  BY Sizes DEF IInv, TypeOK
  <2>2. QED BY <2>1, NearItself
<1> HIDE DEF place
<1>8. ASSUME NEW v \in Id, NEW o \in Id
      PROVE  /\ view'[v][o] \in Shown \cup {NotShown}
             /\ view'[v][o] # NotShown <=> (state'[v] = "open" /\ view[v][o] # NotShown)
             /\ view'[v][o] # NotShown =>
                   /\ view'[v][o].direction = view[v][o].direction
                   /\ view'[v][o].moving = view[v][o].moving
                   /\ o \in targets => view'[v][o].hp = heroes'[o].hp
                   /\ o \notin targets => view'[v][o].hp = view[v][o].hp
                   /\ o = s => view'[v][o].at = place
                   /\ o # s => view'[v][o].at = view[v][o].at
  <2> DEFINE told == IF o = s THEN [view[v][o] EXCEPT !.at = place]
                     ELSE [view[v][o] EXCEPT !.hp = heroes'[o].hp]
  <2>1. view[v][o] \in Shown \cup {NotShown}  BY ViewType DEF IInv
  <2>2. view'[v][o] = IF state'[v] # "open" \/ view[v][o] = NotShown THEN NotShown
                      ELSE IF <<v, o>> \in heard(targets) THEN told ELSE view[v][o]
    BY <1>2
  <2>3. view[v][o] # NotShown =>
          /\ told \in Shown /\ told # NotShown /\ told.direction = view[v][o].direction
          /\ told.moving = view[v][o].moving
          /\ told.hp = IF o = s THEN view[v][o].hp ELSE heroes'[o].hp
          /\ told.at = IF o = s THEN place ELSE view[v][o].at
    <3>1. heroes'[o].hp \in 0 .. START_HP  BY <1>5 DEF HeroType
    <3>2. QED BY <1>7, <2>1, <3>1, ShownAssumption DEF Shown
  <2>4. view[v][o] # NotShown => (<<v, o>> \in heard(targets) <=> o \in targets \cup {s})
    <3>1. view[v][o] # NotShown => <<v, o>> \in ToAround(o)  BY ShownAround DEF IInv
    <3>2. \A id \in Id : <<v, o>> \in ToAround(id) => o = id  BY DEF ToAround
    <3>3. QED BY <3>1, <3>2
  <2> HIDE DEF told, heard
  <2>5. CASE state'[v] # "open" \/ view[v][o] = NotShown  BY <2>1, <2>2, <2>5
  <2>6. CASE state'[v] = "open" /\ view[v][o] # NotShown /\ o = s
    BY <2>1, <2>2, <2>3, <2>4, <2>6
  <2>7. CASE state'[v] = "open" /\ view[v][o] # NotShown /\ o \in targets
    BY <2>1, <2>2, <2>3, <2>4, <2>7
  <2>8. CASE state'[v] = "open" /\ view[v][o] # NotShown /\ o \notin targets \cup {s}
    BY <2>1, <2>2, <2>4, <2>8
  <2>9. QED BY <2>5, <2>6, <2>7, <2>8
<1>9. TypeOK'
  <2>1. view' = [v \in Id |-> [o \in Id |-> view'[v][o]]]  BY <1>2
  <2>2. view' \in [Id -> [Id -> Shown \cup {NotShown}]]  BY <1>8, <2>1
  <2>3. QED BY <1>3, <1>4, <1>6, <2>2 DEF IInv, TypeOK, HeroType, SessionType
<1>10. Placed'
  <2>1. Place' = Place  BY <1>5 DEF Place
  <2>2. ListsOf(sections, Place)'
    <3>1. ListsOf(sections, Place)  BY DEF IInv, Placed
    <3>2. QED BY <1>4, <2>1, <3>1
  <2>3. ASSUME NEW id \in Id
        PROVE  /\ alive'[id] <=> state'[id] # "free"
               /\ alive'[id] => heroes'[id].section = pos_to_section(heroes'[id].x, heroes'[id].y)
               /\ ~alive'[id] => heroes'[id].section = INVALID_SECTION
    BY <1>3, <1>4, <1>5 DEF IInv, Placed
  <2>4. QED BY <2>2, <2>3 DEF Placed
<1>11. Underways'  BY <1>4 DEF Underways
<1>12. Views'
  <2>1. ASSUME NEW v \in Id, NEW o \in Id
        PROVE  view'[v][o] # NotShown <=> (state'[v] = "open" /\ alive'[o] /\ InArea(v, o)')
    <3>1. InArea(v, o)' <=> InArea(v, o)  BY <1>5 DEF InArea
    <3>2. view[v][o] # NotShown <=> (state[v] = "open" /\ alive[o] /\ InArea(v, o))
      BY DEF IInv, Views
    <3>3. state'[v] = state[v] \/ (state[v] = "open" /\ state'[v] = "closing")  BY <1>3
    <3>4. view'[v][o] # NotShown <=> (state'[v] = "open" /\ view[v][o] # NotShown)  BY <1>8
    <3>5. alive'[o] = alive[o]  BY <1>4
    <3>6. QED BY <3>1, <3>2, <3>3, <3>4, <3>5
  <2>2. QED BY <2>1 DEF Views
<1>13. ViewAccurate'
  <2>1. ASSUME NEW v \in Id, NEW o \in Id, view'[v][o] # NotShown
        PROVE  /\ view'[v][o].direction = heroes'[o].direction
               /\ view'[v][o].moving = actions'[o].moving
               /\ view'[v][o].hp = heroes'[o].hp
    <3>1. view[v][o] # NotShown  BY <1>8, <2>1
    <3>2. /\ view[v][o].direction = heroes[o].direction
          /\ view[v][o].moving = actions[o].moving
          /\ view[v][o].hp = heroes[o].hp
      BY <3>1 DEF IInv, ViewAccurate
    <3>3. /\ view'[v][o].direction = view[v][o].direction
          /\ view'[v][o].moving = view[v][o].moving
          /\ o \in targets => view'[v][o].hp = heroes'[o].hp
          /\ o \notin targets => view'[v][o].hp = view[v][o].hp
      BY <1>8, <2>1
    <3>4. /\ heroes'[o].direction = heroes[o].direction /\ actions' = actions
          /\ o \notin targets => heroes'[o].hp = heroes[o].hp
      BY <1>4, <1>5
    <3>5. QED BY <3>2, <3>3, <3>4
  <2>2. QED BY <2>1 DEF ViewAccurate
<1>14. StandsNear'
  <2>1. ASSUME NEW v \in Id, NEW o \in Id, view'[v][o] # NotShown, ~actions'[o].moving
        PROVE  Near(heroes'[o], view'[v][o].at)
    <3>1. view[v][o] # NotShown /\ ~actions[o].moving  BY <1>4, <1>8, <2>1
    <3>2. heroes'[o].x = heroes[o].x /\ heroes'[o].y = heroes[o].y  BY <1>5
    <3>3. Near(heroes[o], view'[v][o].at)
      <4>1. CASE o = s  BY <1>7, <1>8, <2>1, <3>1, <4>1
      <4>2. CASE o # s
        <5>1. view'[v][o].at = view[v][o].at  BY <1>8, <2>1, <4>2
        <5>2. QED BY <3>1, <5>1 DEF IInv, StandsNear
      <4>3. QED BY <4>1, <4>2
    <3>4. QED BY <3>2, <3>3 DEF Near
  <2>2. QED BY <2>1 DEF StandsNear
<1>15. SlainLeave'
  <2>1. ASSUME NEW id \in Id, alive'[id], heroes'[id].hp = 0 PROVE state'[id] # "open"
    <3>1. CASE id \in targets  BY <1>2, <2>1, <3>1 DEF disconnect, Slain
    <3>2. CASE id \notin targets
      <4>1. alive[id] /\ heroes[id].hp = 0  BY <1>4, <1>5, <2>1, <3>2
      <4>2. state[id] # "open"  BY <4>1 DEF IInv, SlainLeave
      <4>3. QED BY <1>3, <4>2
    <3>3. QED BY <3>1, <3>2
  <2>2. QED BY <2>1 DEF SlainLeave
<1>16. QED BY <1>9, <1>10, <1>11, <1>12, <1>13, <1>14, <1>15 DEF IInv

LEMMA PacketKeeps ==
  ASSUME IInv, NEW s \in Id, on_packet_received(s)
  PROVE  IInv'
<1>1. todo = {} /\ UNCHANGED todo /\ Sessions!Ends(state)
  BY DEF on_packet_received, Sessions!Delivers
<1>2. CASE Invalid(s)  BY <1>1, <1>2, Quiet DEF Invalid
<1>3. CASE handle_cs_move_start(s)  BY <1>1, <1>3, StartKeeps
<1>4. CASE handle_cs_move_stop(s)  BY <1>1, <1>4, StopKeeps
<1>5. CASE handle_cs_attack(s)  BY <1>1, <1>5, AttackKeeps
<1>6. CASE Ignored  BY <1>1, <1>6, Quiet DEF Ignored
<1>7. QED BY <1>2, <1>3, <1>4, <1>5, <1>6 DEF on_packet_received

(***************************************************************************)
(* update()                                                                *)
(***************************************************************************)
LEMMA ClampIn ==
  ASSUME NEW n \in Int, NEW last \in Nat
  PROVE  Clamp(n, last) \in 0 .. last
BY DEF Clamp

LEMMA SteppedIn ==
  ASSUME IInv, NEW s \in Id
  PROVE  /\ Clamp(heroes[s].x + StepX(heroes[s].direction), WORLD_WIDTH - 1) \in 0 .. WORLD_WIDTH - 1
         /\ Clamp(heroes[s].y + StepY(heroes[s].direction), WORLD_HEIGHT - 1) \in 0 .. WORLD_HEIGHT - 1
<1> DEFINE x == heroes[s].x + StepX(heroes[s].direction)
           y == heroes[s].y + StepY(heroes[s].direction)
<1>1. heroes[s].x \in Int /\ heroes[s].y \in Int  BY Sizes DEF IInv, TypeOK
<1>2. StepX(heroes[s].direction) \in Int /\ StepY(heroes[s].direction) \in Int
  BY Numbers DEF StepX, StepY
<1>3. x \in Int /\ y \in Int  BY <1>1, <1>2
<1>4. WORLD_WIDTH - 1 \in Nat /\ WORLD_HEIGHT - 1 \in Nat  BY Sizes
<1> HIDE DEF x, y
<1>5. Clamp(x, WORLD_WIDTH - 1) \in 0 .. WORLD_WIDTH - 1 /\ Clamp(y, WORLD_HEIGHT - 1) \in 0 .. WORLD_HEIGHT - 1
  BY <1>3, <1>4, ClampIn
<1>6. QED BY <1>5 DEF x, y

(* The hero is in the list of its new section, and in no other. *)
LEMMA MovedInLists ==
  ASSUME IInv, NEW s \in Id, alive[s],
         NEW x \in 0 .. WORLD_WIDTH - 1, NEW y \in 0 .. WORLD_HEIGHT - 1, move_hero(s, x, y)
  PROVE  /\ pos_to_section(x, y) \in Section /\ heroes[s].section \in Section
         /\ heroes' \in [Id -> HeroType]
         /\ heroes'[s].x = x /\ heroes'[s].y = y /\ heroes'[s].section = pos_to_section(x, y)
         /\ \A id \in Id \ {s} : heroes'[id] = heroes[id]
         /\ heroes'[s].direction = heroes[s].direction /\ heroes'[s].hp = heroes[s].hp
         /\ ListsOf(sections', Place')
         /\ UNCHANGED alive
<1> DEFINE old == heroes[s].section
           new == pos_to_section(x, y)
<1>1. new \in Section  BY SectionOfPosition
<1>2. old \in Section  BY AliveHasSection DEF IInv
<1>3. /\ heroes' = [heroes EXCEPT ![s].x = x, ![s].y = y, ![s].section = new]
      /\ sections' = IF old = new THEN sections
                     ELSE add_to_section(remove_from_section(sections, old, s), new, s)
      /\ UNCHANGED alive
  BY DEF move_hero
<1> HIDE DEF new
<1>4. \A id \in Id : heroes[id] \in HeroType  BY DEF IInv, TypeOK, HeroType
<1>5. /\ heroes' = [heroes EXCEPT ![s] = [heroes[s] EXCEPT !.x = x, !.y = y, !.section = new]]
      /\ heroes \in [Id -> HeroType]
  BY <1>3 DEF IInv, TypeOK, HeroType
<1>6. /\ [heroes[s] EXCEPT !.x = x, !.y = y, !.section = new] \in HeroType
      /\ heroes' \in [Id -> HeroType]
      /\ heroes'[s] = [heroes[s] EXCEPT !.x = x, !.y = y, !.section = new]
      /\ \A id \in Id \ {s} : heroes'[id] = heroes[id]
  BY <1>1, <1>4, <1>5 DEF HeroType
<1>7. /\ heroes'[s].x = x /\ heroes'[s].y = y /\ heroes'[s].section = new
      /\ heroes'[s].direction = heroes[s].direction /\ heroes'[s].hp = heroes[s].hp
  BY <1>4, <1>6 DEF HeroType
<1>8. /\ Place \in [Id -> Section \cup {INVALID_SECTION}] /\ Place[s] = old
      /\ Place' = [Place EXCEPT ![s] = new]
  <2>1. \A id \in Id : heroes'[id].section = IF id = s THEN new ELSE heroes[id].section
    BY <1>6, <1>7
  <2>2. \A id \in Id : heroes[id].section \in Section \cup {INVALID_SECTION}  BY <1>4 DEF HeroType
  <2>3. QED BY <2>1, <2>2 DEF Place
<1>9. ListsOf(sections, Place)  BY DEF IInv, Placed
<1> HIDE DEF old
<1>10. ListsOf(sections', Place')
  <2>1. CASE old = new
    <3>1. Place' = Place  BY <1>8, <2>1
    <3>2. QED BY <1>3, <1>9, <2>1, <3>1
  <2>2. CASE old # new
    <3> DEFINE left == [Place EXCEPT ![s] = INVALID_SECTION]
               lists == remove_from_section(sections, old, s)
    <3>1. ListsOf(lists, left)  BY <1>2, <1>8, <1>9, RemovedFromList
    <3>2. left \in [Id -> Section \cup {INVALID_SECTION}] /\ left[s] = INVALID_SECTION
      BY <1>8
    <3>3. [left EXCEPT ![s] = new] = Place'  BY <1>8
    <3> HIDE DEF left, lists
    <3>4. ListsOf(add_to_section(lists, new, s), [left EXCEPT ![s] = new])
      BY <1>1, <3>1, <3>2, AddedToList
    <3>5. QED BY <1>3, <2>2, <3>3, <3>4 DEF lists
  <2>3. QED BY <2>1, <2>2
<1>11. QED BY <1>1, <1>2, <1>3, <1>6, <1>7, <1>10 DEF old, new

LEMMA ProgressKeeps ==
  ASSUME IInv, NEW s \in Id, progress_player_movement(s)
  PROVE  IInv'
<1> DEFINE new == heroes'[s].section
           old == heroes[s].section
           those(turn) == Players(sections', {i \in Section : SectionChange[old][new][i] = turn}) \ {s}
           both(others) == (others \X {s}) \cup ({s} \X others)
           shown == IF new # old THEN both(those("show")) ELSE {}
           hidden == IF new # old THEN both(those("hide")) ELSE {}
<1>1. s \in todo /\ todo' = todo \ {s} /\ UNCHANGED actions /\ alive[s] /\ actions[s].moving
  BY DEF progress_player_movement, IInv, Underways
<1>2. CASE is_blocked_by_world_bound(heroes[s])
  <2>1. UNCHANGED <<heroes, alive, sections, actions, state, view>>
    BY <1>1, <1>2 DEF progress_player_movement, worldVars
  <2>2. TypeOK'  BY <1>1, <2>1 DEF IInv, TypeOK
  <2>3. Placed'  BY <2>1 DEF IInv, Placed, Place
  <2>4. Underways'  BY <1>1, <2>1 DEF IInv, Underways
  <2>5. Views'  BY <2>1 DEF IInv, Views, InArea
  <2>6. ViewAccurate' /\ StandsNear' /\ SlainLeave'
    BY <2>1 DEF IInv, ViewAccurate, StandsNear, Near, SlainLeave
  <2>7. QED BY <2>2, <2>3, <2>4, <2>5, <2>6 DEF IInv
<1>3. CASE ~is_blocked_by_world_bound(heroes[s])
  <2>1. PICK x \in 0 .. WORLD_WIDTH - 1, y \in 0 .. WORLD_HEIGHT - 1 : move_hero(s, x, y)
    BY <1>3, SteppedIn DEF progress_player_movement
  <2>2. Sessions!Ends(state)  BY <1>3 DEF progress_player_movement
  <2>3. Show(shown, hidden)
    <3>1. IF new # old THEN handle_section_change(s) ELSE TellNothing
      BY <1>3 DEF progress_player_movement
    <3>2. new # old => Show(both(those("show")), both(those("hide")))
      BY <3>1 DEF handle_section_change
    <3>3. new = old => Show({}, {})  BY <3>1 DEF TellNothing
    <3>4. QED BY <3>2, <3>3, Zenon
  <2>4. /\ state' \in SessionType
        /\ \A id \in Id : state'[id] = state[id] \/ (state[id] = "open" /\ state'[id] = "closing")
    BY <2>2, EndsKeeps DEF IInv, TypeOK, SessionType
  <2>5. /\ new = pos_to_section(x, y) /\ new \in Section /\ old \in Section
        /\ heroes' \in [Id -> HeroType]
        /\ heroes'[s].x = x /\ heroes'[s].y = y
        /\ \A id \in Id \ {s} : heroes'[id] = heroes[id]
        /\ heroes'[s].direction = heroes[s].direction /\ heroes'[s].hp = heroes[s].hp
        /\ ListsOf(sections', Place')
        /\ UNCHANGED alive
    BY <1>1, <2>1, MovedInLists
  <2>6. ASSUME new # old, NEW id \in Id
        PROVE  /\ id \in those("show") <=>
                     id # s /\ heroes[id].section \in area_of_interest[new] \ area_of_interest[old]
               /\ id \in those("hide") <=>
                     id # s /\ heroes[id].section \in area_of_interest[old] \ area_of_interest[new]
    <3>1. ASSUME NEW turn
          PROVE  id \in those(turn) <=>
                    /\ id # s /\ heroes[id].section \in Section
                    /\ SectionChange[old][new][heroes[id].section] = turn
      <4> DEFINE where == {i \in Section : SectionChange[old][new][i] = turn}
      <4>1. Players(sections', where) = {v \in Id : Place'[v] \in where}  BY <2>5, PlayersListed
      <4>2. id # s => Place'[id] = heroes[id].section  BY <2>5 DEF Place
      <4>3. QED BY <4>1, <4>2
    <3>2. area_of_interest[old] \subseteq Section /\ area_of_interest[new] \subseteq Section
      BY <2>5, AreaOfInterest
    <3> HIDE DEF those
    <3>3. ASSUME heroes[id].section \in Section
          PROVE  /\ SectionChange[old][new][heroes[id].section] = "show" <=>
                       heroes[id].section \in area_of_interest[new] \ area_of_interest[old]
                 /\ SectionChange[old][new][heroes[id].section] = "hide" <=>
                       heroes[id].section \in area_of_interest[old] \ area_of_interest[new]
      BY <2>5, <3>3, Changes
    <3>4. QED BY <3>1, <3>2, <3>3
  <2> HIDE DEF new, old
  <2>7. ASSUME NEW v \in Id, NEW o \in Id
        PROVE  /\ <<v, o>> \in shown <=>
                    /\ new # old
                    /\ (o = s /\ v \in those("show")) \/ (v = s /\ o \in those("show"))
               /\ <<v, o>> \in hidden <=>
                    /\ new # old
                    /\ (o = s /\ v \in those("hide")) \/ (v = s /\ o \in those("hide"))
    <3> HIDE DEF those
    <3>1. QED OBVIOUS
  <2> HIDE DEF those, both, shown, hidden
  <2>8. ViewAccurate' /\ StandsNear' /\ view' \in [Id -> [Id -> Shown \cup {NotShown}]]
    <3>1. actions' \in [Id -> ActionType]  BY <1>1 DEF IInv, TypeOK, ActionType
    <3>2. ASSUME NEW o \in Id
          PROVE  /\ heroes'[o].direction = heroes[o].direction
                 /\ heroes'[o].hp = heroes[o].hp
                 /\ actions'[o].moving = actions[o].moving
                 /\ actions'[o].moving \/ (heroes'[o].x = heroes[o].x /\ heroes'[o].y = heroes[o].y)
      <4>1. CASE o = s  BY <1>1, <2>5, <4>1
      <4>2. CASE o # s  BY <1>1, <2>5, <4>2
      <4>3. QED BY <4>1, <4>2
    <3>3. QED BY <2>3, <2>5, <3>1, <3>2, ShowAccurate
  <2>9. TypeOK'
    <3>1. sections' \in [Section -> Seq(Id)]  BY <2>5 DEF ListsOf
    <3>2. QED BY <1>1, <2>4, <2>5, <2>8, <3>1 DEF IInv, TypeOK, HeroType, SessionType
  <2>10. Placed'
    <3>1. ASSUME NEW id \in Id
          PROVE  /\ alive'[id] <=> state'[id] # "free"
                 /\ alive'[id] => heroes'[id].section = pos_to_section(heroes'[id].x, heroes'[id].y)
                 /\ ~alive'[id] => heroes'[id].section = INVALID_SECTION
      <4>1. CASE id = s  BY <1>1, <2>4, <2>5, <4>1 DEF IInv, Placed, new
      <4>2. CASE id # s  BY <2>4, <2>5, <4>2 DEF IInv, Placed
      <4>3. QED BY <4>1, <4>2
    <3>2. QED BY <2>5, <3>1 DEF Placed
  <2>11. Underways'  BY <1>1, <2>5 DEF IInv, Underways
  <2>12. Views'
    <3>1. ASSUME NEW v \in Id, NEW o \in Id
          PROVE  view'[v][o] # NotShown <=> (state'[v] = "open" /\ alive'[o] /\ InArea(v, o)')
      <4>1. view'[v][o] = IF state'[v] # "open" THEN NotShown
                          ELSE IF <<v, o>> \in shown THEN Seen(o)
                          ELSE IF <<v, o>> \in hidden THEN NotShown
                          ELSE view[v][o]
        BY <2>3, ShowIs
      <4>2. Seen(o) # NotShown  BY <1>1, <2>5, SeenIs DEF IInv, TypeOK, ActionType
      <4>3. view[v][o] # NotShown <=> (state[v] = "open" /\ alive[o] /\ InArea(v, o))
        BY DEF IInv, Views
      <4>4. CASE state'[v] # "open"  BY <4>1, <4>4
      <4>5. CASE state'[v] = "open" /\ new = old
        <5>1. view'[v][o] = view[v][o]  BY <2>7, <4>1, <4>5
        <5>2. \A id \in Id : heroes'[id].section = heroes[id].section
          BY <2>5, <4>5 DEF new, old
        <5>3. QED BY <2>4, <2>5, <4>3, <4>5, <5>1, <5>2 DEF InArea
      <4>6. CASE state'[v] = "open" /\ new # old /\ v = s /\ o # s
        <5>1. heroes'[o].section = heroes[o].section  BY <2>5, <4>6
        <5>2. InArea(v, o)' <=> heroes[o].section \in area_of_interest[new]
          BY <4>6, <5>1 DEF InArea, new
        <5>3. InArea(v, o) <=> heroes[o].section \in area_of_interest[old]
          BY <4>6 DEF InArea, old
        <5>4. alive[o] <=> heroes[o].section \in Section  BY AliveHasSection DEF IInv
        <5>5. area_of_interest[new] \subseteq Section  BY <2>5, AreaOfInterest
        <5>6. /\ <<v, o>> \in shown <=>
                    heroes[o].section \in area_of_interest[new] \ area_of_interest[old]
              /\ <<v, o>> \in hidden <=>
                    heroes[o].section \in area_of_interest[old] \ area_of_interest[new]
          BY <2>6, <2>7, <4>6
        <5>7. QED BY <2>4, <2>5, <4>1, <4>2, <4>3, <4>6, <5>2, <5>3, <5>4, <5>5, <5>6
      <4>7. CASE state'[v] = "open" /\ new # old /\ v # s /\ o = s
        <5>1. state[v] = "open" /\ alive[v]  BY <2>4, <4>7 DEF IInv, Placed
        <5>2. heroes[v].section \in Section /\ heroes'[v].section = heroes[v].section
          BY <2>5, <4>7, <5>1, AliveHasSection DEF IInv
        <5>3. InArea(v, o)' <=> heroes[v].section \in area_of_interest[new]
          BY <2>5, <4>7, <5>2, AdjacentSymmetric DEF InArea, new
        <5>4. InArea(v, o) <=> heroes[v].section \in area_of_interest[old]
          BY <2>5, <4>7, <5>2, AdjacentSymmetric DEF InArea, old
        <5>5. /\ <<v, o>> \in shown <=>
                    heroes[v].section \in area_of_interest[new] \ area_of_interest[old]
              /\ <<v, o>> \in hidden <=>
                    heroes[v].section \in area_of_interest[old] \ area_of_interest[new]
          BY <2>6, <2>7, <4>7
        <5>6. QED BY <1>1, <2>5, <4>1, <4>2, <4>3, <4>7, <5>1, <5>3, <5>4, <5>5
      <4>8. CASE state'[v] = "open" /\ new # old /\ v = s /\ o = s
        <5>1. <<v, o>> \notin shown /\ <<v, o>> \notin hidden  BY <2>6, <2>7, <4>8
        <5>2. InArea(v, o) /\ InArea(v, o)'
          BY <2>5, <4>8, AdjacentSymmetric DEF InArea, new, old
        <5>3. QED BY <2>4, <2>5, <4>1, <4>3, <4>8, <5>1, <5>2
      <4>9. CASE state'[v] = "open" /\ new # old /\ v # s /\ o # s
        <5>1. view'[v][o] = view[v][o]  BY <2>7, <4>1, <4>9
        <5>2. heroes'[v] = heroes[v] /\ heroes'[o] = heroes[o]  BY <2>5, <4>9
        <5>3. QED BY <2>4, <2>5, <4>3, <4>9, <5>1, <5>2 DEF InArea
      <4>10. QED BY <4>4, <4>5, <4>6, <4>7, <4>8, <4>9
    <3>2. QED BY <3>1 DEF Views
  <2>13. SlainLeave'
    <3>1. \A id \in Id : heroes'[id].hp = heroes[id].hp  BY <2>5
    <3>2. QED BY <2>4, <2>5, <3>1 DEF IInv, SlainLeave
  <2>14. QED BY <2>8, <2>9, <2>10, <2>11, <2>12, <2>13 DEF IInv
<1>4. QED BY <1>2, <1>3

LEMMA UpdateKeeps ==
  ASSUME IInv, update
  PROVE  IInv'
<1>1. /\ UNCHANGED <<heroes, alive, sections, actions, state, view>>
      /\ todo' = {id \in Id : alive[id] /\ actions[id].moving}
  BY DEF update, worldVars
<1>2. TypeOK'  BY <1>1 DEF IInv, TypeOK
<1>3. Placed'  BY <1>1 DEF IInv, Placed, Place
<1>4. Underways'  BY <1>1 DEF Underways
<1>5. Views'  BY <1>1 DEF IInv, Views, InArea
<1>6. ViewAccurate' /\ StandsNear' /\ SlainLeave'
  BY <1>1 DEF IInv, ViewAccurate, StandsNear, Near, SlainLeave
<1>7. QED BY <1>2, <1>3, <1>4, <1>5, <1>6 DEF IInv

(***************************************************************************)
(* The invariant                                                           *)
(***************************************************************************)
LEMMA InitKeeps == Init => IInv
<1> SUFFICES ASSUME Init PROVE IInv  OBVIOUS
<1>1. /\ heroes = [id \in Id |-> Nobody] /\ alive = [id \in Id |-> FALSE]
      /\ sections = [section \in Section |-> << >>]
      /\ actions = [id \in Id |-> Standing] /\ state = [id \in Id |-> "free"]
      /\ view = [v \in Id |-> [o \in Id |-> NotShown]] /\ todo = {}
  BY DEF Init, WorldInit
<1>2. Nobody \in HeroType /\ Nobody.section = INVALID_SECTION
  BY Sizes, Numbers DEF Nobody, HeroType
<1>3. Standing \in ActionType  BY DEF Standing, ActionType, MOVE_DIR_LL
<1>4. TypeOK  BY <1>1, <1>2, <1>3 DEF TypeOK, HeroType, ActionType
<1>5. Placed
  <2>1. \A id \in Id : Place[id] = INVALID_SECTION  BY <1>1, <1>2 DEF Place
  <2>2. ListsOf(sections, Place)  BY <1>1, <2>1, InvalidSection DEF ListsOf
  <2>3. QED BY <1>1, <1>2, <2>2 DEF Placed
<1>6. Underways /\ Views /\ ViewAccurate /\ StandsNear /\ SlainLeave
  BY <1>1 DEF Underways, Views, ViewAccurate, StandsNear, SlainLeave
<1>7. QED BY <1>4, <1>5, <1>6 DEF IInv

LEMMA NextKeeps ==
  ASSUME IInv, [Next]_vars
  PROVE  IInv'
<1>1. ASSUME NEW s \in Id, on_client_connected(s) PROVE IInv'  BY <1>1, ConnectedKeeps
<1>2. ASSUME NEW s \in Id, on_client_disconnected(s) PROVE IInv'  BY <1>2, DisconnectedKeeps
<1>3. ASSUME NEW s \in Id, on_packet_received(s) PROVE IInv'  BY <1>3, PacketKeeps
<1>4. ASSUME NEW s \in Id, progress_player_movement(s) PROVE IInv'  BY <1>4, ProgressKeeps
<1>5. CASE SessionsEnd  BY <1>5, Quiet DEF SessionsEnd
<1>6. CASE update  BY <1>6, UpdateKeeps
<1>7. CASE UNCHANGED vars
  <2>1. UNCHANGED <<heroes, alive, sections, actions, state, view, todo>>
    BY <1>7 DEF vars, worldVars
  <2>2. TypeOK'  BY <2>1 DEF IInv, TypeOK
  <2>3. Placed'  BY <2>1 DEF IInv, Placed, Place
  <2>4. Underways' /\ Views'  BY <2>1 DEF IInv, Underways, Views, InArea
  <2>5. ViewAccurate' /\ StandsNear' /\ SlainLeave'
    BY <2>1 DEF IInv, ViewAccurate, StandsNear, Near, SlainLeave
  <2>6. QED BY <2>2, <2>3, <2>4, <2>5 DEF IInv
<1>8. QED BY <1>1, <1>2, <1>3, <1>4, <1>5, <1>6, <1>7 DEF Next

(* Whatever the world, the heroes, their attacks and the server do, the    *)
(* inductive invariant holds: the lists of the sections, the heroes, the   *)
(* sessions and what the clients show of them agree.                       *)
THEOREM InvariantCorrect == Spec => []IInv
<1>1. IInv /\ [Next]_vars => IInv'  BY NextKeeps
<1>2. QED BY InitKeeps, <1>1, PTL DEF Spec

(* Every variable of the Game keeps its type: no hero leaves the world or  *)
(* has more life than it started with.                                     *)
THEOREM TypeCorrect == Spec => []TypeOK
<1>1. IInv => TypeOK  BY DEF IInv
<1>2. QED BY <1>1, InvariantCorrect, PTL

(* A hero is alive while its session lasts, and it is in the list of the   *)
(* section of its position once and in no other: the assertion of          *)
(* remove_from_section() holds.                                            *)
THEOREM SectionsCorrect == Spec => []SectionsMatch
<1>1. ASSUME IInv PROVE SectionsMatch
  <2>1. ASSUME NEW id \in Id, NEW section \in Section
        PROVE  Cardinality({i \in DOMAIN sections[section] : sections[section][i] = id})
                  = IF alive[id] /\ heroes[id].section = section THEN 1 ELSE 0
    <3>1. Cardinality({i \in DOMAIN sections[section] : sections[section][i] = id})
             = IF Place[id] = section THEN 1 ELSE 0
      BY <1>1, ListedOnce DEF IInv, Placed
    <3>2. Place[id] = section <=> (alive[id] /\ heroes[id].section = section)
      BY <1>1, AliveHasSection DEF IInv, Place
    <3>3. QED BY <3>1, <3>2
  <2>2. QED BY <1>1, <2>1 DEF SectionsMatch, IInv, Placed
<1>2. QED BY <1>1, InvariantCorrect, PTL

(* The area of interest is what is in sight. *)
LEMMA InAreaIsInSight ==
  ASSUME IInv, NEW v \in Id, NEW o \in Id, alive[v], alive[o]
  PROVE  InArea(v, o) <=> InSight(v, o)
<1> DEFINE a == heroes[v].section
           b == heroes[o].section
<1>1. /\ heroes[v].x \in 0 .. WORLD_WIDTH - 1 /\ heroes[v].y \in 0 .. WORLD_HEIGHT - 1
      /\ heroes[o].x \in 0 .. WORLD_WIDTH - 1 /\ heroes[o].y \in 0 .. WORLD_HEIGHT - 1
  BY DEF IInv, TypeOK
<1>2. /\ a = pos_to_section(heroes[v].x, heroes[v].y)
      /\ b = pos_to_section(heroes[o].x, heroes[o].y)
  BY DEF IInv, Placed
<1>3. /\ a \in Section /\ b \in Section
      /\ Column(a) = heroes[v].x \div SECTION_SIZE /\ Row(a) = heroes[v].y \div SECTION_SIZE
      /\ Column(b) = heroes[o].x \div SECTION_SIZE /\ Row(b) = heroes[o].y \div SECTION_SIZE
  BY <1>1, <1>2, SectionOfPosition
<1>4. InArea(v, o) <=> Adjacent(a, b)  BY <1>3, AdjacentSections DEF InArea
<1>5. /\ Column(a) \in Int /\ Column(b) \in Int /\ Row(a) \in Int /\ Row(b) \in Int
  BY <1>3, Sizes, Coordinates
<1>6. ASSUME NEW m \in Int, NEW n \in Int PROVE Abs(m - n) <= 1 <=> m - n \in -1 .. 1
  BY DEF Abs
<1>7. InSight(v, o) <=> (Abs(Column(a) - Column(b)) <= 1 /\ Abs(Row(a) - Row(b)) <= 1)
  BY <1>3 DEF InSight
<1>8. Adjacent(a, b) <=> (Column(a) - Column(b) \in -1 .. 1 /\ Row(a) - Row(b) \in -1 .. 1)
  BY DEF Adjacent
<1> HIDE DEF a, b
<1>9. QED BY <1>4, <1>5, <1>6, <1>7, <1>8

(* A client shows the heroes whose section is its own or a neighbour of    *)
(* it, all of them and no other, whoever moved, came, went or has a new    *)
(* id.                                                                     *)
THEOREM ViewExactCorrect == Spec => []ViewExact
<1>1. ASSUME IInv PROVE ViewExact
  <2>1. ASSUME NEW v \in Id, state[v] = "open", NEW o \in Id
        PROVE  view[v][o] # NotShown <=> (alive[o] /\ InSight(v, o))
    <3>1. alive[v]  BY <1>1, <2>1 DEF IInv, Placed
    <3>2. alive[o] => (InArea(v, o) <=> InSight(v, o))  BY <1>1, <3>1, InAreaIsInSight
    <3>3. QED BY <1>1, <2>1, <3>2 DEF IInv, Views
  <2>2. QED BY <2>1 DEF ViewExact
<1>2. QED BY <1>1, InvariantCorrect, PTL

(* A client shows the heroes as they are: their direction, whether they    *)
(* move, and their life.                                                   *)
THEOREM ViewAccurateCorrect == Spec => []ViewAccurate
<1>1. IInv => ViewAccurate  BY DEF IInv
<1>2. QED BY <1>1, InvariantCorrect, PTL

(* A hero that stands still is shown no farther from its place than the    *)
(* server tolerates, although the stop reports a place of its own.         *)
THEOREM StandsNearCorrect == Spec => []StandsNear
<1>1. IInv => StandsNear  BY DEF IInv
<1>2. QED BY <1>1, InvariantCorrect, PTL

(* The session of a hero without life has ended. *)
THEOREM SlainLeaveCorrect == Spec => []SlainLeave
<1>1. IInv => SlainLeave  BY DEF IInv
<1>2. QED BY <1>1, InvariantCorrect, PTL
=============================================================================
