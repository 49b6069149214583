-------------------------- MODULE GameWorldProofs --------------------------
(***************************************************************************)
(* Lemmas about GameWorld for a world of any size and any heroes: which    *)
(* sections are around a section, and what adding to and removing from the *)
(* lists of the sections does to them.                                     *)
(***************************************************************************)
EXTENDS GameWorld, FiniteSetTheorems, TLAPS

(***************************************************************************)
(* Sections                                                                *)
(***************************************************************************)
LEMMA Sizes ==
  /\ SECTION_SIZE \in Nat /\ SECTION_SIZE > 0
  /\ SECTION_X_COUNT \in Nat /\ SECTION_X_COUNT > 0
  /\ SECTION_Y_COUNT \in Nat /\ SECTION_Y_COUNT > 0
  /\ SECTION_X_COUNT * SECTION_Y_COUNT \in Nat
  /\ WORLD_WIDTH \in Nat /\ WORLD_WIDTH > 0
  /\ WORLD_HEIGHT \in Nat /\ WORLD_HEIGHT > 0
<1>1. ASSUME NEW m \in Nat, NEW n \in Nat, m > 0, n > 0 PROVE m * n \in Nat /\ m * n > 0
  BY <1>1
<1>2. QED BY <1>1, SectionAssumption DEF WORLD_WIDTH, WORLD_HEIGHT

(* A number and its two parts *)
LEMMA Parts ==
  ASSUME NEW w \in Nat, w > 0, NEW n \in Nat
  PROVE  /\ n \div w \in Nat /\ n % w \in 0 .. w - 1
         /\ n = (n \div w) * w + (n % w)
OBVIOUS

LEMMA PartsUnique ==
  ASSUME NEW w \in Nat, w > 0, NEW a \in Nat, NEW b \in 0 .. w - 1
  PROVE  (a * w + b) \div w = a /\ (a * w + b) % w = b
OBVIOUS

LEMMA PartBelow ==
  ASSUME NEW w \in Nat, w > 0, NEW h \in Nat, NEW n \in 0 .. w * h - 1
  PROVE  n \div w \in 0 .. h - 1
<1> DEFINE q == n \div w
<1>1. n \in Nat /\ w * h \in Nat  OBVIOUS
<1>2. q \in Nat /\ n >= q * w  BY <1>1, Parts
<1>3. ASSUME q >= h PROVE FALSE
  <2> HIDE DEF q
  <2>1. q * w >= h * w  BY <1>2, <1>3
  <2>2. QED BY <1>1, <1>2, <2>1
<1>4. QED BY <1>2, <1>3

LEMMA InvalidSection == INVALID_SECTION \notin Section
BY Sizes, SectionAssumption DEF INVALID_SECTION, Section

(* The column and the row of a section *)
Column(section) == section % SECTION_X_COUNT
Row(section) == section \div SECTION_X_COUNT

LEMMA Coordinates ==
  ASSUME NEW section \in Section
  PROVE  /\ Column(section) \in 0 .. SECTION_X_COUNT - 1
         /\ Row(section) \in 0 .. SECTION_Y_COUNT - 1
         /\ section = Row(section) * SECTION_X_COUNT + Column(section)
<1>1. section \in Nat /\ section \in 0 .. SECTION_X_COUNT * SECTION_Y_COUNT - 1
  BY Sizes DEF Section
<1>2. QED BY <1>1, Sizes, Parts, PartBelow DEF Column, Row

LEMMA SectionOf ==
  ASSUME NEW x \in 0 .. SECTION_X_COUNT - 1, NEW y \in 0 .. SECTION_Y_COUNT - 1
  PROVE  /\ y * SECTION_X_COUNT + x \in Section
         /\ Column(y * SECTION_X_COUNT + x) = x
         /\ Row(y * SECTION_X_COUNT + x) = y
<1> DEFINE w == SECTION_X_COUNT
           h == SECTION_Y_COUNT
<1>1. w \in Nat /\ h \in Nat /\ w > 0 /\ h > 0 /\ x \in 0 .. w - 1 /\ y \in 0 .. h - 1  BY Sizes
<1> HIDE DEF w, h
<1>2. y * w \in Nat /\ y * w <= (h - 1) * w  BY <1>1
<1>3. (h - 1) * w = w * h - w  BY <1>1
<1>4. y * w + x \in 0 .. w * h - 1  BY <1>1, <1>2, <1>3
<1>5. (y * w + x) \div w = y /\ (y * w + x) % w = x  BY <1>1, PartsUnique
<1>6. QED BY <1>4, <1>5 DEF w, h, Section, Column, Row

(* pos_to_section() finds the section a position is in. *)
LEMMA SectionOfPosition ==
  ASSUME NEW x \in 0 .. WORLD_WIDTH - 1, NEW y \in 0 .. WORLD_HEIGHT - 1
  PROVE  /\ pos_to_section(x, y) \in Section
         /\ Column(pos_to_section(x, y)) = x \div SECTION_SIZE
         /\ Row(pos_to_section(x, y)) = y \div SECTION_SIZE
<1>1. /\ x \div SECTION_SIZE \in 0 .. SECTION_X_COUNT - 1
      /\ y \div SECTION_SIZE \in 0 .. SECTION_Y_COUNT - 1
  BY Sizes, PartBelow DEF WORLD_WIDTH, WORLD_HEIGHT
<1>2. QED BY <1>1, SectionOf DEF pos_to_section

(* get_adjacent_sections() returns the sections whose column and row are   *)
(* at most one away.                                                       *)
Adjacent(a, b) == /\ Column(a) - Column(b) \in -1 .. 1
                  /\ Row(a) - Row(b) \in -1 .. 1

LEMMA AdjacentEntry ==
  ASSUME NEW section \in Section, NEW k \in 1 .. 9
  PROVE  LET x == Column(section) + ((k - 1) % 3) - 1
             y == Row(section) + ((k - 1) \div 3) - 1
         IN  get_adjacent_sections[section][k]
                = IF x \in 0 .. SECTION_X_COUNT - 1 /\ y \in 0 .. SECTION_Y_COUNT - 1
                  THEN y * SECTION_X_COUNT + x ELSE INVALID_SECTION
BY DEF get_adjacent_sections, Column, Row

LEMMA AdjacentSections ==
  ASSUME NEW a \in Section
  PROVE  area_of_interest[a] = {b \in Section : Adjacent(a, b)}
<1> DEFINE entry(k) == get_adjacent_sections[a][k]
           X(k) == Column(a) + ((k - 1) % 3) - 1
           Y(k) == Row(a) + ((k - 1) \div 3) - 1
<1>1. area_of_interest[a] = {entry(k) : k \in 1 .. 9} \ {INVALID_SECTION}  BY DEF area_of_interest
<1>2. ASSUME NEW k \in 1 .. 9, entry(k) # INVALID_SECTION
      PROVE  entry(k) \in Section /\ Adjacent(a, entry(k))
  <2>1. /\ X(k) \in 0 .. SECTION_X_COUNT - 1 /\ Y(k) \in 0 .. SECTION_Y_COUNT - 1
        /\ entry(k) = Y(k) * SECTION_X_COUNT + X(k)
    BY <1>2, AdjacentEntry
  <2>2. entry(k) \in Section /\ Column(entry(k)) = X(k) /\ Row(entry(k)) = Y(k)
    BY <2>1, SectionOf
  <2>3. QED BY <2>2, Coordinates DEF Adjacent
<1>3. ASSUME NEW b \in Section, Adjacent(a, b)
      PROVE  \E k \in 1 .. 9 : entry(k) = b
  <2> DEFINE dx == Column(b) - Column(a) + 1
             dy == Row(b) - Row(a) + 1
             k == 3 * dy + dx + 1
  <2>1. dx \in 0 .. 2 /\ dy \in 0 .. 2  BY <1>3, Coordinates DEF Adjacent
  <2>2. k \in 1 .. 9 /\ (k - 1) % 3 = dx /\ (k - 1) \div 3 = dy
    <3> HIDE DEF dx, dy
    <3>1. QED BY <2>1
  <2>3. X(k) = Column(b) /\ Y(k) = Row(b)
    <3> HIDE DEF k
    <3>1. QED BY <2>1, <2>2, Coordinates
  <2>4. entry(k) = b
    <3> HIDE DEF k
    <3>1. QED BY <2>2, <2>3, AdjacentEntry, Coordinates
  <2>5. QED BY <2>2, <2>4
<1>4. QED BY <1>1, <1>2, <1>3, InvalidSection

LEMMA AdjacentSymmetric ==
  ASSUME NEW a \in Section, NEW b \in Section
  PROVE  /\ a \in area_of_interest[a]
         /\ a \in area_of_interest[b] <=> b \in area_of_interest[a]
<1>1. Adjacent(a, b) <=> Adjacent(b, a)  BY Coordinates DEF Adjacent
<1>2. Adjacent(a, a)  BY Coordinates DEF Adjacent
<1>3. QED BY <1>1, <1>2, AdjacentSections

LEMMA AreaOfInterest ==
  ASSUME NEW a \in Section
  PROVE  area_of_interest[a] \subseteq Section
BY AdjacentSections

(* The valid entries are in ascending order, which the merge relies on.    *)
LEMMA AdjacentAscending ==
  ASSUME NEW a \in Section, NEW k \in 1 .. 9, NEW l \in 1 .. 9, k < l,
         get_adjacent_sections[a][k] # INVALID_SECTION,
         get_adjacent_sections[a][l] # INVALID_SECTION
  PROVE  get_adjacent_sections[a][k] < get_adjacent_sections[a][l]
<1> DEFINE w == SECTION_X_COUNT
           xk == Column(a) + ((k - 1) % 3) - 1
           yk == Row(a) + ((k - 1) \div 3) - 1
           xl == Column(a) + ((l - 1) % 3) - 1
           yl == Row(a) + ((l - 1) \div 3) - 1
<1>1. /\ xk \in 0 .. w - 1 /\ xl \in 0 .. w - 1 /\ yk \in Nat /\ yl \in Nat
      /\ get_adjacent_sections[a][k] = yk * w + xk
      /\ get_adjacent_sections[a][l] = yl * w + xl
  BY AdjacentEntry
<1>2. yk < yl \/ (yk = yl /\ xk < xl)  BY Coordinates
<1>3. w \in Nat /\ w > 0  BY Sizes
<1> HIDE DEF w, xk, yk, xl, yl
<1>4. CASE yk < yl
  <2>1. (yk + 1) * w <= yl * w  BY <1>1, <1>3, <1>4
  <2>2. (yk + 1) * w = yk * w + w  BY <1>1, <1>3
  <2>3. yk * w \in Nat /\ yl * w \in Nat  BY <1>1, <1>3
  <2>4. QED BY <1>1, <1>3, <2>1, <2>2, <2>3
<1>5. CASE yk = yl /\ xk < xl
  <2>1. yk * w \in Nat BY <1>1, <1>3
  <2>2. QED BY <1>1, <1>3, <1>5, <2>1
<1>6. QED BY <1>2, <1>4, <1>5

(***************************************************************************)
(* Lists                                                                   *)
(***************************************************************************)

(* Each section's list has the heroes whose place it is, each once.        *)
ListsOf(lists, place) ==
  /\ lists \in [Section -> Seq(Id)]
  /\ \A section \in Section :
        /\ \A i \in 1 .. Len(lists[section]) : place[lists[section][i]] = section
        /\ \A i, j \in 1 .. Len(lists[section]) : lists[section][i] = lists[section][j] => i = j
  /\ \A id \in Id : place[id] \in Section =>
        \E i \in 1 .. Len(lists[place[id]]) : lists[place[id]][i] = id

LEMMA AddedToList ==
  ASSUME NEW lists, NEW place \in [Id -> Section \cup {INVALID_SECTION}], ListsOf(lists, place),
         NEW id \in Id, place[id] = INVALID_SECTION, NEW section \in Section
  PROVE  ListsOf(add_to_section(lists, section, id), [place EXCEPT ![id] = section])
<1> DEFINE after == add_to_section(lists, section, id)
           there == [place EXCEPT ![id] = section]
<1>1. /\ lists \in [Section -> Seq(Id)] /\ after \in [Section -> Seq(Id)]
      /\ after[section] = Append(lists[section], id)
      /\ \A other \in Section \ {section} : after[other] = lists[other]
  BY DEF ListsOf, add_to_section
<1>2. /\ lists[section] \in Seq(Id) /\ Len(after[section]) = Len(lists[section]) + 1
      /\ after[section][Len(lists[section]) + 1] = id
      /\ \A i \in 1 .. Len(lists[section]) : after[section][i] = lists[section][i]
  BY <1>1
<1>3. \A other \in Section : \A i \in 1 .. Len(lists[other]) : lists[other][i] # id
  BY InvalidSection DEF ListsOf
<1>4. ASSUME NEW other \in Section, NEW i \in 1 .. Len(after[other])
      PROVE  there[after[other][i]] = other
  <2>1. lists[other] \in Seq(Id) BY <1>1
  <2>2. CASE i \in 1 .. Len(lists[other])
    <3>1. after[other][i] = lists[other][i]  BY <1>1, <1>2, <2>2
    <3>2. lists[other][i] \in Id  BY <2>1, <2>2
    <3>3. QED BY <1>3, <2>2, <3>1, <3>2 DEF ListsOf
  <2>3. CASE other = section /\ i = Len(lists[section]) + 1  BY <1>2, <2>3
  <2>4. QED BY <1>1, <1>2, <2>1, <2>2, <2>3
<1>5. ASSUME NEW other \in Section, NEW i \in 1 .. Len(after[other]), NEW j \in 1 .. Len(after[other]),
             after[other][i] = after[other][j]
      PROVE  i = j
  <2>1. CASE other # section  BY <1>1, <1>5, <2>1 DEF ListsOf
  <2>2. CASE other = section
    <3>1. i \in 1 .. Len(lists[section]) \/ i = Len(lists[section]) + 1  BY <1>2, <2>2
    <3>2. j \in 1 .. Len(lists[section]) \/ j = Len(lists[section]) + 1  BY <1>2, <2>2
    <3>3. QED BY <1>2, <1>3, <1>5, <2>2, <3>1, <3>2 DEF ListsOf
  <2>3. QED BY <2>1, <2>2
<1>6. ASSUME NEW o \in Id, there[o] \in Section
      PROVE  \E i \in 1 .. Len(after[there[o]]) : after[there[o]][i] = o
  <2>1. CASE o = id
    <3>1. there[o] = section /\ Len(lists[section]) + 1 \in 1 .. Len(after[section])
      BY <1>2, <2>1
    <3>2. QED BY <1>2, <2>1, <3>1
  <2>2. CASE o # id
    <3>1. there[o] = place[o] /\ place[o] \in Section  BY <1>6, <2>2
    <3>2. PICK i \in 1 .. Len(lists[place[o]]) : lists[place[o]][i] = o  BY <3>1 DEF ListsOf
    <3>3. CASE place[o] = section  BY <1>2, <3>1, <3>2, <3>3
    <3>4. CASE place[o] # section  BY <1>1, <3>1, <3>2, <3>4
    <3>5. QED BY <3>3, <3>4
  <2>3. QED BY <2>1, <2>2
<1>7. QED BY <1>1, <1>4, <1>5, <1>6 DEF ListsOf

LEMMA RemovedFromList ==
  ASSUME NEW lists, NEW place \in [Id -> Section \cup {INVALID_SECTION}], ListsOf(lists, place),
         NEW id \in Id, NEW section \in Section, place[id] = section
  PROVE  ListsOf(remove_from_section(lists, section, id), [place EXCEPT ![id] = INVALID_SECTION])
<1> DEFINE after == remove_from_section(lists, section, id)
           there == [place EXCEPT ![id] = INVALID_SECTION]
           list == lists[section]
           n == Len(list)
           at == {i \in DOMAIN list : list[i] = id}
           first == CHOOSE i \in at : \A j \in at : i <= j
<1>1. lists \in [Section -> Seq(Id)] /\ list \in Seq(Id) /\ n \in Nat /\ DOMAIN list = 1 .. n
  BY DEF ListsOf
<1>2. PICK k \in 1 .. n : at = {k} /\ list[k] = id
  <2>1. \E i \in 1 .. n : list[i] = id  BY DEF ListsOf
  <2>2. \A i, j \in 1 .. n : list[i] = list[j] => i = j  BY DEF ListsOf
  <2>3. QED BY <1>1, <2>1, <2>2
<1>3. first = k  BY <1>2
<1>4. after = [lists EXCEPT ![section] = Without(list, k)]
  BY <1>2, <1>3 DEF remove_from_section
<1> HIDE DEF first, at
<1>5. /\ Without(list, k) \in Seq(Id) /\ Len(Without(list, k)) = n - 1
      /\ \A i \in 1 .. n - 1 : Without(list, k)[i] = IF i = k THEN list[n] ELSE list[i]
  <2> DEFINE moved == [list EXCEPT ![k] = list[n]]
  <2>1. moved \in Seq(Id) /\ Len(moved) = n
    <3>1. list[n] \in Id  BY <1>1, <1>2
    <3>2. QED BY <1>1, <1>2, <3>1
  <2>2. \A i \in 1 .. n : moved[i] = IF i = k THEN list[n] ELSE list[i]  BY <1>1, <1>2
  <2>3. Without(list, k) = SubSeq(moved, 1, n - 1)  BY DEF Without
  <2> HIDE DEF moved
  <2>4. QED BY <1>1, <1>2, <2>1, <2>2, <2>3
<1>6. /\ after \in [Section -> Seq(Id)] /\ after[section] = Without(list, k)
      /\ \A other \in Section \ {section} : after[other] = lists[other]
  BY <1>1, <1>4, <1>5
<1> HIDE DEF after
<1>7. ASSUME NEW i \in 1 .. n - 1
      PROVE  \E j \in 1 .. n : j # k /\ after[section][i] = list[j] /\ j = IF i = k THEN n ELSE i
  <2> DEFINE j == IF i = k THEN n ELSE i
  <2>1. j \in 1 .. n /\ j # k
    <3> HIDE DEF n
    <3>1. QED BY <1>1, <1>2
  <2>2. after[section][i] = list[j]  BY <1>5, <1>6
  <2>3. QED BY <2>1, <2>2
<1>8. ASSUME NEW other \in Section, NEW i \in 1 .. Len(after[other])
      PROVE  there[after[other][i]] = other
  <2>1. CASE other = section
    <3>1. i \in 1 .. n - 1  BY <1>5, <1>6, <2>1
    <3>2. PICK j \in 1 .. n : j # k /\ after[section][i] = list[j]  BY <1>7, <3>1
    <3>3. list[j] \in Id /\ list[j] # id /\ place[list[j]] = section
      BY <1>1, <1>2, <3>2 DEF ListsOf
    <3>4. QED BY <2>1, <3>2, <3>3
  <2>2. CASE other # section
    <3>1. after[other] = lists[other] /\ lists[other] \in Seq(Id)  BY <1>1, <1>6, <2>2
    <3>2. lists[other][i] \in Id /\ place[lists[other][i]] = other  BY <3>1 DEF ListsOf
    <3>3. QED BY <2>2, <3>1, <3>2
  <2>3. QED BY <2>1, <2>2
<1>9. ASSUME NEW other \in Section, NEW i \in 1 .. Len(after[other]), NEW j \in 1 .. Len(after[other]),
             after[other][i] = after[other][j]
      PROVE  i = j
  <2>1. CASE other = section
    <3>1. i \in 1 .. n - 1 /\ j \in 1 .. n - 1  BY <1>5, <1>6, <2>1
    <3>2. PICK p \in 1 .. n : p # k /\ after[section][i] = list[p] /\ p = IF i = k THEN n ELSE i
      BY <1>7, <3>1
    <3>3. PICK q \in 1 .. n : q # k /\ after[section][j] = list[q] /\ q = IF j = k THEN n ELSE j
      BY <1>7, <3>1
    <3>4. p = q  BY <1>9, <2>1, <3>2, <3>3 DEF ListsOf
    <3>5. QED BY <3>1, <3>2, <3>3, <3>4
  <2>2. CASE other # section  BY <1>6, <1>9, <2>2 DEF ListsOf
  <2>3. QED BY <2>1, <2>2
<1>10. ASSUME NEW o \in Id, there[o] \in Section
       PROVE  \E i \in 1 .. Len(after[there[o]]) : after[there[o]][i] = o
  <2>1. o # id /\ there[o] = place[o] /\ place[o] \in Section  BY <1>10, InvalidSection
  <2>2. PICK i \in 1 .. Len(lists[place[o]]) : lists[place[o]][i] = o  BY <2>1 DEF ListsOf
  <2>3. CASE place[o] # section  BY <1>6, <2>1, <2>2, <2>3
  <2>4. CASE place[o] = section
    <3>1. i \in 1 .. n /\ i # k  BY <1>2, <2>1, <2>2, <2>4
    <3>2. CASE i = n
      <4>1. k \in 1 .. n - 1 /\ after[section][k] = o  BY <1>2, <1>5, <1>6, <2>2, <2>4, <3>1, <3>2
      <4>2. QED BY <1>5, <1>6, <2>1, <2>4, <4>1
    <3>3. CASE i # n
      <4>1. i \in 1 .. n - 1
        <5> HIDE DEF n
        <5>1. QED BY <1>1, <3>1, <3>3
      <4>2. after[section][i] = o  BY <1>5, <1>6, <2>2, <2>4, <3>1, <4>1
      <4>3. QED BY <1>5, <1>6, <2>1, <2>4, <4>1, <4>2
    <3>4. QED BY <3>2, <3>3
  <2>5. QED BY <2>3, <2>4
<1>11. QED BY <1>6, <1>8, <1>9, <1>10 DEF ListsOf, after

LEMMA PlayersListed ==
  ASSUME NEW lists, NEW place, ListsOf(lists, place), NEW where, where \subseteq Section
  PROVE  Players(lists, where) = {id \in Id : place[id] \in where}
<1>1. ASSUME NEW section \in where, NEW i \in DOMAIN lists[section]
      PROVE  lists[section][i] \in Id /\ place[lists[section][i]] \in where
  BY DEF ListsOf
<1>2. ASSUME NEW id \in Id, place[id] \in where
      PROVE  \E i \in DOMAIN lists[place[id]] : lists[place[id]][i] = id
  BY <1>2 DEF ListsOf
<1>3. QED BY <1>1, <1>2 DEF Players

LEMMA ListedOnce ==
  ASSUME NEW lists, NEW place, ListsOf(lists, place), NEW section \in Section, NEW id \in Id
  PROVE  Cardinality({i \in DOMAIN lists[section] : lists[section][i] = id})
           = IF place[id] = section THEN 1 ELSE 0
<1> DEFINE at == {i \in DOMAIN lists[section] : lists[section][i] = id}
<1>1. DOMAIN lists[section] = 1 .. Len(lists[section])  BY DEF ListsOf
<1>2. CASE place[id] = section
  <2>1. PICK i \in 1 .. Len(lists[section]) : lists[section][i] = id  BY <1>2 DEF ListsOf
  <2>2. at = {i}  BY <1>1, <2>1 DEF ListsOf
  <2>3. QED BY <1>2, <2>2, FS_Singleton
<1>3. CASE place[id] # section
  <2>1. at = {}  BY <1>1, <1>3 DEF ListsOf
  <2>2. QED BY <1>3, <2>1, FS_EmptySet
<1>4. QED BY <1>2, <1>3
=============================================================================
