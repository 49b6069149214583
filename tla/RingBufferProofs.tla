-------------------------- MODULE RingBufferProofs --------------------------
(***************************************************************************)
(* Proofs about RingBuffer for any number of buffers of any sizes and for  *)
(* integers of any width: it is a bounded byte queue.                      *)
(***************************************************************************)
EXTENDS RingBuffer, NaturalsInduction, SequenceTheorems, WellFoundedInduction, TLAPS

(***************************************************************************)
(* Powers of two                                                           *)
(***************************************************************************)

(* Every non-empty set of naturals has a least element. *)
LEMMA Least ==
  ASSUME NEW T \in SUBSET Nat, T # {}
  PROVE  \E x \in T : \A y \in T : x <= y
<1> DEFINE R == OpToRel(<, Nat)
<1>1. IsWellFoundedOn(R, Nat)  BY NatLessThanWellFounded, Zenon
<1>2. R = {ss \in Nat \X Nat : ss[1] < ss[2]}  BY Zenon DEF OpToRel
<1> HIDE DEF R
<1>3. PICK x \in T : \A y \in T : <<y, x>> \notin R  BY <1>1, WFMin
<1>4. ASSUME NEW y \in T PROVE x <= y
  <2>1. ~(y < x)  BY <1>2, <1>3
  <2> QED  BY <2>1
<1> QED  BY <1>4

(* The equation Power is defined by, up to n *)
Doubles(f, n) == f = [k \in 0 .. n |-> IF k = 0 THEN 1 ELSE 2 * f[k - 1]]

(* There is a function that satisfies it: the least n without one has a    *)
(* predecessor with one, and that can be extended.                         *)
LEMMA DoublesSolvable ==
  ASSUME NEW n \in Nat
  PROVE  \E f : Doubles(f, n)
<1> DEFINE Unsolved == {m \in Nat : ~ \E f : Doubles(f, m)}
<1>1. SUFFICES ASSUME Unsolved # {} PROVE FALSE  OBVIOUS
<1>2. PICK m \in Unsolved : \A l \in Unsolved : m <= l
  <2>1. Unsolved \in SUBSET Nat  OBVIOUS
  <2> HIDE DEF Unsolved
  <2> QED  BY <1>1, <2>1, Least
<1>3. m \in Nat /\ ~ \E f : Doubles(f, m)  OBVIOUS
<1>4. CASE m = 0
  <2> DEFINE f == [k \in 0 .. m |-> 1]
  <2>1. f = [k \in 0 .. m |-> IF k = 0 THEN 1 ELSE 2 * f[k - 1]]  BY <1>4
  <2>2. Doubles(f, m)  BY <2>1 DEF Doubles
  <2> QED  BY <1>3, <2>2
<1>5. CASE m # 0
  <2>1. m - 1 \in Nat /\ m - 1 < m  BY <1>3, <1>5
  <2>2. m - 1 \notin Unsolved  BY <1>2, <1>3, <2>1
  <2>3. PICK g : Doubles(g, m - 1)  BY <2>1, <2>2
  <2> DEFINE f == [k \in 0 .. m |-> IF k = 0 THEN 1 ELSE 2 * g[k - 1]]
  <2>4. ASSUME NEW k \in 0 .. m PROVE f[k] = IF k = 0 THEN 1 ELSE 2 * f[k - 1]
    <3>1. CASE k = 0  BY <3>1
    <3>2. CASE k # 0
      <4>1. k - 1 \in 0 .. m - 1 /\ k - 1 \in 0 .. m  BY <1>3, <3>2
      <4>2. g[k - 1] = IF k - 1 = 0 THEN 1 ELSE 2 * g[k - 1 - 1]  BY <2>3, <4>1 DEF Doubles
      <4>3. f[k - 1] = IF k - 1 = 0 THEN 1 ELSE 2 * g[k - 1 - 1]  BY <4>1
      <4>4. f[k] = 2 * g[k - 1]  BY <3>2
      <4> QED  BY <3>2, <4>2, <4>3, <4>4
    <3> QED  BY <3>1, <3>2
  <2>5. f = [k \in 0 .. m |-> f[k]]  OBVIOUS
  <2> HIDE DEF f
  <2>6. Doubles(f, m)  BY <2>4, <2>5 DEF Doubles
  <2> QED  BY <1>3, <2>6
<1> QED  BY <1>4, <1>5

LEMMA PowerIs ==
  /\ Power[0] = 1
  /\ \A k \in 1 .. Width : Power[k] = 2 * Power[k - 1]
<1>1. PICK f : Doubles(f, Width)  BY WidthAssumption, DoublesSolvable
<1>2. Power = CHOOSE g : Doubles(g, Width)  BY DEF Power, Doubles
<1>3. Doubles(Power, Width)  BY <1>1, <1>2
<1> QED  BY <1>3, WidthAssumption DEF Doubles

(* Every power is a positive number... *)
LEMMA PowerPositive == \A k \in 0 .. Width : Power[k] \in Nat \ {0}
<1> DEFINE Wrong == {k \in 0 .. Width : Power[k] \notin Nat \ {0}}
<1>1. SUFFICES ASSUME Wrong # {} PROVE FALSE  OBVIOUS
<1>2. PICK m \in Wrong : \A l \in Wrong : m <= l
  <2>1. Wrong \in SUBSET Nat  BY WidthAssumption
  <2> HIDE DEF Wrong
  <2> QED  BY <1>1, <2>1, Least
<1>3. m \in 1 .. Width  BY PowerIs, WidthAssumption
<1>4. m - 1 \in 0 .. Width /\ ~(m <= m - 1)  BY <1>3, WidthAssumption
<1>5. Power[m - 1] \in Nat \ {0}  BY <1>2, <1>4
<1>6. Power[m] = 2 * Power[m - 1]  BY <1>3, PowerIs
<1> QED  BY <1>5, <1>6, <1>2

(* ... and those below the last one divide it, two times or more. *)
LEMMA PowerDivides ==
  \A k \in 0 .. Width - 1 : \E q \in Nat : q >= 2 /\ IndexMod = q * Power[k]
<1> DEFINE Divides(k) == \E q \in Nat : q >= 2 /\ IndexMod = q * Power[k]
           Wrong == {l \in 1 .. Width : ~Divides(Width - l)}
<1>1. SUFFICES ASSUME Wrong # {} PROVE FALSE
  <2>1. ASSUME Wrong = {}, NEW k \in 0 .. Width - 1 PROVE Divides(k)
    <3>1. Width - k \in 1 .. Width /\ Width - (Width - k) = k  BY WidthAssumption
    <3> QED  BY <2>1, <3>1
  <2> QED  BY <2>1
<1>2. PICK m \in Wrong : \A l \in Wrong : m <= l
  <2>1. Wrong \in SUBSET Nat  BY WidthAssumption
  <2> HIDE DEF Wrong
  <2> QED  BY <1>1, <2>1, Least
<1>3. m \in 1 .. Width /\ Width \in Nat  BY WidthAssumption
<1>4. CASE m = 1
  <2>1. IndexMod = 2 * Power[Width - 1]  BY <1>3, PowerIs DEF IndexMod
  <2> QED  BY <1>2, <1>4, <2>1
<1>5. CASE m # 1
  <2>1. m - 1 \in 1 .. Width /\ ~(m <= m - 1) /\ Width - (m - 1) = Width - m + 1
    BY <1>3, <1>5
  <2>2. Divides(Width - m + 1)  BY <1>2, <2>1
  <2>3. PICK q \in Nat : q >= 2 /\ IndexMod = q * Power[Width - m + 1]  BY <2>2
  <2>4. Width - m + 1 \in 1 .. Width /\ Width - m + 1 - 1 = Width - m /\ Width - m \in 0 .. Width
    BY <1>3, <1>5
  <2>5. Power[Width - m + 1] = 2 * Power[Width - m]  BY <2>4, PowerIs
  <2>6. Power[Width - m] \in Nat  BY <2>4, PowerPositive
  <2>7. IndexMod = (2 * q) * Power[Width - m]
    <3> DEFINE p == Power[Width - m]
    <3>1. IndexMod = q * (2 * p) /\ p \in Nat  BY <2>3, <2>5, <2>6
    <3> HIDE DEF p
    <3>2. q * (2 * p) = (2 * q) * p  BY <3>1
    <3> QED  BY <3>1, <3>2 DEF p
  <2>8. 2 * q \in Nat /\ 2 * q >= 2  BY <2>3
  <2> QED  BY <1>2, <2>7, <2>8
<1> QED  BY <1>4, <1>5

(* What is used of a capacity *)
LEMMA PowersAre ==
  /\ IndexMod \in Nat \ {0}
  /\ PowersOfTwo \subseteq Nat \ {0}
  /\ Power[Width - 1] \in PowersOfTwo
  /\ \A p \in PowersOfTwo : \E q \in Nat : q >= 2 /\ IndexMod = q * p
<1>1. IndexMod \in Nat \ {0}  BY PowerPositive, WidthAssumption DEF IndexMod
<1>2. \A k \in 0 .. Width - 1 : k \in 0 .. Width  BY WidthAssumption
<1>3. PowersOfTwo \subseteq Nat \ {0}  BY <1>2, PowerPositive DEF PowersOfTwo
<1>4. Power[Width - 1] \in PowersOfTwo  BY WidthAssumption DEF PowersOfTwo
<1> QED  BY <1>1, <1>3, <1>4, PowerDivides DEF PowersOfTwo

LEMMA HalfAtMost ==
  ASSUME NEW p \in PowersOfTwo
  PROVE  p \in Nat /\ p >= 1 /\ 2 * p <= IndexMod
<1>1. p \in Nat \ {0} /\ IndexMod \in Nat  BY PowersAre
<1>2. PICK q \in Nat : q >= 2 /\ IndexMod = q * p  BY PowersAre
<1>3. q * p >= 2 * p  BY <1>1, <1>2
<1> QED  BY <1>1, <1>2, <1>3

(* The least power that is large enough *)
LEMMA LeastPower ==
  ASSUME NEW T \in SUBSET PowersOfTwo, T # {}
  PROVE  \E p \in T : \A q \in T : p <= q
<1>1. T \in SUBSET Nat  BY PowersAre
<1> QED  BY <1>1, Least

LEMMA BitCeilIs ==
  ASSUME NEW n \in Size
  PROVE  /\ BitCeil(n) \in PowersOfTwo /\ n <= BitCeil(n)
         /\ \A q \in PowersOfTwo : n <= q => BitCeil(n) <= q
<1>1. n \in 0 .. Power[Width - 1]  BY SizeAssumption
<1> DEFINE T == {p \in PowersOfTwo : n <= p}
<1>2. Power[Width - 1] \in T  BY <1>1, PowersAre
<1>3. PICK p \in T : \A q \in T : p <= q
  <2>1. T \in SUBSET PowersOfTwo /\ T # {}  BY <1>2
  <2> HIDE DEF T
  <2> QED  BY <2>1, LeastPower
<1>4. \E r \in PowersOfTwo : n <= r /\ \A q \in PowersOfTwo : n <= q => r <= q  BY <1>3
<1> QED  BY <1>4 DEF BitCeil

LEMMA MaxSizeIs ==
  /\ MaxSize \in PowersOfTwo
  /\ \A n \in Size : n <= MaxSize /\ BitCeil(n) <= MaxSize
<1>1. \A n \in Size : n \in 0 .. Power[Width - 1]  BY SizeAssumption
<1> DEFINE T == {p \in PowersOfTwo : \A n \in Size : n <= p}
<1>2. Power[Width - 1] \in T  BY <1>1, PowersAre
<1>3. PICK p \in T : \A q \in T : p <= q
  <2>1. T \in SUBSET PowersOfTwo /\ T # {}  BY <1>2
  <2> HIDE DEF T
  <2> QED  BY <2>1, LeastPower
<1>4. ASSUME NEW q \in PowersOfTwo, q < p PROVE \E n \in Size : n > q
  <2>1. q \notin T  BY <1>3, <1>4, PowersAre
  <2>2. PICK n \in Size : ~(n <= q)  BY <2>1
  <2> QED  BY <2>2, <1>1, PowersAre
<1>5. \E r \in PowersOfTwo : /\ \A n \in Size : n <= r
                             /\ \A q \in PowersOfTwo : q < r => \E n \in Size : n > q
  BY <1>3, <1>4
<1>6. MaxSize \in PowersOfTwo /\ \A n \in Size : n <= MaxSize
  BY <1>5 DEF MaxSize
<1> QED  BY <1>6, BitCeilIs

(***************************************************************************)
(* Remainders                                                              *)
(***************************************************************************)
LEMMA Remainder ==
  ASSUME NEW p \in Nat, p > 0, NEW x \in Int
  PROVE  x % p \in 0 .. p - 1 /\ \E c \in Int : x = c * p + (x % p)
<1>1. x % p \in 0 .. p - 1 /\ x = (x \div p) * p + (x % p) /\ x \div p \in Int  OBVIOUS
<1> QED  BY <1>1

LEMMA RemainderUnique ==
  ASSUME NEW p \in Nat, p > 0, NEW c \in Int, NEW b \in 0 .. p - 1
  PROVE  (c * p + b) % p = b
OBVIOUS

LEMMA RemainderNear ==
  ASSUME NEW p \in Nat, p > 0, NEW x \in Int
  PROVE  /\ x \in 0 .. p - 1 => x % p = x
         /\ x \in p .. 2 * p - 1 => x % p = x - p
         /\ x \in -p .. -1 => x % p = x + p
<1>1. ASSUME x \in 0 .. p - 1 PROVE x % p = x  BY <1>1
<1>2. ASSUME x \in p .. 2 * p - 1 PROVE x % p = x - p
  <2>1. x - p \in 0 .. p - 1 /\ 1 * p = p /\ p + (x - p) = x  BY <1>2
  <2>2. (1 * p + (x - p)) % p = x - p  BY <2>1, RemainderUnique
  <2> QED  BY <2>1, <2>2
<1>3. ASSUME x \in -p .. -1 PROVE x % p = x + p
  <2>1. x + p \in 0 .. p - 1 /\ (-1) * p = -p /\ -p + (x + p) = x  BY <1>3
  <2>2. ((-1) * p + (x + p)) % p = x + p  BY <2>1, RemainderUnique
  <2> QED  BY <2>1, <2>2
<1> QED  BY <1>1, <1>2, <1>3

LEMMA RemainderShift ==
  ASSUME NEW p \in Nat, p > 0, NEW x \in Int, NEW q \in Int
  PROVE  (x + q * p) % p = x % p
<1>1. PICK c \in Int : x = c * p + (x % p)  BY Remainder
<1>2. x % p \in 0 .. p - 1  BY Remainder
<1> DEFINE b == x % p
<1>3. x = c * p + b /\ b \in 0 .. p - 1  BY <1>1, <1>2
<1> HIDE DEF b
<1>4. x + q * p = (c + q) * p + b  BY <1>3
<1>5. c + q \in Int  OBVIOUS
<1>6. ((c + q) * p + b) % p = b  BY <1>3, <1>5, RemainderUnique
<1> QED  BY <1>4, <1>6 DEF b

(* What is a multiple of the capacity apart is the same slot: an index     *)
(* that has wrapped at the width of the integer leads where it would have  *)
(* led without.                                                            *)
LEMMA SlotOfWrapped ==
  ASSUME NEW p \in PowersOfTwo, NEW x \in Nat, x < 2 * IndexMod, NEW j \in Nat
  PROVE  ((x % IndexMod) + j) % p = (x + j) % p
<1>1. p \in Nat /\ p > 0 /\ IndexMod \in Nat /\ IndexMod > 0  BY PowersAre
<1>2. PICK q \in Nat : IndexMod = q * p  BY PowersAre
<1>3. CASE x < IndexMod  BY <1>1, <1>3, RemainderNear
<1>4. CASE x >= IndexMod
  <2>1. x % IndexMod = x - IndexMod  BY <1>1, <1>4, RemainderNear
  <2>2. -q \in Int /\ x + j \in Int  BY <1>2
  <2>3. (-q) * p = -(q * p)  BY <1>1
  <2>4. (x - IndexMod) + j = (x + j) + (-q) * p  BY <1>1, <1>2, <2>3
  <2>5. \A y \in Int, c \in Int : (y + c * p) % p = y % p  BY <1>1, RemainderShift
  <2>6. ((x + j) + (-q) * p) % p = (x + j) % p  BY <2>2, <2>5
  <2> QED  BY <2>1, <2>4, <2>6
<1> QED  BY <1>1, <1>3, <1>4

(* The slot j steps on from a slot                                         *)
Ahead(p, slot, j) == IF slot + j < p THEN slot + j ELSE slot + j - p

LEMMA SlotAhead ==
  ASSUME NEW p \in Nat, p > 0, NEW x \in Nat, NEW j \in 0 .. p
  PROVE  (x + j) % p = Ahead(p, x % p, j)
<1>1. PICK c \in Int : x = c * p + (x % p)  BY Remainder
<1>2. x % p \in 0 .. p - 1  BY Remainder
<1> DEFINE a == x % p
<1>3. x = c * p + a /\ a \in 0 .. p - 1  BY <1>1, <1>2
<1> HIDE DEF a
<1>4. x + j = (a + j) + c * p /\ a + j \in Int  BY <1>3
<1>5. (x + j) % p = (a + j) % p  BY <1>4, RemainderShift
<1>6. (a + j) % p = IF a + j < p THEN a + j ELSE a + j - p  BY <1>3, RemainderNear
<1> QED  BY <1>5, <1>6 DEF a, Ahead

(***************************************************************************)
(* The indices                                                             *)
(***************************************************************************)
Index == 0 .. IndexMod - 1
Apart(r, w) == (w - r) % IndexMod

LEMMA IndexIs == IndexMod \in Nat /\ IndexMod > 0 /\ Index \subseteq Nat
BY PowersAre DEF Index

LEMMA ApartIs ==
  ASSUME NEW r \in Index, NEW w \in Index
  PROVE  /\ Apart(r, w) \in Index
         /\ w = (r + Apart(r, w)) % IndexMod
         /\ Apart(r, w) = IF w >= r THEN w - r ELSE w - r + IndexMod
<1>1. IndexMod \in Nat /\ IndexMod > 0 /\ r \in 0 .. IndexMod - 1 /\ w \in 0 .. IndexMod - 1
  BY IndexIs DEF Index
<1>2. Apart(r, w) = IF w >= r THEN w - r ELSE w - r + IndexMod
  BY <1>1, RemainderNear DEF Apart
<1>3. r + Apart(r, w) = IF w >= r THEN w ELSE w + IndexMod  BY <1>1, <1>2
<1>4. (r + Apart(r, w)) % IndexMod = w  BY <1>1, <1>3, RemainderNear
<1> QED  BY <1>1, <1>2, <1>4 DEF Index

LEMMA WriteAdvances ==
  ASSUME NEW r \in Index, NEW w \in Index, NEW n \in Nat, Apart(r, w) + n < IndexMod
  PROVE  /\ Advance(w, n) \in Index
         /\ Apart(r, Advance(w, n)) = Apart(r, w) + n
         /\ w + n < 2 * IndexMod
<1>1. IndexMod \in Nat /\ IndexMod > 0 /\ r \in 0 .. IndexMod - 1 /\ w \in 0 .. IndexMod - 1
  BY IndexIs DEF Index
<1>2. Apart(r, w) = IF w >= r THEN w - r ELSE w - r + IndexMod  BY ApartIs
<1>3. n < IndexMod  BY <1>1, <1>2
<1>4. Advance(w, n) = IF w + n < IndexMod THEN w + n ELSE w + n - IndexMod
  BY <1>1, <1>3, RemainderNear DEF Advance
<1>5. Advance(w, n) \in Index  BY <1>1, <1>3, <1>4 DEF Index
<1>6. Apart(r, Advance(w, n)) =
        IF Advance(w, n) >= r THEN Advance(w, n) - r ELSE Advance(w, n) - r + IndexMod
  BY <1>5, ApartIs
<1> QED  BY <1>1, <1>2, <1>3, <1>4, <1>5, <1>6

LEMMA ReadAdvances ==
  ASSUME NEW r \in Index, NEW w \in Index, NEW n \in Nat, n <= Apart(r, w)
  PROVE  /\ Advance(r, n) \in Index
         /\ Apart(Advance(r, n), w) = Apart(r, w) - n
         /\ r + n < 2 * IndexMod
<1>1. IndexMod \in Nat /\ IndexMod > 0 /\ r \in 0 .. IndexMod - 1 /\ w \in 0 .. IndexMod - 1
  BY IndexIs DEF Index
<1>2. Apart(r, w) = IF w >= r THEN w - r ELSE w - r + IndexMod  BY ApartIs
<1>3. n < IndexMod  BY <1>1, <1>2
<1>4. Advance(r, n) = IF r + n < IndexMod THEN r + n ELSE r + n - IndexMod
  BY <1>1, <1>3, RemainderNear DEF Advance
<1>5. Advance(r, n) \in Index  BY <1>1, <1>3, <1>4 DEF Index
<1>6. Apart(Advance(r, n), w) =
        IF w >= Advance(r, n) THEN w - Advance(r, n) ELSE w - Advance(r, n) + IndexMod
  BY <1>5, ApartIs
<1> QED  BY <1>1, <1>2, <1>3, <1>4, <1>5, <1>6

(***************************************************************************)
(* What lies in a memory of p cells behind an index                        *)
(***************************************************************************)
Memory(p) == [0 .. p - 1 -> Cell]
Window(memory, p, from, n) == [i \in 1 .. n |-> memory[(from + i - 1) % p]]

LEMMA PowerIsNat == ASSUME NEW p \in PowersOfTwo PROVE p \in Nat /\ p > 0
BY PowersAre

LEMMA WindowIs ==
  ASSUME NEW p \in PowersOfTwo, NEW memory \in Memory(p), NEW from \in Nat, NEW n \in Nat
  PROVE  /\ Window(memory, p, from, n) \in Seq(Cell)
         /\ Len(Window(memory, p, from, n)) = n
         /\ \A i \in 1 .. n : Window(memory, p, from, n)[i] = memory[(from + i - 1) % p]
<1> DEFINE s == Window(memory, p, from, n)
<1>1. p \in Nat /\ p > 0  BY PowerIsNat
<1>2. ASSUME NEW i \in 1 .. n PROVE memory[(from + i - 1) % p] \in Cell
  <2>1. from + i - 1 \in Int  OBVIOUS
  <2>2. (from + i - 1) % p \in 0 .. p - 1  BY <1>1, <2>1, Remainder
  <2> QED  BY <2>2 DEF Memory
<1>3. s \in [1 .. n -> Cell]  BY <1>2 DEF Window
<1>4. s \in Seq(Cell)  BY <1>3, SeqDef
<1>5. DOMAIN s = 1 .. n  BY DEF Window
<1>6. Len(s) \in Nat /\ DOMAIN s = 1 .. Len(s)  BY <1>4, LenProperties
<1> HIDE DEF s
<1>7. Len(s) = n
  <2> DEFINE m == Len(s)
  <2>1. m \in Nat /\ 1 .. m = 1 .. n  BY <1>5, <1>6
  <2> HIDE DEF m
  <2>2. m = n  BY <2>1
  <2> QED  BY <2>2 DEF m
<1> QED  BY <1>4, <1>7 DEF s, Window

(* A sequence with the cells of a window is that window. *)
LEMMA WindowEqual ==
  ASSUME NEW p \in PowersOfTwo, NEW memory \in Memory(p), NEW from \in Nat, NEW n \in Nat,
         NEW s \in Seq(Cell), Len(s) = n, \A i \in 1 .. n : s[i] = memory[(from + i - 1) % p]
  PROVE  s = Window(memory, p, from, n)
<1>1. /\ Window(memory, p, from, n) \in Seq(Cell)
      /\ Len(Window(memory, p, from, n)) = n
      /\ \A i \in 1 .. n : Window(memory, p, from, n)[i] = memory[(from + i - 1) % p]
  BY WindowIs
<1> QED  BY <1>1, SeqEqual

(* No byte lies behind any index, also without memory. *)
LEMMA WindowEmpty ==
  ASSUME NEW memory, NEW p, NEW from
  PROVE  Window(memory, p, from, 0) = << >>
<1>1. 1 .. 0 = {}  OBVIOUS
<1>2. Window(memory, p, from, 0) = [i \in {} |-> memory[(from + i - 1) % p]]  BY <1>1 DEF Window
<1>3. << >> = [i \in {} |-> memory[(from + i - 1) % p]]  OBVIOUS
<1> QED  BY <1>2, <1>3

(* The wrap of an index does not matter. *)
LEMMA WindowWrapped ==
  ASSUME NEW p \in PowersOfTwo, NEW memory, NEW x \in Nat, x < 2 * IndexMod, NEW n \in Nat
  PROVE  Window(memory, p, x % IndexMod, n) = Window(memory, p, x, n)
<1>1. ASSUME NEW i \in 1 .. n PROVE ((x % IndexMod) + i - 1) % p = (x + i - 1) % p
  <2>1. i - 1 \in Nat  OBVIOUS
  <2>2. ((x % IndexMod) + (i - 1)) % p = (x + (i - 1)) % p  BY <2>1, SlotOfWrapped
  <2>3. x % IndexMod \in Int
    <3>1. IndexMod \in Nat /\ IndexMod > 0  BY PowersAre
    <3>2. x % IndexMod \in 0 .. IndexMod - 1  BY <3>1, Remainder
    <3> QED  BY <3>1, <3>2
  <2> DEFINE y == x % IndexMod
  <2> HIDE DEF y
  <2>4. y + (i - 1) = y + i - 1 /\ x + (i - 1) = x + i - 1  BY <2>3 DEF y
  <2> QED  BY <2>2, <2>4 DEF y
<1> QED  BY <1>1 DEF Window

LEMMA WindowJoined ==
  ASSUME NEW p \in PowersOfTwo, NEW memory \in Memory(p), NEW from \in Nat,
         NEW m \in Nat, NEW n \in Nat
  PROVE  Window(memory, p, from, m) \o Window(memory, p, from + m, n) = Window(memory, p, from, m + n)
<1> DEFINE s == Window(memory, p, from, m)
           t == Window(memory, p, from + m, n)
<1>1. from + m \in Nat /\ m + n \in Nat  OBVIOUS
<1>2. /\ s \in Seq(Cell) /\ Len(s) = m
      /\ \A i \in 1 .. m : s[i] = memory[(from + i - 1) % p]
  BY WindowIs
<1>3. /\ t \in Seq(Cell) /\ Len(t) = n
      /\ \A i \in 1 .. n : t[i] = memory[(from + m + i - 1) % p]
  BY <1>1, WindowIs
<1> HIDE DEF s, t
<1>4. /\ s \o t \in Seq(Cell) /\ Len(s \o t) = m + n
      /\ \A i \in 1 .. m + n : (s \o t)[i] = IF i <= m THEN s[i] ELSE t[i - m]
  BY <1>2, <1>3, ConcatProperties
<1>5. ASSUME NEW i \in 1 .. m + n PROVE (s \o t)[i] = memory[(from + i - 1) % p]
  <2>1. CASE i <= m  BY <1>2, <1>4, <2>1
  <2>2. CASE ~(i <= m)
    <3>1. i - m \in 1 .. n /\ from + m + (i - m) - 1 = from + i - 1  BY <2>2
    <3>2. (s \o t)[i] = t[i - m]  BY <1>4, <2>2
    <3>3. t[i - m] = memory[(from + m + (i - m) - 1) % p]  BY <1>3, <3>1
    <3> QED  BY <3>1, <3>2, <3>3, Zenon
  <2> QED  BY <2>1, <2>2, Zenon
<1>6. s \o t = Window(memory, p, from, m + n)  BY <1>1, <1>4, <1>5, WindowEqual
<1> QED  BY <1>6 DEF s, t

LEMMA WindowPart ==
  ASSUME NEW p \in PowersOfTwo, NEW memory \in Memory(p), NEW from \in Nat,
         NEW k \in Nat, NEW n \in 0 .. k
  PROVE  /\ SubSeq(Window(memory, p, from, k), 1, n) = Window(memory, p, from, n)
         /\ SubSeq(Window(memory, p, from, k), n + 1, k) = Window(memory, p, from + n, k - n)
<1> DEFINE s == Window(memory, p, from, k)
<1>1. /\ s \in Seq(Cell) /\ Len(s) = k
      /\ \A i \in 1 .. k : s[i] = memory[(from + i - 1) % p]
  BY WindowIs
<1>2. \A i \in 1 .. k : s[i] \in Cell  BY <1>1, ElementOfSeq
<1> HIDE DEF s
<1>3. SubSeq(s, 1, n) = Window(memory, p, from, n)
  <2>1. 1 \in Int /\ n \in Int /\ n \in Nat /\ \A i \in 1 .. n : s[i] \in Cell  BY <1>2
  <2>2. /\ SubSeq(s, 1, n) \in Seq(Cell)
        /\ Len(SubSeq(s, 1, n)) = IF 1 <= n THEN n - 1 + 1 ELSE 0
        /\ \A i \in 1 .. n - 1 + 1 : SubSeq(s, 1, n)[i] = s[1 + i - 1]
    BY <2>1, SubSeqProperties
  <2>3. Len(SubSeq(s, 1, n)) = n  BY <2>2
  <2>4. ASSUME NEW i \in 1 .. n PROVE SubSeq(s, 1, n)[i] = memory[(from + i - 1) % p]
    <3>1. i \in 1 .. n - 1 + 1 /\ 1 + i - 1 = i /\ i \in 1 .. k  OBVIOUS
    <3>2. SubSeq(s, 1, n)[i] = s[i]  BY <2>2, <3>1
    <3> QED  BY <1>1, <3>1, <3>2
  <2> QED  BY <2>1, <2>2, <2>3, <2>4, WindowEqual
<1>4. SubSeq(s, n + 1, k) = Window(memory, p, from + n, k - n)
  <2>1. /\ n + 1 \in Int /\ k \in Int /\ k - n \in Nat /\ from + n \in Nat
        /\ \A i \in n + 1 .. k : s[i] \in Cell
    BY <1>2
  <2>2. /\ SubSeq(s, n + 1, k) \in Seq(Cell)
        /\ Len(SubSeq(s, n + 1, k)) = IF n + 1 <= k THEN k - (n + 1) + 1 ELSE 0
        /\ \A i \in 1 .. k - (n + 1) + 1 : SubSeq(s, n + 1, k)[i] = s[n + 1 + i - 1]
    BY <2>1, SubSeqProperties
  <2>3. Len(SubSeq(s, n + 1, k)) = k - n  BY <2>2
  <2>4. ASSUME NEW i \in 1 .. k - n
        PROVE  SubSeq(s, n + 1, k)[i] = memory[(from + n + i - 1) % p]
    <3>1. /\ i \in 1 .. k - (n + 1) + 1 /\ n + 1 + i - 1 = n + i /\ n + i \in 1 .. k
          /\ from + (n + i) - 1 = from + n + i - 1
      OBVIOUS
    <3>2. SubSeq(s, n + 1, k)[i] = s[n + i]  BY <2>2, <3>1
    <3>3. s[n + i] = memory[(from + (n + i) - 1) % p]  BY <1>1, <3>1
    <3> QED  BY <3>1, <3>2, <3>3
  <2> QED  BY <2>1, <2>2, <2>3, <2>4, WindowEqual
<1> QED  BY <1>3, <1>4 DEF s

(***************************************************************************)
(* Copies in two parts                                                     *)
(***************************************************************************)

(* The parts of a caller: the first ends where the memory does, and the    *)
(* second begins where it begins, or there is no second.                   *)
InParts(p, at, first, rest, n) ==
  /\ first \in 0 .. p - at /\ rest \in Int
  /\ n <= first \/ (first = p - at /\ rest = 0)

(* A byte is written to the slot that lies as far behind "at" as it comes  *)
(* in the data, and every other slot is left alone.                        *)
LEMMA ScatterIs ==
  ASSUME NEW p \in PowersOfTwo, NEW memory \in Memory(p), NEW at \in 0 .. p - 1,
         NEW n \in 0 .. p, NEW data \in Seq(Byte), Len(data) = n,
         NEW first, NEW rest, InParts(p, at, first, rest, n)
  PROVE  /\ Scatter(memory, at, first, rest, data) \in Memory(p)
         /\ \A j \in 0 .. p - 1 :
               Scatter(memory, at, first, rest, data)[Ahead(p, at, j)] =
                  IF j < n THEN data[j + 1] ELSE memory[Ahead(p, at, j)]
<1>1. p \in Nat /\ p > 0  BY PowerIsNat
<1>2. DOMAIN memory = 0 .. p - 1 /\ \A i \in 0 .. p - 1 : memory[i] \in Cell  BY DEF Memory
<1>3. \A k \in 1 .. n : data[k] \in Cell  BY ElementOfSeq DEF Cell
<1>4. first \in Int /\ rest \in Int /\ first <= p - at /\ first >= 0
  BY <1>1 DEF InParts
<1> DEFINE m == Scatter(memory, at, first, rest, data)
           FirstPart(i) == i \in at .. at + Smaller(first, n) - 1
           LastPart(i) == i \in rest .. rest + n - first - 1
<1>5. m = [i \in 0 .. p - 1 |-> IF FirstPart(i) THEN data[i - at + 1]
                                ELSE IF LastPart(i) THEN data[first + i - rest + 1]
                                ELSE memory[i]]
  BY <1>2 DEF Scatter
<1>6. ASSUME NEW i \in 0 .. p - 1
      PROVE  /\ FirstPart(i) => i - at + 1 \in 1 .. n
             /\ ~FirstPart(i) /\ LastPart(i) => first + i - rest + 1 \in 1 .. n
  BY <1>1, <1>4 DEF Smaller, InParts
<1>7. ASSUME NEW i \in 0 .. p - 1 PROVE m[i] \in Cell
  BY <1>2, <1>3, <1>5, <1>6
<1>8. m \in Memory(p)  BY <1>5, <1>7 DEF Memory
<1>9. ASSUME NEW j \in 0 .. p - 1
      PROVE  m[Ahead(p, at, j)] = IF j < n THEN data[j + 1] ELSE memory[Ahead(p, at, j)]
  <2> DEFINE slot == Ahead(p, at, j)
  <2>1. slot \in 0 .. p - 1  BY <1>1 DEF Ahead
  <2>2. CASE j < n /\ j < first
    <3>1. FirstPart(slot) /\ slot - at + 1 = j + 1  BY <1>1, <1>4, <2>2 DEF Smaller, Ahead
    <3> HIDE DEF slot
    <3>2. m[slot] = data[slot - at + 1]  BY <1>5, <2>1, <3>1
    <3> QED  BY <2>2, <3>1, <3>2 DEF slot
  <2>3. CASE j < n /\ j >= first
    <3>1. first = p - at /\ rest = 0  BY <1>1, <1>4, <2>3 DEF InParts
    <3>2. ~FirstPart(slot) /\ LastPart(slot) /\ first + slot - rest + 1 = j + 1
      BY <1>1, <1>4, <2>3, <3>1 DEF Smaller, Ahead
    <3> HIDE DEF slot
    <3>3. m[slot] = data[first + slot - rest + 1]  BY <1>5, <2>1, <3>2
    <3> QED  BY <2>3, <3>2, <3>3 DEF slot
  <2>4. CASE j >= n
    <3>1. ~FirstPart(slot) /\ ~LastPart(slot)  BY <1>1, <1>4, <2>4 DEF Smaller, InParts, Ahead
    <3> HIDE DEF slot
    <3>2. m[slot] = memory[slot]  BY <1>5, <2>1, <3>1
    <3> QED  BY <2>4, <3>2 DEF slot
  <2>5. (j < n /\ j < first) \/ (j < n /\ j >= first) \/ j >= n  BY <1>4
  <2> QED  BY <2>2, <2>3, <2>4, <2>5, Zenon
<1> QED  BY <1>8, <1>9

(* What is written behind a window lands there, and leaves the window.     *)
Writable(p, memory, from, k, n, data, first, rest) ==
  /\ p \in PowersOfTwo /\ memory \in Memory(p) /\ from \in Nat /\ k \in Nat
  /\ n \in Nat /\ k + n <= p /\ data \in Seq(Byte) /\ Len(data) = n
  /\ InParts(p, (from + k) % p, first, rest, n)

LEMMA ScatterWindows ==
  ASSUME NEW p, NEW memory, NEW from, NEW k, NEW n, NEW data, NEW first, NEW rest,
         Writable(p, memory, from, k, n, data, first, rest),
         NEW new, new = Scatter(memory, (from + k) % p, first, rest, data)
  PROVE  /\ new \in Memory(p)
         /\ Window(new, p, from, k) = Window(memory, p, from, k)
         /\ Window(new, p, from + k, n) = data
<1>0. /\ p \in PowersOfTwo /\ memory \in Memory(p) /\ from \in Nat /\ k \in Nat
      /\ n \in Nat /\ k + n <= p /\ data \in Seq(Byte) /\ Len(data) = n
      /\ InParts(p, (from + k) % p, first, rest, n)
  BY DEF Writable
<1> SUFFICES ASSUME p \in PowersOfTwo, memory \in Memory(p), from \in Nat, k \in Nat,
                    n \in Nat, data \in Seq(Byte)
             PROVE  /\ new \in Memory(p)
                    /\ Window(new, p, from, k) = Window(memory, p, from, k)
                    /\ Window(new, p, from + k, n) = data
  BY <1>0
<1>1. p \in Nat /\ p > 0 /\ from + k \in Nat /\ n \in 0 .. p /\ k \in 0 .. p  BY <1>0, PowerIsNat
<1> DEFINE at == (from + k) % p
           a == from % p
<1>2. at \in 0 .. p - 1 /\ a \in 0 .. p - 1  BY <1>1, Remainder
<1>3. at = Ahead(p, a, k)  BY <1>1, SlotAhead
<1>4. /\ new \in Memory(p)
      /\ \A j \in 0 .. p - 1 :
            new[Ahead(p, at, j)] = IF j < n THEN data[j + 1] ELSE memory[Ahead(p, at, j)]
  <2>1. InParts(p, at, first, rest, n) /\ new = Scatter(memory, at, first, rest, data)  BY <1>0
  <2> HIDE DEF at
  <2> QED  BY <1>0, <1>1, <1>2, <2>1, ScatterIs
<1>5. ASSUME NEW i \in 1 .. n PROVE data[i] = new[(from + k + i - 1) % p]
  <2>1. i - 1 \in 0 .. p /\ i - 1 \in 0 .. p - 1 /\ i - 1 < n /\ (i - 1) + 1 = i  BY <1>1
  <2>2. (from + k + (i - 1)) % p = Ahead(p, at, i - 1)
    BY <1>1, <2>1, SlotAhead
  <2>3. from + k + (i - 1) = from + k + i - 1  OBVIOUS
  <2> HIDE DEF at
  <2>4. new[Ahead(p, at, i - 1)] = data[(i - 1) + 1]
    BY <1>4, <2>1
  <2> QED  BY <2>1, <2>2, <2>3, <2>4
<1>6. Window(new, p, from + k, n) = data
  <2>1. data \in Seq(Cell)  BY SeqMonotonic DEF Cell
  <2> QED  BY <1>0, <1>1, <1>4, <1>5, <2>1, WindowEqual
<1>7. ASSUME NEW i \in 1 .. k
      PROVE  new[(from + i - 1) % p] = memory[(from + i - 1) % p]
  <2>1. i - 1 \in 0 .. p  BY <1>1
  <2>2. (from + (i - 1)) % p = Ahead(p, a, i - 1)
    BY <1>1, <2>1, SlotAhead
  <2> DEFINE j == p - k + (i - 1)
             slot == Ahead(p, at, j)
  <2>3. j \in 0 .. p - 1 /\ ~(j < n)  BY <1>0, <1>1
  <2> HIDE DEF at, a
  <2>4. slot = Ahead(p, a, i - 1)
    BY <1>1, <1>2, <1>3 DEF Ahead
  <2> HIDE DEF j
  <2>5. new[slot] = memory[slot]  BY <1>4, <2>3
  <2> HIDE DEF slot
  <2>6. from + (i - 1) = from + i - 1  OBVIOUS
  <2> QED  BY <2>2, <2>4, <2>5, <2>6
<1>8. Window(new, p, from, k) = Window(memory, p, from, k)  BY <1>7 DEF Window
<1> QED  BY <1>4, <1>6, <1>8

(* What is read at the front of a window is the front of it.               *)
LEMMA GatherWindow ==
  ASSUME NEW p \in PowersOfTwo, NEW memory \in Memory(p), NEW from \in Nat, NEW n \in 0 .. p,
         NEW first, NEW rest, InParts(p, from % p, first, rest, n)
  PROVE  Gather(memory, from % p, first, rest, n) = Window(memory, p, from, n)
<1>1. p \in Nat /\ p > 0  BY PowerIsNat
<1> DEFINE a == from % p
<1>2. a \in 0 .. p - 1  BY <1>1, Remainder
<1>3. first \in Int /\ rest \in Int /\ first <= p - a /\ first >= 0
  BY <1>1, <1>2 DEF InParts
<1>4. ASSUME NEW i \in 1 .. n
      PROVE  (IF i <= first THEN memory[a + i - 1] ELSE memory[rest + i - first - 1]) =
                memory[(from + i - 1) % p]
  <2>1. i - 1 \in 0 .. p /\ from + (i - 1) = from + i - 1  BY <1>1
  <2>2. (from + (i - 1)) % p = Ahead(p, a, i - 1)
    BY <1>1, <2>1, SlotAhead
  <2>3. i <= first => a + i - 1 = Ahead(p, a, i - 1)
    <3> HIDE DEF a
    <3> QED  BY <1>1, <1>2, <1>3 DEF Ahead
  <2>4. ~(i <= first) => rest + i - first - 1 = Ahead(p, a, i - 1)
    <3>1. ~(i <= first) => first = p - a /\ rest = 0  BY <1>1, <1>3 DEF InParts
    <3> HIDE DEF a
    <3> QED  BY <1>1, <1>2, <1>3, <3>1 DEF Ahead
  <2> HIDE DEF a
  <2> QED  BY <2>1, <2>2, <2>3, <2>4
<1> QED  BY <1>4 DEF Gather, Window

(***************************************************************************)
(* One buffer: its memory m, capacity c, mask k, indices r and w, and the  *)
(* number l of bytes that landed behind the queue                          *)
(***************************************************************************)
Sound(m, c, k, r, w, l) ==
  /\ r \in Index /\ w \in Index
  /\ k \in {p - 1 : p \in PowersOfTwo}
  /\ c \in Nat /\ c <= MaxSize /\ l \in Nat /\ Apart(r, w) + l <= c
  /\ IF m = NoMemory THEN c = 0
     ELSE c \in PowersOfTwo /\ c = k + 1 /\ m \in Memory(c)

Queued(m, k, r, w) == Window(m, k + 1, r, Apart(r, w))
Behind(m, k, w, l) == Window(m, k + 1, w, l)

LEMMA NotNoMemory ==
  ASSUME NEW p \in PowersOfTwo, NEW m \in Memory(p)
  PROVE  m # NoMemory
BY MemoryAssumption DEF Memory

(* A capacity is less than what the difference of two indices can be.      *)
LEMMA SoundIs ==
  ASSUME NEW m, NEW c, NEW k, NEW r, NEW w, NEW l, Sound(m, c, k, r, w, l)
  PROVE  /\ r \in Index /\ w \in Index
         /\ r \in Nat /\ w \in Nat /\ c \in Nat /\ l \in Nat
         /\ Apart(r, w) \in Nat /\ Apart(r, w) + l <= c /\ c < IndexMod
         /\ k + 1 \in PowersOfTwo
         /\ w = (r + Apart(r, w)) % IndexMod
         /\ r + Apart(r, w) \in Nat /\ r + Apart(r, w) < 2 * IndexMod
<1>1. r \in Index /\ w \in Index /\ c \in Nat /\ l \in Nat /\ Apart(r, w) + l <= c /\ c <= MaxSize
  BY DEF Sound
<1>2. /\ Apart(r, w) \in Index /\ w = (r + Apart(r, w)) % IndexMod
      /\ Apart(r, w) = IF w >= r THEN w - r ELSE w - r + IndexMod
  BY <1>1, ApartIs
<1>3. MaxSize \in Nat /\ MaxSize >= 1 /\ 2 * MaxSize <= IndexMod  BY MaxSizeIs, HalfAtMost
<1>4. IndexMod \in Nat /\ Index \subseteq Nat /\ r < IndexMod /\ Apart(r, w) < IndexMod
  BY <1>1, <1>2, IndexIs DEF Index
<1>5. \A p \in PowersOfTwo : p - 1 + 1 = p  BY PowersAre
<1>6. k + 1 \in PowersOfTwo  BY <1>5 DEF Sound
<1>7. c < IndexMod  BY <1>1, <1>3, <1>4
<1> DEFINE u == Apart(r, w)
<1>8. u \in Nat /\ r \in Nat /\ w \in Nat  BY <1>1, <1>2, <1>4
<1> HIDE DEF u
<1>9. r + u \in Nat /\ r + u < 2 * IndexMod  BY <1>4, <1>8 DEF u
<1> QED  BY <1>1, <1>2, <1>6, <1>7, <1>8, <1>9 DEF u

(* Without memory there is nothing in it. *)
LEMMA SoundWithout ==
  ASSUME NEW m, NEW c, NEW k, NEW r, NEW w, NEW l, Sound(m, c, k, r, w, l), m = NoMemory
  PROVE  Apart(r, w) = 0 /\ l = 0 /\ c = 0 /\ Queued(m, k, r, w) = << >> /\ Behind(m, k, w, l) = << >>
<1>1. c = 0 /\ Apart(r, w) \in Nat /\ l \in Nat /\ Apart(r, w) + l <= c
  BY SoundIs DEF Sound
<1>2. Apart(r, w) = 0 /\ l = 0  BY <1>1
<1> QED  BY <1>1, <1>2, WindowEmpty DEF Queued, Behind

LEMMA QueuedIs ==
  ASSUME NEW m, NEW c, NEW k, NEW r, NEW w, NEW l, Sound(m, c, k, r, w, l)
  PROVE  /\ Queued(m, k, r, w) \in Seq(Cell) /\ Len(Queued(m, k, r, w)) = Apart(r, w)
         /\ Behind(m, k, w, l) \in Seq(Cell) /\ Len(Behind(m, k, w, l)) = l
<1>1. CASE m = NoMemory
  <2>1. Queued(m, k, r, w) = << >> /\ Behind(m, k, w, l) = << >> /\ Apart(r, w) = 0 /\ l = 0
    BY <1>1, SoundWithout
  <2> QED  BY <2>1, EmptySeq
<1>2. CASE m # NoMemory
  <2>1. k + 1 \in PowersOfTwo /\ m \in Memory(k + 1)  BY <1>2 DEF Sound
  <2> QED  BY <2>1, SoundIs, WindowIs DEF Queued, Behind
<1> QED  BY <1>1, <1>2

(* Reading n bytes *)
LEMMA Dropped ==
  ASSUME NEW m, NEW c, NEW k, NEW r, NEW w, NEW l, Sound(m, c, k, r, w, l),
         NEW n \in 0 .. Apart(r, w)
  PROVE  /\ Sound(m, c, k, Advance(r, n), w, l)
         /\ Queued(m, k, Advance(r, n), w) =
               SubSeq(Queued(m, k, r, w), n + 1, Len(Queued(m, k, r, w)))
<1> DEFINE u == Apart(r, w)
<1>1. r \in Index /\ w \in Index /\ r \in Nat /\ u \in Nat /\ n \in Nat /\ n <= u /\ u + l <= c /\ l \in Nat /\ c \in Nat
  BY SoundIs
<1>2. Advance(r, n) \in Index /\ Apart(Advance(r, n), w) = u - n /\ r + n < 2 * IndexMod
  BY <1>1, ReadAdvances
<1>3. Sound(m, c, k, Advance(r, n), w, l)
  <2> HIDE DEF u
  <2>1. u - n + l <= c  BY <1>1
  <2> QED  BY <1>2, <2>1 DEF Sound
<1>4. Len(Queued(m, k, r, w)) = u  BY QueuedIs
<1>5. CASE m = NoMemory
  <2>1. u = 0 /\ Queued(m, k, r, w) = << >>  BY <1>5, SoundWithout
  <2>2. Queued(m, k, Advance(r, n), w) = << >>  BY <1>3, <1>5, SoundWithout
  <2>3. SubSeq(<< >>, n + 1, 0) = << >>
    <3>1. n + 1 \in Int /\ 0 \in Int /\ 0 < n + 1  BY <1>1
    <3> QED  BY <3>1, SubSeqEmpty
  <2> QED  BY <1>3, <1>4, <2>1, <2>2, <2>3
<1>6. CASE m # NoMemory
  <2> DEFINE p == k + 1
  <2>1. p \in PowersOfTwo /\ m \in Memory(p)  BY <1>6 DEF Sound
  <2>2. Queued(m, k, Advance(r, n), w) = Window(m, p, Advance(r, n), u - n)
    BY <1>2 DEF Queued
  <2> HIDE DEF u, p
  <2>3. r + n \in Nat /\ u - n \in Nat /\ n \in 0 .. u  BY <1>1
  <2>4. Window(m, p, Advance(r, n), u - n) = Window(m, p, r + n, u - n)
    BY <1>2, <2>1, <2>3, WindowWrapped DEF Advance
  <2>5. SubSeq(Window(m, p, r, u), n + 1, u) = Window(m, p, r + n, u - n)
    <3>1. \A x, y \in Nat : \A z \in 0 .. y :
             SubSeq(Window(m, p, x, y), z + 1, y) = Window(m, p, x + z, y - z)
      BY <2>1, WindowPart
    <3> QED  BY <1>1, <2>3, <3>1, Zenon
  <2>6. Queued(m, k, r, w) = Window(m, p, r, u)  BY DEF Queued, u, p
  <2> QED  BY <1>3, <1>4, <2>2, <2>4, <2>5, <2>6
<1> QED  BY <1>5, <1>6

LEMMA Copies ==
  ASSUME NEW m, NEW c, NEW k, NEW r, NEW w, NEW l, Sound(m, c, k, r, w, l), m # NoMemory,
         NEW n \in 0 .. Apart(r, w), NEW first, NEW rest, InParts(c, r % c, first, rest, n)
  PROVE  /\ Gather(m, r % c, first, rest, n) = SubSeq(Queued(m, k, r, w), 1, n)
         /\ Len(SubSeq(Queued(m, k, r, w), 1, n)) = n
<1>1. c \in PowersOfTwo /\ c = k + 1 /\ m \in Memory(c)  BY DEF Sound
<1> DEFINE u == Apart(r, w)
<1>2. r \in Nat /\ u \in Nat /\ n \in 0 .. u /\ u <= c /\ c \in Nat /\ n \in Nat  BY SoundIs
<1>3. SubSeq(Window(m, c, r, u), 1, n) = Window(m, c, r, n)
  <2> HIDE DEF u
  <2> QED  BY <1>1, <1>2, WindowPart
<1>4. n \in 0 .. c
  <2> HIDE DEF u
  <2> QED  BY <1>2
<1>5. Gather(m, r % c, first, rest, n) = Window(m, c, r, n)  BY <1>1, <1>2, <1>4, GatherWindow
<1>6. Len(Window(m, c, r, n)) = n  BY <1>1, <1>2, WindowIs
<1> QED  BY <1>1, <1>3, <1>5, <1>6 DEF Queued

(* Writing n bytes behind the queue *)
LEMMA WrittenBehind ==
  ASSUME NEW m, NEW c, NEW k, NEW r, NEW w, Sound(m, c, k, r, w, 0), m # NoMemory,
         NEW n \in Nat, Apart(r, w) + n <= c, NEW data \in Seq(Byte), Len(data) = n,
         NEW first, NEW rest, InParts(c, w % c, first, rest, n),
         NEW new, new = Scatter(m, w % c, first, rest, data)
  PROVE  /\ Sound(new, c, k, r, w, n)
         /\ Queued(new, k, r, w) = Queued(m, k, r, w)
         /\ Behind(new, k, w, n) = data
<1>1. c \in PowersOfTwo /\ c = k + 1 /\ m \in Memory(c)  BY DEF Sound
<1> DEFINE u == Apart(r, w)
<1>2. /\ r \in Nat /\ u \in Nat /\ w = (r + u) % IndexMod
      /\ r + u \in Nat /\ r + u < 2 * IndexMod
  BY SoundIs
<1>3. w % c = (r + u) % c
  <2> DEFINE x == r + u
  <2>1. x \in Nat /\ x < 2 * IndexMod /\ w = x % IndexMod /\ 0 \in Nat  BY <1>2
  <2> HIDE DEF x
  <2>2. ((x % IndexMod) + 0) % c = (x + 0) % c  BY <1>1, <2>1, SlotOfWrapped
  <2>3. (x % IndexMod) + 0 = w /\ x + 0 = x
    <3>1. w \in Nat  BY SoundIs
    <3> QED  BY <2>1, <3>1
  <2> QED  BY <2>2, <2>3 DEF x
<1>4. /\ new \in Memory(c)
      /\ Window(new, c, r, u) = Window(m, c, r, u)
      /\ Window(new, c, r + u, n) = data
  <2>1. InParts(c, (r + u) % c, first, rest, n) /\ new = Scatter(m, (r + u) % c, first, rest, data)
    BY <1>3
  <2>2. Writable(c, m, r, u, n, data, first, rest)  BY <1>1, <1>2, <2>1 DEF Writable
  <2> HIDE DEF u
  <2> QED  BY <2>1, <2>2, ScatterWindows
<1>5. Window(new, c, w, n) = Window(new, c, r + u, n)
  <2> HIDE DEF u
  <2> QED  BY <1>1, <1>2, WindowWrapped
<1>6. new # NoMemory  BY <1>1, <1>4, NotNoMemory
<1>7. Sound(new, c, k, r, w, n)  BY <1>1, <1>4, <1>6 DEF Sound
<1> QED  BY <1>1, <1>4, <1>5, <1>7 DEF Queued, Behind

(* What landed becomes part of the queue. *)
Advances(w, n, moved) == moved = Advance(w, n)

LEMMA Committed ==
  ASSUME NEW m, NEW c, NEW k, NEW r, NEW w, NEW l, Sound(m, c, k, r, w, l),
         NEW moved, Advances(w, l, moved)
  PROVE  /\ Sound(m, c, k, r, moved, 0)
         /\ Queued(m, k, r, moved) = Queued(m, k, r, w) \o Behind(m, k, w, l)
<1> DEFINE u == Apart(r, w)
<1>1. /\ r \in Index /\ w \in Index /\ r \in Nat /\ u \in Nat /\ l \in Nat /\ c \in Nat
      /\ u + l <= c /\ c < IndexMod /\ w = (r + u) % IndexMod
      /\ r + u \in Nat /\ r + u < 2 * IndexMod
  BY SoundIs
<1>2. u + l < IndexMod
  <2>1. IndexMod \in Nat  BY IndexIs
  <2> HIDE DEF u
  <2> QED  BY <1>1, <2>1
<1>3. moved \in Index /\ Apart(r, moved) = u + l
  BY <1>1, <1>2, WriteAdvances DEF Advances
<1>4. Sound(m, c, k, r, moved, 0)
  <2> HIDE DEF u
  <2>1. u + l + 0 <= c  BY <1>1
  <2> QED  BY <1>3, <2>1 DEF Sound
<1>5. CASE m = NoMemory
  <2>1. Queued(m, k, r, w) = << >> /\ Behind(m, k, w, l) = << >>  BY <1>5, SoundWithout
  <2>2. Queued(m, k, r, moved) = << >>  BY <1>4, <1>5, SoundWithout
  <2>3. << >> \o << >> = << >>
    <3>1. << >> \in Seq(Cell)  BY EmptySeq
    <3> QED  BY <3>1, ConcatEmptySeq
  <2> QED  BY <1>4, <2>1, <2>2, <2>3
<1>6. CASE m # NoMemory
  <2> DEFINE p == k + 1
  <2>1. p \in PowersOfTwo /\ m \in Memory(p)  BY <1>6 DEF Sound
  <2>2. Queued(m, k, r, moved) = Window(m, p, r, u + l)  BY <1>3 DEF Queued
  <2>3. Queued(m, k, r, w) = Window(m, p, r, u) /\ Behind(m, k, w, l) = Window(m, p, w, l)
    BY DEF Queued, Behind
  <2> HIDE DEF u, p
  <2>4. Window(m, p, w, l) = Window(m, p, r + u, l)  BY <1>1, <2>1, WindowWrapped
  <2>5. \A x, y, z \in Nat : Window(m, p, x, y) \o Window(m, p, x + y, z) = Window(m, p, x, y + z)
    BY <2>1, WindowJoined
  <2>6. Window(m, p, r, u) \o Window(m, p, r + u, l) = Window(m, p, r, u + l)
    BY <1>1, <2>5, Zenon
  <2> QED  BY <1>4, <2>2, <2>3, <2>4, <2>6
<1> QED  BY <1>5, <1>6

(***************************************************************************)
(* All buffers                                                             *)
(***************************************************************************)

(* The inductive invariant: no capacity is larger than a buffer that was   *)
(* asked for needs.                                                        *)
IInv == TypeOK /\ WithinCapacity /\ \A b \in Buffer : capacity[b] <= MaxSize

Fcn(f) == f = [b \in Buffer |-> f[b]]
Fcns == Fcn(buffer) /\ Fcn(capacity) /\ Fcn(mask) /\ Fcn(read_index) /\ Fcn(write_index) /\ Fcn(landed)

AllSound == Fcns /\ next_byte \in Byte /\ \A b \in Buffer :
  Sound(buffer[b], capacity[b], mask[b], read_index[b], write_index[b], landed[b])
SoundBuffer(b) == Sound(buffer[b], capacity[b], mask[b], read_index[b], write_index[b], landed[b])

LEMMA SizesApart == \A b : Used_size(b) = Apart(read_index[b], write_index[b])
BY DEF Used_size, Apart

LEMMA MaxSizeIsNat == MaxSize \in Nat
BY MaxSizeIs, PowersAre

(* The invariant, one buffer at a time *)
LEMMA IInvIs == IInv <=> AllSound
<1>1. ASSUME IInv, NEW b \in Buffer PROVE SoundBuffer(b)
  <2>0. /\ read_index[b] \in Index /\ write_index[b] \in Index
        /\ mask[b] \in {p - 1 : p \in PowersOfTwo} /\ capacity[b] \in PowersOfTwo \cup {0}
        /\ landed[b] \in 0 .. MaxSize /\ capacity[b] <= MaxSize
    BY <1>1, Zenon DEF IInv, TypeOK, Index
  <2>1. /\ read_index[b] \in Index /\ write_index[b] \in Index
        /\ mask[b] \in {p - 1 : p \in PowersOfTwo} /\ capacity[b] \in PowersOfTwo \cup {0}
        /\ landed[b] \in Nat /\ capacity[b] <= MaxSize
    BY <2>0, MaxSizeIsNat
  <2>2. capacity[b] \in Nat  BY <2>1, PowerIsNat
  <2>3. Apart(read_index[b], write_index[b]) + landed[b] <= capacity[b]
    BY <1>1, SizesApart DEF IInv, WithinCapacity
  <2>4. IF buffer[b] = NoMemory THEN capacity[b] = 0
        ELSE capacity[b] = mask[b] + 1 /\ buffer[b] \in Memory(capacity[b])
    BY <1>1 DEF IInv, TypeOK, Memory
  <2>5. \A p \in PowersOfTwo : p - 1 + 1 = p  BY PowersAre
  <2>6. mask[b] + 1 \in PowersOfTwo  BY <2>1, <2>5
  <2> QED  BY <2>1, <2>2, <2>3, <2>4, <2>6 DEF SoundBuffer, Sound
<1>2. IInv => Fcns /\ next_byte \in Byte
  BY DEF IInv, TypeOK, Fcns, Fcn
<1>3. ASSUME Fcns, next_byte \in Byte, \A b \in Buffer : SoundBuffer(b) PROVE IInv
  <2>1. ASSUME NEW b \in Buffer
        PROVE  /\ capacity[b] \in PowersOfTwo \cup {0}
               /\ mask[b] \in {p - 1 : p \in PowersOfTwo}
               /\ read_index[b] \in 0 .. IndexMod - 1 /\ write_index[b] \in 0 .. IndexMod - 1
               /\ landed[b] \in 0 .. MaxSize
               /\ IF buffer[b] = NoMemory THEN capacity[b] = 0
                  ELSE buffer[b] \in [0 .. capacity[b] - 1 -> Cell] /\ capacity[b] = mask[b] + 1
               /\ Used_size(b) + landed[b] <= capacity[b] /\ capacity[b] <= MaxSize
    <3>1. SoundBuffer(b)  BY <1>3
    <3>2. /\ Apart(read_index[b], write_index[b]) \in Nat /\ landed[b] \in Nat /\ capacity[b] \in Nat
          /\ Apart(read_index[b], write_index[b]) + landed[b] <= capacity[b]
      BY <3>1, SoundIs DEF SoundBuffer
    <3>3. capacity[b] <= MaxSize  BY <3>1 DEF SoundBuffer, Sound
    <3>4. landed[b] \in 0 .. MaxSize  BY <3>2, <3>3, MaxSizeIsNat
    <3> QED  BY <3>1, <3>2, <3>3, <3>4, SizesApart DEF SoundBuffer, Sound, Index, Memory
  <2>2. ASSUME NEW b \in Buffer
        PROVE  buffer[b] \in {NoMemory} \cup UNION {[0 .. p - 1 -> Cell] : p \in PowersOfTwo}
    <3>1. SoundBuffer(b)  BY <1>3
    <3>2. CASE buffer[b] = NoMemory  BY <3>2
    <3>3. CASE buffer[b] # NoMemory
      <4>1. capacity[b] \in PowersOfTwo /\ buffer[b] \in [0 .. capacity[b] - 1 -> Cell]
        BY <3>1, <3>3 DEF SoundBuffer, Sound, Memory
      <4> QED  BY <4>1, Zenon
    <3> QED  BY <3>2, <3>3
  <2>3. /\ capacity \in [Buffer -> PowersOfTwo \cup {0}]
        /\ mask \in [Buffer -> {p - 1 : p \in PowersOfTwo}]
        /\ read_index \in [Buffer -> 0 .. IndexMod - 1]
        /\ write_index \in [Buffer -> 0 .. IndexMod - 1]
        /\ landed \in [Buffer -> 0 .. MaxSize]
    <3> DEFINE Masks == {p - 1 : p \in PowersOfTwo}
    <3>1. \A b \in Buffer : mask[b] \in Masks  BY <2>1
    <3> HIDE DEF Masks
    <3>2. mask \in [Buffer -> Masks]  BY <1>3, <3>1 DEF Fcns, Fcn
    <3> QED  BY <1>3, <2>1, <3>2 DEF Fcns, Fcn, Masks
  <2>4. buffer \in [Buffer -> {NoMemory} \cup UNION {[0 .. p - 1 -> Cell] : p \in PowersOfTwo}]
    <3> DEFINE Memories == {NoMemory} \cup UNION {[0 .. p - 1 -> Cell] : p \in PowersOfTwo}
    <3>1. \A b \in Buffer : buffer[b] \in Memories  BY <2>2
    <3> HIDE DEF Memories
    <3>2. buffer \in [Buffer -> Memories]  BY <1>3, <3>1 DEF Fcns, Fcn
    <3> QED  BY <3>2 DEF Memories
  <2>5. TypeOK  BY <1>3, <2>1, <2>3, <2>4, Zenon DEF TypeOK
  <2> QED  BY <2>1, <2>5 DEF IInv, WithinCapacity
<1> QED  BY <1>1, <1>2, <1>3 DEF AllSound, SoundBuffer

(* What the queue and what landed are *)
LEMMA ContentsAre ==
  /\ Contents = [b \in Buffer |-> Queued(buffer[b], mask[b], read_index[b], write_index[b])]
  /\ Landing = [b \in Buffer |-> Behind(buffer[b], mask[b], write_index[b], landed[b])]
<1>2. Contents = [b \in Buffer |-> Queued(buffer[b], mask[b], read_index[b], write_index[b])]
  BY SizesApart DEF Contents, Queued, Window, Between, Slot
<1>3. Landing = [b \in Buffer |-> Behind(buffer[b], mask[b], write_index[b], landed[b])]
  BY DEF Landing, Behind, Window, Between, Slot
<1> QED  BY <1>2, <1>3

(* One buffer comes to have these values, and the others are as they were. *)
Puts(g, f, b, v) == g = [f EXCEPT ![b] = v]
Becomes(b, m, c, k, r, w, l) ==
  /\ Puts(buffer', buffer, b, m) /\ Puts(capacity', capacity, b, c)
  /\ Puts(mask', mask, b, k) /\ Puts(read_index', read_index, b, r)
  /\ Puts(write_index', write_index, b, w) /\ Puts(landed', landed, b, l)

LEMMA Updated ==
  ASSUME NEW f, Fcn(f), NEW b \in Buffer, NEW v, NEW g, Puts(g, f, b, v)
  PROVE  Fcn(g) /\ g[b] = v /\ \A c \in Buffer \ {b} : g[c] = f[c]
BY DEF Fcn, Puts

LEMMA Stays ==
  ASSUME NEW f, Fcn(f), NEW b \in Buffer
  PROVE  Puts(f, f, b, f[b])
BY DEF Fcn, Puts

LEMMA OneBecomes ==
  ASSUME IInv, NEW b \in Buffer, NEW m, NEW c, NEW k, NEW r, NEW w, NEW l,
         Becomes(b, m, c, k, r, w, l), Sound(m, c, k, r, w, l), next_byte' \in Byte
  PROVE  /\ IInv'
         /\ Contents' = [Contents EXCEPT ![b] = Queued(m, k, r, w)]
         /\ Landing' = [Landing EXCEPT ![b] = Behind(m, k, w, l)]
<1>1. Fcns /\ \A d \in Buffer : SoundBuffer(d)  BY IInvIs DEF AllSound, SoundBuffer
<1>2. /\ Fcn(buffer') /\ buffer'[b] = m /\ \A d \in Buffer \ {b} : buffer'[d] = buffer[d]
      /\ Fcn(capacity') /\ capacity'[b] = c /\ \A d \in Buffer \ {b} : capacity'[d] = capacity[d]
      /\ Fcn(mask') /\ mask'[b] = k /\ \A d \in Buffer \ {b} : mask'[d] = mask[d]
      /\ Fcn(read_index') /\ read_index'[b] = r
      /\ \A d \in Buffer \ {b} : read_index'[d] = read_index[d]
      /\ Fcn(write_index') /\ write_index'[b] = w
      /\ \A d \in Buffer \ {b} : write_index'[d] = write_index[d]
      /\ Fcn(landed') /\ landed'[b] = l /\ \A d \in Buffer \ {b} : landed'[d] = landed[d]
  <2>1. ASSUME NEW f, NEW g, NEW v, Fcn(f), Puts(g, f, b, v)
        PROVE  Fcn(g) /\ g[b] = v /\ \A d \in Buffer \ {b} : g[d] = f[d]
    BY <2>1, Updated
  <2>2. Fcn(buffer') /\ buffer'[b] = m /\ \A d \in Buffer \ {b} : buffer'[d] = buffer[d]
    BY <1>1, <2>1 DEF Becomes, Fcns
  <2>3. Fcn(capacity') /\ capacity'[b] = c /\ \A d \in Buffer \ {b} : capacity'[d] = capacity[d]
    BY <1>1, <2>1 DEF Becomes, Fcns
  <2>4. Fcn(mask') /\ mask'[b] = k /\ \A d \in Buffer \ {b} : mask'[d] = mask[d]
    BY <1>1, <2>1 DEF Becomes, Fcns
  <2>5. /\ Fcn(read_index') /\ read_index'[b] = r
        /\ \A d \in Buffer \ {b} : read_index'[d] = read_index[d]
    BY <1>1, <2>1 DEF Becomes, Fcns
  <2>6. /\ Fcn(write_index') /\ write_index'[b] = w
        /\ \A d \in Buffer \ {b} : write_index'[d] = write_index[d]
    BY <1>1, <2>1 DEF Becomes, Fcns
  <2>7. Fcn(landed') /\ landed'[b] = l /\ \A d \in Buffer \ {b} : landed'[d] = landed[d]
    BY <1>1, <2>1 DEF Becomes, Fcns
  <2> QED  BY <2>2, <2>3, <2>4, <2>5, <2>6, <2>7
<1>3. \A d \in Buffer : SoundBuffer(d)'
  BY <1>1, <1>2 DEF SoundBuffer
<1>4. Fcns'  BY <1>2 DEF Fcns, Fcn
<1>5. IInv'
  <2>1. AllSound'  BY <1>3, <1>4 DEF AllSound, SoundBuffer
  <2> QED  BY <2>1, IInvIs, PTL
<1>6. (Contents = [d \in Buffer |-> Queued(buffer[d], mask[d], read_index[d], write_index[d])])'
  BY DEF Contents, Queued, Window, Between, Slot, Used_size, Apart
<1>7. (Landing = [d \in Buffer |-> Behind(buffer[d], mask[d], write_index[d], landed[d])])'
  BY DEF Landing, Behind, Window, Between, Slot
<1>8. Contents' = [Contents EXCEPT ![b] = Queued(m, k, r, w)]
  BY <1>2, <1>6, ContentsAre
<1>9. Landing' = [Landing EXCEPT ![b] = Behind(m, k, w, l)]
  BY <1>2, <1>7, ContentsAre
<1> QED  BY <1>5, <1>8, <1>9

(***************************************************************************)
(* What a buffer of the invariant is like                                  *)
(***************************************************************************)
LEMMA BufferIs ==
  ASSUME IInv, NEW b \in Buffer
  PROVE  /\ Fcns /\ next_byte \in Byte /\ SoundBuffer(b)
         /\ Contents[b] = Queued(buffer[b], mask[b], read_index[b], write_index[b])
         /\ Landing[b] = Behind(buffer[b], mask[b], write_index[b], landed[b])
         /\ Used_size(b) = Apart(read_index[b], write_index[b])
         /\ Used_size(b) \in Nat /\ landed[b] \in Nat /\ capacity[b] \in Nat
         /\ Used_size(b) + landed[b] <= capacity[b]
         /\ Len(Contents[b]) = Used_size(b) /\ Contents[b] \in Seq(Cell)
         /\ Landing[b] = << >> <=> landed[b] = 0
         /\ Free_size(b) = capacity[b] - Used_size(b) /\ Free_size(b) \in Nat
         /\ Queue!Room(b) = Free_size(b)
         /\ buffer[b] = NoMemory => capacity[b] = 0
         /\ buffer[b] # NoMemory => capacity[b] \in PowersOfTwo /\ mask[b] + 1 = capacity[b]
<1>1. Fcns /\ next_byte \in Byte /\ SoundBuffer(b)  BY IInvIs DEF AllSound, SoundBuffer
<1>2. /\ Contents[b] = Queued(buffer[b], mask[b], read_index[b], write_index[b])
      /\ Landing[b] = Behind(buffer[b], mask[b], write_index[b], landed[b])
  BY ContentsAre
<1>3. Used_size(b) = Apart(read_index[b], write_index[b])  BY SizesApart
<1>4. /\ Used_size(b) \in Nat /\ landed[b] \in Nat /\ capacity[b] \in Nat
      /\ Used_size(b) + landed[b] <= capacity[b] /\ capacity[b] < IndexMod
  BY <1>1, <1>3, SoundIs DEF SoundBuffer
<1>5. /\ Contents[b] \in Seq(Cell) /\ Len(Contents[b]) = Used_size(b)
      /\ Landing[b] \in Seq(Cell) /\ Len(Landing[b]) = landed[b]
  BY <1>1, <1>2, <1>3, QueuedIs DEF SoundBuffer
<1>6. Landing[b] = << >> <=> landed[b] = 0
  <2>1. Len(<< >>) = 0  BY EmptySeq
  <2>2. Landing[b] # << >> => Len(Landing[b]) \in Nat \ {0}  BY <1>5, EmptySeq
  <2> QED  BY <1>5, <2>1, <2>2
<1>7. Free_size(b) = capacity[b] - Used_size(b) /\ Free_size(b) \in Nat
  <2> DEFINE free == capacity[b] - Used_size(b)
  <2>1. free \in 0 .. IndexMod - 1 /\ IndexMod \in Nat /\ IndexMod > 0  BY <1>4, IndexIs
  <2>2. Free_size(b) = free % IndexMod  BY DEF Free_size
  <2> HIDE DEF free
  <2>3. Free_size(b) = free /\ free \in Nat  BY <2>1, <2>2, RemainderNear
  <2> QED  BY <2>3 DEF free
<1>8. Queue!Room(b) = Free_size(b)  BY <1>5, <1>7 DEF Queue!Room
<1>9. /\ buffer[b] = NoMemory => capacity[b] = 0
      /\ buffer[b] # NoMemory => capacity[b] \in PowersOfTwo /\ mask[b] + 1 = capacity[b]
  BY <1>1 DEF SoundBuffer, Sound
<1> QED  BY <1>1, <1>2, <1>3, <1>4, <1>5, <1>6, <1>7, <1>8, <1>9

LEMMA ChunkIs ==
  ASSUME next_byte \in Byte, NEW n \in Nat
  PROVE  /\ Chunk(n) \in Seq(Byte) /\ Len(Chunk(n)) = n
         /\ Queue!Chunk(n) = Chunk(n)
         /\ (next_byte + n) % ByteMod \in Byte
<1>1. ByteMod \in Nat /\ ByteMod > 0 /\ next_byte \in Nat  BY ByteAssumption DEF Byte
<1>2. \A x \in Int : x % ByteMod \in Byte  BY <1>1, Remainder DEF Byte
<1>3. \A i \in 1 .. n : (next_byte + i - 1) % ByteMod \in Byte  BY <1>1, <1>2
<1>4. Chunk(n) \in [1 .. n -> Byte]  BY <1>3 DEF Chunk
<1>5. Chunk(n) \in Seq(Byte)  BY <1>4, SeqDef
<1>6. Len(Chunk(n)) = n
  <2> DEFINE m == Len(Chunk(n))
  <2>1. m \in Nat /\ DOMAIN Chunk(n) = 1 .. m  BY <1>5, LenProperties
  <2>2. DOMAIN Chunk(n) = 1 .. n  BY DEF Chunk
  <2> HIDE DEF m
  <2>3. 1 .. m = 1 .. n  BY <2>1, <2>2
  <2>4. m = n  BY <2>1, <2>3
  <2> QED  BY <2>4 DEF m
<1>7. (next_byte + n) % ByteMod \in Byte  BY <1>1, <1>2
<1> QED  BY <1>5, <1>6, <1>7 DEF Chunk, Queue!Chunk

(***************************************************************************)
(* The parts that callers copy                                             *)
(***************************************************************************)
LEMMA SpaceToEnd ==
  ASSUME NEW p \in PowersOfTwo, NEW b \in Buffer, capacity[b] = p, mask[b] + 1 = p, NEW x \in Nat
  PROVE  /\ Slot(b, x) = x % p /\ Slot(b, x) \in 0 .. p - 1
         /\ Space_to_end(b, x) = p - Slot(b, x) /\ Space_to_end(b, x) \in 1 .. p
<1>1. p \in Nat /\ p > 0  BY PowerIsNat
<1>2. Slot(b, x) = x % p  BY DEF Slot
<1>3. x % p \in 0 .. p - 1  BY <1>1, Remainder
<1> DEFINE a == Slot(b, x)
<1>4. a \in 0 .. p - 1 /\ Space_to_end(b, x) = p - a  BY <1>2, <1>3 DEF Space_to_end
<1> HIDE DEF a
<1>5. p - a \in 1 .. p  BY <1>1, <1>4
<1> QED  BY <1>2, <1>3, <1>4, <1>5 DEF a

LEMMA PartsOfCopy ==
  ASSUME NEW p \in PowersOfTwo, NEW b \in Buffer, capacity[b] = p, mask[b] + 1 = p,
         NEW x \in Nat, NEW n \in Nat
  PROVE  InParts(p, x % p, Space_to_end(b, x), 0, n)
<1> DEFINE a == x % p
<1>1. p \in Nat /\ a \in 0 .. p - 1 /\ Space_to_end(b, x) = p - a  BY SpaceToEnd, PowerIsNat
<1> HIDE DEF a
<1>2. InParts(p, a, p - a, 0, n)  BY <1>1 DEF InParts
<1> QED  BY <1>1, <1>2 DEF a

(* Of a caller that uses the direct size: "size" is what it may use in all. *)
LEMMA PartsOfDirect ==
  ASSUME NEW p \in PowersOfTwo, NEW b \in Buffer, capacity[b] = p, mask[b] + 1 = p,
         NEW x \in Nat, NEW size \in Nat, NEW n \in 0 .. size,
         NEW first, first = Smaller(Space_to_end(b, x), size)
  PROVE  InParts(p, x % p, first, WrapPosition(b, Slot(b, x), first), n)
<1> DEFINE a == x % p
           rest == WrapPosition(b, Slot(b, x), first)
<1>1. p \in Nat /\ a \in 0 .. p - 1 /\ Space_to_end(b, x) = p - a /\ Slot(b, x) = a
  BY SpaceToEnd, PowerIsNat
<1>2. first = Smaller(p - a, size) /\ rest = a - (p - first)
  BY <1>1 DEF WrapPosition
<1> HIDE DEF a, rest
<1>3. InParts(p, a, first, rest, n)  BY <1>1, <1>2 DEF InParts, Smaller
<1> QED  BY <1>3 DEF a, rest

(***************************************************************************)
(* The operations                                                          *)
(***************************************************************************)
LEMMA StaysAll ==
  ASSUME IInv, NEW b \in Buffer
  PROVE  /\ Puts(buffer, buffer, b, buffer[b]) /\ Puts(capacity, capacity, b, capacity[b])
         /\ Puts(mask, mask, b, mask[b]) /\ Puts(read_index, read_index, b, read_index[b])
         /\ Puts(write_index, write_index, b, write_index[b]) /\ Puts(landed, landed, b, landed[b])
BY BufferIs, Stays DEF Fcns

LEMMA ContentsStay ==
  ASSUME NEW b \in Buffer
  PROVE  /\ [Contents EXCEPT ![b] = Contents[b]] = Contents
         /\ [Landing EXCEPT ![b] = Landing[b]] = Landing
BY DEF Contents, Landing

(* peek() gives the front of the queue, all or nothing. *)
LEMMA FrontIs ==
  ASSUME IInv, NEW b \in Buffer, NEW n \in Nat, NEW given \in BOOLEAN
  PROVE  /\ Copied(b, n, given) = Queue!Front(b, n, given)
         /\ Len(Copied(b, n, given)[2]) \in 0 .. Used_size(b)
<1> DEFINE s == Contents[b]
<1>1. Used_size(b) \in Nat /\ Len(s) = Used_size(b)  BY BufferIs
<1>2. Len(<< >>) = 0  BY EmptySeq
<1>3. CASE n = 0
  <2>1. Copied(b, n, given) = <<TRUE, << >>>>  BY <1>3 DEF Copied, Done
  <2>2. SubSeq(s, 1, 0) = << >>  BY SubSeqEmpty
  <2>3. Queue!Front(b, n, given) = <<TRUE, << >>>>  BY <1>3, <2>2 DEF Queue!Front
  <2> QED  BY <1>1, <1>2, <2>1, <2>3
<1>4. CASE n # 0 /\ (buffer[b] = NoMemory \/ ~given \/ Used_size(b) < n)
  <2>1. Copied(b, n, given) = <<FALSE, << >>>>  BY <1>4 DEF Copied
  <2>2. buffer[b] = NoMemory => Used_size(b) < n
    <3>1. /\ buffer[b] = NoMemory => capacity[b] = 0
          /\ capacity[b] \in Nat /\ landed[b] \in Nat /\ Used_size(b) + landed[b] <= capacity[b]
      BY BufferIs
    <3> QED  BY <1>1, <1>4, <3>1
  <2>3. ~(n = 0 \/ (given /\ n <= Len(s)))  BY <1>1, <1>4, <2>2
  <2>4. Queue!Front(b, n, given) = <<FALSE, << >>>>  BY <2>3 DEF Queue!Front
  <2> QED  BY <1>1, <1>2, <2>1, <2>4
<1>5. CASE n # 0 /\ buffer[b] # NoMemory /\ given /\ n <= Used_size(b)
  <2> DEFINE p == capacity[b]
             r == read_index[b]
             w == write_index[b]
             first == Space_to_end(b, r)
  <2>1. /\ SoundBuffer(b) /\ p \in PowersOfTwo /\ mask[b] + 1 = p
        /\ Used_size(b) = Apart(r, w) /\ s = Queued(buffer[b], mask[b], r, w)
    BY <1>5, BufferIs
  <2>2. r \in Nat  BY <2>1, SoundIs DEF SoundBuffer
  <2>3. n \in 0 .. Apart(r, w)
    <3>1. n \in 0 .. Used_size(b)  BY <1>1, <1>5
    <3> QED  BY <2>1, <3>1
  <2>4. InParts(p, r % p, first, 0, n)  BY <2>1, <2>2, PartsOfCopy
  <2>5. Slot(b, r) = r % p  BY <2>1, <2>2, SpaceToEnd
  <2>6. /\ Gather(buffer[b], r % p, first, 0, n) = SubSeq(s, 1, n)
        /\ Len(SubSeq(s, 1, n)) = n
    <3>1. Sound(buffer[b], p, mask[b], r, w, landed[b])  BY <2>1 DEF SoundBuffer
    <3> HIDE DEF p, r, w, first, s
    <3> QED  BY <1>5, <2>1, <2>3, <2>4, <3>1, Copies
  <2>7. ~(buffer[b] = NoMemory \/ ~given \/ Used_size(b) < n)  BY <1>1, <1>5
  <2>8. Copied(b, n, given) = <<TRUE, SubSeq(s, 1, n)>>
    BY <1>5, <2>5, <2>6, <2>7 DEF Copied
  <2>9. Queue!Front(b, n, given) = <<TRUE, SubSeq(s, 1, n)>>
    BY <1>1, <1>5 DEF Queue!Front
  <2>10. Len(Copied(b, n, given)[2]) = n  BY <2>6, <2>8
  <2>11. n \in 0 .. Used_size(b)  BY <1>1, <1>5
  <2> QED  BY <2>8, <2>9, <2>10, <2>11, Zenon
<1>6. n = 0 \/ (n # 0 /\ (buffer[b] = NoMemory \/ ~given \/ Used_size(b) < n))
            \/ (n # 0 /\ buffer[b] # NoMemory /\ given /\ n <= Used_size(b))
  BY <1>1
<1> QED  BY <1>3, <1>4, <1>5, <1>6, Zenon

(* Moving the read index on takes the bytes before it out of the queue.    *)
LEMMA ReadStep ==
  ASSUME IInv, NEW b \in Buffer, NEW n \in 0 .. Used_size(b),
         read_index' = [read_index EXCEPT ![b] = Advance(read_index[b], n)],
         UNCHANGED <<buffer, capacity, mask, write_index, landed, next_byte>>
  PROVE  /\ IInv'
         /\ Contents' = [Contents EXCEPT ![b] = SubSeq(Contents[b], n + 1, Len(Contents[b]))]
         /\ Landing' = Landing
<1> DEFINE m == buffer[b]
           c == capacity[b]
           k == mask[b]
           r == read_index[b]
           w == write_index[b]
           l == landed[b]
<1>1. /\ Sound(m, c, k, r, w, l) /\ Used_size(b) = Apart(r, w) /\ next_byte \in Byte
      /\ Contents[b] = Queued(m, k, r, w) /\ Landing[b] = Behind(m, k, w, l)
  BY BufferIs DEF SoundBuffer
<1>2. Becomes(b, m, c, k, Advance(r, n), w, l)
  BY StaysAll DEF Becomes, Puts
<1> HIDE DEF m, c, k, r, w, l
<1>3. n \in 0 .. Apart(r, w)  BY <1>1
<1>4. /\ Sound(m, c, k, Advance(r, n), w, l)
      /\ Queued(m, k, Advance(r, n), w) =
            SubSeq(Queued(m, k, r, w), n + 1, Len(Queued(m, k, r, w)))
  BY <1>1, <1>3, Dropped
<1>5. next_byte' \in Byte  BY <1>1
<1>6. /\ IInv'
      /\ Contents' = [Contents EXCEPT ![b] = Queued(m, k, Advance(r, n), w)]
      /\ Landing' = [Landing EXCEPT ![b] = Behind(m, k, w, l)]
  BY <1>2, <1>4, <1>5, OneBecomes
<1> QED  BY <1>1, <1>4, <1>6, ContentsStay

LEMMA DequeueStep ==
  ASSUME IInv, NEW b \in Buffer, NEW n \in Nat, NEW given \in BOOLEAN, Dequeue(b, n, given)
  PROVE  IInv' /\ Queue!Dequeue(b, n, given)
<1> DEFINE given_out == Copied(b, n, given)
           took == Len(given_out[2])
<1>1. given_out = Queue!Front(b, n, given) /\ took \in 0 .. Used_size(b)  BY FrontIs
<1>2. /\ ret' = given_out
      /\ read_index' = [read_index EXCEPT ![b] = Advance(read_index[b], took)]
      /\ UNCHANGED <<buffer, capacity, mask, write_index, landed, next_byte>>
  BY DEF Dequeue
<1> HIDE DEF given_out
<1>3. /\ IInv'
      /\ Contents' = [Contents EXCEPT ![b] = SubSeq(Contents[b], took + 1, Len(Contents[b]))]
      /\ Landing' = Landing
  <2> HIDE DEF took
  <2> QED  BY <1>1, <1>2, ReadStep
<1> QED  BY <1>1, <1>2, <1>3 DEF Queue!Dequeue, Queue!Drop

LEMMA PeekStep ==
  ASSUME IInv, NEW b \in Buffer, NEW n \in Nat, NEW given \in BOOLEAN, Peek(b, n, given)
  PROVE  Queue!Peek(b, n, given)
<1>1. /\ ret' = Queue!Front(b, n, given)
      /\ UNCHANGED <<buffer, capacity, mask, read_index, write_index, landed, next_byte>>
  BY FrontIs DEF Peek
<1>2. UNCHANGED <<capacity, Contents, Landing, next_byte>>
  BY <1>1 DEF Contents, Landing, Between, Slot, Used_size
<1> QED  BY <1>1, <1>2 DEF Queue!Peek

(* A send that reads the front with the direct pointer is a dequeue.       *)
LEMMA ReadDirectStep ==
  ASSUME IInv, NEW b \in Buffer, NEW n \in Nat, ReadDirect(b, n)
  PROVE  IInv' /\ Queue!Dequeue(b, n, TRUE)
<1> DEFINE p == capacity[b]
           r == read_index[b]
           w == write_index[b]
           s == Contents[b]
           first == Direct_dequeue_size(b)
           rest == WrapPosition(b, Slot(b, r), first)
<1>1. /\ buffer[b] # NoMemory /\ n <= Used_size(b)
      /\ ret' = <<TRUE, Gather(buffer[b], Slot(b, r), first, rest, n)>>
      /\ read_index' = [read_index EXCEPT ![b] = Advance(read_index[b], n)]
      /\ UNCHANGED <<buffer, capacity, mask, write_index, landed, next_byte>>
  BY DEF ReadDirect
<1>2. /\ SoundBuffer(b) /\ p \in PowersOfTwo /\ mask[b] + 1 = p
      /\ Used_size(b) = Apart(r, w) /\ s = Queued(buffer[b], mask[b], r, w)
      /\ Used_size(b) \in Nat /\ Len(s) = Used_size(b)
  BY <1>1, BufferIs
<1>3. r \in Nat  BY <1>2, SoundIs DEF SoundBuffer
<1>4. n \in 0 .. Used_size(b)  BY <1>1, <1>2
<1>5. InParts(p, r % p, first, rest, n)
  <2>1. first = Smaller(Space_to_end(b, r), Used_size(b))  BY DEF Direct_dequeue_size
  <2> QED  BY <1>2, <1>3, <1>4, <2>1, PartsOfDirect
<1>6. Slot(b, r) = r % p  BY <1>2, <1>3, SpaceToEnd
<1>7. /\ Gather(buffer[b], r % p, first, rest, n) = SubSeq(s, 1, n)
      /\ Len(SubSeq(s, 1, n)) = n
  <2>1. Sound(buffer[b], p, mask[b], r, w, landed[b])  BY <1>2 DEF SoundBuffer
  <2> HIDE DEF p, r, w, first, rest, s
  <2> QED  BY <1>1, <1>2, <1>4, <1>5, <2>1, Copies
<1>8. ret' = <<TRUE, SubSeq(s, 1, n)>>  BY <1>1, <1>6, <1>7
<1>9. Queue!Front(b, n, TRUE) = <<TRUE, SubSeq(s, 1, n)>>
  BY <1>1, <1>2 DEF Queue!Front
<1>10. /\ IInv'
       /\ Contents' = [Contents EXCEPT ![b] = SubSeq(s, n + 1, Len(s))]
       /\ Landing' = Landing
  BY <1>1, <1>4, ReadStep
<1>11. Len(ret'[2]) = n  BY <1>7, <1>8
<1> QED  BY <1>1, <1>8, <1>9, <1>10, <1>11 DEF Queue!Dequeue, Queue!Drop

(***************************************************************************)
(* Writing                                                                 *)
(***************************************************************************)
LEMMA EnqueueStep ==
  ASSUME IInv, NEW b \in Buffer, NEW n \in Nat, NEW given \in BOOLEAN, Enqueue(b, n, given)
  PROVE  IInv' /\ Queue!Enqueue(b, n, given)
<1> DEFINE ok == n = 0 \/ (buffer[b] # NoMemory /\ given /\ Fits(b, n))
           m == buffer[b]
           c == capacity[b]
           k == mask[b]
           r == read_index[b]
           w == write_index[b]
           first == Space_to_end(b, w)
           new == Scatter(m, w % c, first, 0, Chunk(n))
<1>1. /\ landed[b] = 0 /\ ret' = <<ok, << >>>>
      /\ UNCHANGED <<capacity, mask, read_index, landed>>
      /\ ok /\ n > 0 => /\ buffer' = [buffer EXCEPT ![b] = Scatter(m, Slot(b, w), first, 0, Chunk(n))]
                        /\ write_index' = [write_index EXCEPT ![b] = Advance(w, n)]
                        /\ next_byte' = (next_byte + n) % ByteMod
      /\ ~(ok /\ n > 0) => UNCHANGED <<buffer, write_index, next_byte>>
  BY DEF Enqueue
<1>2. /\ Sound(m, c, k, r, w, 0) /\ Used_size(b) = Apart(r, w) /\ Used_size(b) \in Nat
      /\ Contents[b] = Queued(m, k, r, w) /\ Landing[b] = << >> /\ Contents[b] \in Seq(Cell)
      /\ next_byte \in Byte
      /\ c \in Nat /\ Free_size(b) = c - Used_size(b) /\ Queue!Room(b) = Free_size(b)
  BY <1>1, BufferIs DEF SoundBuffer
<1>3. ok <=> n = 0 \/ (given /\ n <= Queue!Room(b))
  <2>1. buffer[b] = NoMemory => Free_size(b) <= 0
    BY <1>2, BufferIs
  <2>2. n # 0 /\ buffer[b] = NoMemory => ~(n <= Free_size(b))
    <3>1. Free_size(b) \in Int  BY <1>2
    <3> QED  BY <2>1, <3>1
  <2> QED  BY <1>2, <2>2 DEF Fits
<1>4. ret' = <<(n = 0 \/ (given /\ n <= Queue!Room(b))), << >>>>  BY <1>1, <1>3
<1>5. CASE ok /\ n > 0
  <2>1. /\ m # NoMemory /\ n <= Free_size(b) /\ c \in PowersOfTwo /\ k + 1 = c
    BY <1>5, BufferIs DEF Fits
  <2>2. w \in Nat  BY <1>2, SoundIs
  <2>3. InParts(c, w % c, first, 0, n) /\ Slot(b, w) = w % c
    BY <2>1, <2>2, PartsOfCopy, SpaceToEnd
  <2>4. /\ Chunk(n) \in Seq(Byte) /\ Len(Chunk(n)) = n /\ Queue!Chunk(n) = Chunk(n)
        /\ (next_byte + n) % ByteMod \in Byte
    BY <1>2, ChunkIs
  <2>5. Apart(r, w) + n <= c  BY <1>2, <2>1
  <2>6. Becomes(b, new, c, k, r, Advance(w, n), 0)
    BY <1>1, <1>5, <2>3, StaysAll DEF Becomes, Puts
  <2>7. /\ ret' = <<(n = 0 \/ (given /\ n <= Queue!Room(b))), << >>>>
        /\ n = 0 \/ (given /\ n <= Queue!Room(b))
        /\ next_byte' = (next_byte + n) % ByteMod
        /\ UNCHANGED capacity
    BY <1>1, <1>3, <1>4, <1>5
  <2> HIDE DEF ok, m, c, k, r, w, first
  <2>8. /\ Sound(new, c, k, r, w, n) /\ Queued(new, k, r, w) = Queued(m, k, r, w)
        /\ Behind(new, k, w, n) = Chunk(n)
    BY <1>2, <2>1, <2>3, <2>4, <2>5, WrittenBehind
  <2> HIDE DEF new
  <2>9. /\ Sound(new, c, k, r, Advance(w, n), 0)
        /\ Queued(new, k, r, Advance(w, n)) = Contents[b] \o Chunk(n)
    <3>1. Advances(w, n, Advance(w, n))  BY DEF Advances
    <3>2. /\ Sound(new, c, k, r, Advance(w, n), 0)
          /\ Queued(new, k, r, Advance(w, n)) = Queued(new, k, r, w) \o Behind(new, k, w, n)
      BY <2>8, <3>1, Committed
    <3> QED  BY <1>2, <2>8, <3>2
  <2>10. Behind(new, k, Advance(w, n), 0) = << >>  BY WindowEmpty DEF Behind
  <2>11. /\ IInv'
         /\ Contents' = [Contents EXCEPT ![b] = Contents[b] \o Chunk(n)]
         /\ Landing' = Landing
    BY <1>2, <2>4, <2>6, <2>7, <2>9, <2>10, OneBecomes, ContentsStay
  <2> QED  BY <1>2, <2>4, <2>7, <2>11 DEF Queue!Enqueue
<1>6. CASE ~(ok /\ n > 0)
  <2>1. UNCHANGED <<buffer, capacity, mask, read_index, write_index, landed, next_byte>>
    BY <1>1, <1>6
  <2>2. UNCHANGED <<IInv, Contents, Landing>>
    BY <2>1 DEF IInv, TypeOK, WithinCapacity, Contents, Landing, Between, Slot, Used_size
  <2>3. n = 0 \/ ~(n = 0 \/ (given /\ n <= Queue!Room(b)))  BY <1>3, <1>6
  <2>4. CASE n = 0
    <3>1. Queue!Chunk(0) = << >>
      <4>1. 1 .. 0 = {}  OBVIOUS
      <4> QED  BY <4>1 DEF Queue!Chunk
    <3>2. Contents[b] \o << >> = Contents[b]  BY <1>2, ConcatEmptySeq
    <3>3. (next_byte + 0) % ByteMod = next_byte
      <4>1. ByteMod \in Nat /\ ByteMod > 0 /\ next_byte \in 0 .. ByteMod - 1
        BY <1>2, ByteAssumption DEF Byte
      <4>2. next_byte + 0 = next_byte /\ next_byte \in Int  BY <4>1
      <4> QED  BY <4>1, <4>2, RemainderNear
    <3>4. Contents' = [Contents EXCEPT ![b] = Contents[b] \o Queue!Chunk(n)]
      BY <2>2, <2>4, <3>1, <3>2, ContentsStay
    <3> QED  BY <1>1, <1>2, <1>4, <2>1, <2>2, <2>4, <3>3, <3>4 DEF Queue!Enqueue
  <2>5. CASE ~(n = 0 \/ (given /\ n <= Queue!Room(b)))
    BY <1>1, <1>2, <1>4, <2>1, <2>2, <2>5 DEF Queue!Enqueue
  <2> QED  BY <2>3, <2>4, <2>5
<1> QED  BY <1>5, <1>6

(* A receive into the free space with the direct pointers lands behind the *)
(* queue.                                                                  *)
LEMMA WriteDirectStep ==
  ASSUME IInv, NEW b \in Buffer, NEW n \in Nat, WriteDirect(b, n)
  PROVE  IInv' /\ Queue!Land(b, n)
<1> DEFINE m == buffer[b]
           c == capacity[b]
           k == mask[b]
           r == read_index[b]
           w == write_index[b]
           first == Direct_enqueue_size(b)
           rest == WrapPosition(b, Slot(b, w), first)
           new == Scatter(m, w % c, first, rest, Chunk(n))
<1>1. /\ m # NoMemory /\ landed[b] = 0 /\ n <= Free_size(b)
      /\ buffer' = [buffer EXCEPT ![b] = Scatter(m, Slot(b, w), first, rest, Chunk(n))]
      /\ landed' = [landed EXCEPT ![b] = n]
      /\ next_byte' = (next_byte + n) % ByteMod
      /\ ret' = <<TRUE, << >>>>
      /\ UNCHANGED <<capacity, mask, read_index, write_index>>
  BY DEF WriteDirect, Done
<1>2. /\ Sound(m, c, k, r, w, 0) /\ Used_size(b) = Apart(r, w) /\ Used_size(b) \in Nat
      /\ Contents[b] = Queued(m, k, r, w) /\ Landing[b] = << >>
      /\ next_byte \in Byte /\ c \in PowersOfTwo /\ k + 1 = c
      /\ c \in Nat /\ Free_size(b) = c - Used_size(b) /\ Free_size(b) \in Nat
      /\ Queue!Room(b) = Free_size(b)
  BY <1>1, BufferIs DEF SoundBuffer
<1>3. w \in Nat  BY <1>2, SoundIs
<1>4. InParts(c, w % c, first, rest, n)
  <2>1. first = Smaller(Space_to_end(b, w), Free_size(b)) /\ n \in 0 .. Free_size(b)
    BY <1>1, <1>2 DEF Direct_enqueue_size
  <2> QED  BY <1>2, <1>3, <2>1, PartsOfDirect
<1>5. Slot(b, w) = w % c  BY <1>2, <1>3, SpaceToEnd
<1>6. /\ Chunk(n) \in Seq(Byte) /\ Len(Chunk(n)) = n /\ Queue!Chunk(n) = Chunk(n)
      /\ (next_byte + n) % ByteMod \in Byte
  BY <1>2, ChunkIs
<1>7. Apart(r, w) + n <= c  BY <1>1, <1>2
<1>8. Becomes(b, new, c, k, r, w, n)
  BY <1>1, <1>5, StaysAll DEF Becomes, Puts
<1> HIDE DEF m, c, k, r, w, first, rest
<1>9. /\ Sound(new, c, k, r, w, n) /\ Queued(new, k, r, w) = Queued(m, k, r, w)
      /\ Behind(new, k, w, n) = Chunk(n)
  BY <1>1, <1>2, <1>4, <1>6, <1>7, WrittenBehind
<1> HIDE DEF new
<1>10. next_byte' \in Byte  BY <1>1, <1>6
<1>11. /\ IInv' /\ Contents' = [Contents EXCEPT ![b] = Queued(new, k, r, w)]
       /\ Landing' = [Landing EXCEPT ![b] = Behind(new, k, w, n)]
  BY <1>8, <1>9, <1>10, OneBecomes
<1>12. Contents' = Contents /\ Landing' = [Landing EXCEPT ![b] = Queue!Chunk(n)]
  BY <1>2, <1>6, <1>9, <1>11, ContentsStay
<1> QED  BY <1>1, <1>2, <1>11, <1>12 DEF Queue!Land

LEMMA AdvanceStep ==
  ASSUME IInv, NEW b \in Buffer, Advance_write_index(b)
  PROVE  IInv' /\ Queue!Commit(b)
<1> DEFINE m == buffer[b]
           c == capacity[b]
           k == mask[b]
           r == read_index[b]
           w == write_index[b]
           l == landed[b]
<1>1. /\ write_index' = [write_index EXCEPT ![b] = Advance(w, l)]
      /\ landed' = [landed EXCEPT ![b] = 0]
      /\ ret' = <<TRUE, << >>>>
      /\ UNCHANGED <<buffer, capacity, mask, read_index, next_byte>>
  BY DEF Advance_write_index, Done
<1>2. /\ Sound(m, c, k, r, w, l) /\ next_byte \in Byte
      /\ Contents[b] = Queued(m, k, r, w) /\ Landing[b] = Behind(m, k, w, l)
  BY BufferIs DEF SoundBuffer
<1>3. Becomes(b, m, c, k, r, Advance(w, l), 0)
  BY <1>1, StaysAll DEF Becomes, Puts
<1> HIDE DEF m, c, k, r, w, l
<1>4. /\ Sound(m, c, k, r, Advance(w, l), 0)
      /\ Queued(m, k, r, Advance(w, l)) = Contents[b] \o Landing[b]
  <2>1. Advances(w, l, Advance(w, l))  BY DEF Advances
  <2> QED  BY <1>2, <2>1, Committed
<1>5. Behind(m, k, Advance(w, l), 0) = << >>  BY WindowEmpty DEF Behind
<1>6. next_byte' \in Byte  BY <1>1, <1>2
<1>7. /\ IInv' /\ Contents' = [Contents EXCEPT ![b] = Queued(m, k, r, Advance(w, l))]
      /\ Landing' = [Landing EXCEPT ![b] = Behind(m, k, Advance(w, l), 0)]
  <2> DEFINE none == 0
             moved == Advance(w, l)
  <2>1. Becomes(b, m, c, k, r, moved, none) /\ Sound(m, c, k, r, moved, none)  BY <1>3, <1>4
  <2> HIDE DEF none, moved
  <2>2. /\ IInv' /\ Contents' = [Contents EXCEPT ![b] = Queued(m, k, r, moved)]
        /\ Landing' = [Landing EXCEPT ![b] = Behind(m, k, moved, none)]
    BY <1>6, <2>1, OneBecomes
  <2> QED  BY <2>2 DEF none, moved
<1>8. /\ Contents' = [Contents EXCEPT ![b] = Contents[b] \o Landing[b]]
      /\ Landing' = [Landing EXCEPT ![b] = << >>]
  BY <1>4, <1>5, <1>7, Zenon
<1> QED  BY <1>1, <1>7, <1>8 DEF Queue!Commit

(***************************************************************************)
(* Construction, moves and clear                                           *)
(***************************************************************************)
LEMMA FreshIs ==
  ASSUME NEW n \in Size
  PROVE  Fresh(n) \in Memory(BitCeil(n)) /\ Fresh(n) # NoMemory
<1>1. BitCeil(n) \in PowersOfTwo  BY BitCeilIs
<1>2. Fresh(n) \in Memory(BitCeil(n))  BY DEF Fresh, Memory, Cell
<1> QED  BY <1>1, <1>2, NotNoMemory

LEMMA ApartFromItself == Apart(0, 0) = 0 /\ 0 \in Index
<1>1. IndexMod \in Nat /\ IndexMod > 0  BY IndexIs
<1>2. 0 - 0 = 0 /\ 0 \in 0 .. IndexMod - 1  BY <1>1
<1>3. 0 % IndexMod = 0  BY <1>1, <1>2, RemainderNear
<1> QED  BY <1>2, <1>3 DEF Apart, Index

LEMMA SoundEmpty ==
  ASSUME NEW m, NEW c, NEW k, NEW r, NEW w, NEW l, Sound(m, c, k, r, w, l)
  PROVE  Sound(m, c, k, 0, 0, 0)
<1>1. c \in Nat  BY DEF Sound
<1>2. Apart(0, 0) + 0 <= c  BY <1>1, ApartFromItself
<1> QED  BY <1>2, ApartFromItself DEF Sound

LEMMA EmptyIs ==
  ASSUME NEW m, NEW k
  PROVE  Queued(m, k, 0, 0) = << >> /\ Behind(m, k, 0, 0) = << >>
BY WindowEmpty, ApartFromItself DEF Queued, Behind

LEMMA SoundNew ==
  ASSUME NEW n \in Size, NEW m \in {Fresh(n), NoMemory},
         NEW c, c = IF m = NoMemory THEN 0 ELSE BitCeil(n)
  PROVE  Sound(m, c, BitCeil(n) - 1, 0, 0, 0) /\ c \in 0 .. MaxSize
<1> DEFINE p == BitCeil(n)
<1>1. p \in PowersOfTwo /\ p <= MaxSize  BY BitCeilIs, MaxSizeIs
<1>2. p \in Nat /\ MaxSize \in Nat  BY <1>1, PowerIsNat, MaxSizeIsNat
<1>3. m # NoMemory => m \in Memory(p)  BY FreshIs
<1>4. c = IF m = NoMemory THEN 0 ELSE p  OBVIOUS
<1> HIDE DEF p
<1>5. c \in Nat /\ c <= MaxSize /\ p = p - 1 + 1  BY <1>1, <1>2, <1>4
<1>6. Apart(0, 0) + 0 <= c  BY <1>5, ApartFromItself
<1>7. p - 1 \in {q - 1 : q \in PowersOfTwo}  BY <1>1
<1>8. m # NoMemory => c \in PowersOfTwo /\ c = p - 1 + 1 /\ m \in Memory(c)
  BY <1>1, <1>3, <1>4, <1>5
<1>9. m = NoMemory => c = 0  BY <1>4
<1>10. Sound(m, c, p - 1, 0, 0, 0)
  BY <1>5, <1>6, <1>7, <1>8, <1>9, ApartFromItself DEF Sound
<1>11. c \in 0 .. MaxSize  BY <1>2, <1>5
<1> QED  BY <1>10, <1>11 DEF p

LEMMA ConstructStep ==
  ASSUME IInv, NEW b \in Buffer, NEW n \in Size, Construct(b, n)
  PROVE  IInv' /\ Queue!Construct(b)
<1>1. PICK m \in {Fresh(n), NoMemory} :
         /\ buffer' = [buffer EXCEPT ![b] = m]
         /\ capacity' = [capacity EXCEPT ![b] = IF m = NoMemory THEN 0 ELSE BitCeil(n)]
  BY DEF Construct
<1> DEFINE c == IF m = NoMemory THEN 0 ELSE BitCeil(n)
           k == BitCeil(n) - 1
<1>2. /\ mask' = [mask EXCEPT ![b] = k] /\ read_index' = [read_index EXCEPT ![b] = 0]
      /\ write_index' = [write_index EXCEPT ![b] = 0] /\ landed' = [landed EXCEPT ![b] = 0]
      /\ ret' = <<TRUE, << >>>> /\ next_byte' = next_byte
  BY DEF Construct, Done
<1>3. Sound(m, c, k, 0, 0, 0) /\ c \in 0 .. MaxSize
  <2>1. c = IF m = NoMemory THEN 0 ELSE BitCeil(n)  OBVIOUS
  <2> HIDE DEF c
  <2> QED  BY <2>1, SoundNew
<1>4. Becomes(b, m, c, k, 0, 0, 0)  BY <1>1, <1>2 DEF Becomes, Puts
<1>5. capacity' = [capacity EXCEPT ![b] = c]  BY <1>1
<1>6. next_byte' \in Byte  BY <1>2, BufferIs
<1> DEFINE none == 0
<1>7. Becomes(b, m, c, k, none, none, none) /\ Sound(m, c, k, none, none, none)
  BY <1>3, <1>4
<1> HIDE DEF c, k
<1>8. /\ IInv' /\ Contents' = [Contents EXCEPT ![b] = Queued(m, k, none, none)]
      /\ Landing' = [Landing EXCEPT ![b] = Behind(m, k, none, none)]
  <2> HIDE DEF none
  <2> QED  BY <1>6, <1>7, OneBecomes
<1>9. Queued(m, k, 0, 0) = << >> /\ Behind(m, k, 0, 0) = << >>  BY EmptyIs
<1>10. Contents' = [Contents EXCEPT ![b] = << >>] /\ Landing' = [Landing EXCEPT ![b] = << >>]
  BY <1>8, <1>9
<1> QED  BY <1>2, <1>3, <1>5, <1>8, <1>10 DEF Queue!Construct

LEMMA ClearStep ==
  ASSUME IInv, NEW b \in Buffer, Clear_buffer(b)
  PROVE  IInv' /\ Queue!Clear(b)
<1> DEFINE m == buffer[b]
           c == capacity[b]
           k == mask[b]
           none == 0
<1>1. /\ landed[b] = 0 /\ ret' = <<TRUE, << >>>>
      /\ read_index' = [read_index EXCEPT ![b] = none]
      /\ write_index' = [write_index EXCEPT ![b] = none]
      /\ UNCHANGED <<buffer, capacity, mask, landed, next_byte>>
  BY DEF Clear_buffer, Emptied, Done
<1>2. Sound(m, c, k, none, none, none) /\ next_byte \in Byte
  BY BufferIs, SoundEmpty DEF SoundBuffer
<1>3. Becomes(b, m, c, k, none, none, none)
  BY <1>1, StaysAll DEF Becomes, Puts
<1>4. next_byte' \in Byte /\ Landing[b] = << >>  BY <1>1, <1>2, BufferIs
<1>5. /\ IInv' /\ Contents' = [Contents EXCEPT ![b] = Queued(m, k, none, none)]
      /\ Landing' = [Landing EXCEPT ![b] = Behind(m, k, none, none)]
  <2> HIDE DEF m, c, k, none
  <2> QED  BY <1>2, <1>3, <1>4, OneBecomes
<1>6. Queued(m, k, 0, 0) = << >> /\ Behind(m, k, 0, 0) = << >>  BY EmptyIs
<1>7. Contents' = [Contents EXCEPT ![b] = << >>] /\ Landing' = Landing
  BY <1>4, <1>5, <1>6, ContentsStay
<1> QED  BY <1>1, <1>4, <1>5, <1>7 DEF Queue!Clear

(* The invariant and the queues of the next state, from what every buffer  *)
(* is like in it                                                           *)
LEMMA NextIs ==
  ASSUME Fcns', next_byte' \in Byte,
         \A b \in Buffer : Sound(buffer'[b], capacity'[b], mask'[b], read_index'[b],
                                 write_index'[b], landed'[b])
  PROVE  /\ IInv'
         /\ Contents' = [b \in Buffer |-> Queued(buffer'[b], mask'[b], read_index'[b], write_index'[b])]
         /\ Landing' = [b \in Buffer |-> Behind(buffer'[b], mask'[b], write_index'[b], landed'[b])]
<1>1. AllSound'  BY DEF AllSound
<1>2. IInv'  BY <1>1, IInvIs, PTL
<1>3. Contents' = [b \in Buffer |-> Queued(buffer'[b], mask'[b], read_index'[b], write_index'[b])]
  BY DEF Contents, Queued, Window, Between, Slot, Used_size, Apart
<1>4. Landing' = [b \in Buffer |-> Behind(buffer'[b], mask'[b], write_index'[b], landed'[b])]
  BY DEF Landing, Behind, Window, Between, Slot
<1> QED  BY <1>2, <1>3, <1>4

LEMMA MoveStep ==
  ASSUME IInv, NEW dst \in Buffer, NEW src \in Buffer, Move(dst, src)
  PROVE  IInv' /\ Queue!Move(dst, src)
<1>1. /\ landed[dst] = 0 /\ landed[src] = 0 /\ ret' = <<TRUE, << >>>>
      /\ landed' = landed /\ next_byte' = next_byte
      /\ \/ dst # src /\ Moved(dst, src)
         \/ dst = src /\ UNCHANGED <<buffer, capacity, mask, read_index, write_index>>
  BY DEF Move, Done
<1>2. Landing[dst] = << >> /\ Landing[src] = << >>  BY <1>1, BufferIs
<1>3. CASE dst = src
  <2>1. UNCHANGED <<buffer, capacity, mask, read_index, write_index, landed, next_byte>>
    BY <1>1, <1>3
  <2>2. UNCHANGED <<IInv, Contents, Landing>>
    BY <2>1 DEF IInv, TypeOK, WithinCapacity, Contents, Landing, Between, Slot, Used_size
  <2> QED  BY <1>1, <1>2, <1>3, <2>1, <2>2 DEF Queue!Move
<1>4. CASE dst # src
  <2>1. Fcns /\ next_byte \in Byte  BY BufferIs
  <2>2. \A b \in Buffer :
           Sound(buffer[b], capacity[b], mask[b], read_index[b], write_index[b], landed[b])
    BY BufferIs DEF SoundBuffer
  <2>3. /\ buffer' = [buffer EXCEPT ![dst] = buffer[src], ![src] = NoMemory]
        /\ capacity' = [capacity EXCEPT ![dst] = capacity[src], ![src] = 0]
        /\ mask' = [mask EXCEPT ![dst] = mask[src]]
        /\ read_index' = [[read_index EXCEPT ![dst] = read_index[src]] EXCEPT ![src] = 0]
        /\ write_index' = [[write_index EXCEPT ![dst] = write_index[src]] EXCEPT ![src] = 0]
    BY <1>1, <1>4 DEF Moved, Emptied
  <2>4. Fcns'  BY <1>1, <2>1, <2>3 DEF Fcns, Fcn
  <2>5. /\ buffer'[dst] = buffer[src] /\ capacity'[dst] = capacity[src] /\ mask'[dst] = mask[src]
        /\ read_index'[dst] = read_index[src] /\ write_index'[dst] = write_index[src]
        /\ landed'[dst] = landed[src]
    BY <1>1, <1>4, <2>1, <2>3 DEF Fcns, Fcn
  <2>6. /\ buffer'[src] = NoMemory /\ capacity'[src] = 0 /\ mask'[src] = mask[src]
        /\ read_index'[src] = 0 /\ write_index'[src] = 0 /\ landed'[src] = 0
    BY <1>1, <1>4, <2>1, <2>3 DEF Fcns, Fcn
  <2>7. ASSUME NEW b \in Buffer, b # dst, b # src
        PROVE  /\ buffer'[b] = buffer[b] /\ capacity'[b] = capacity[b] /\ mask'[b] = mask[b]
               /\ read_index'[b] = read_index[b] /\ write_index'[b] = write_index[b]
               /\ landed'[b] = landed[b]
    BY <1>1, <2>1, <2>3, <2>7 DEF Fcns, Fcn
  <2>8. Sound(NoMemory, 0, mask[src], 0, 0, 0)
    <3>1. mask[src] \in {p - 1 : p \in PowersOfTwo}  BY <2>2 DEF Sound
    <3>2. 0 <= MaxSize /\ Apart(0, 0) + 0 <= 0  BY MaxSizeIsNat, ApartFromItself
    <3> QED  BY <3>1, <3>2, ApartFromItself DEF Sound
  <2>9. ASSUME NEW b \in Buffer
        PROVE  Sound(buffer'[b], capacity'[b], mask'[b], read_index'[b], write_index'[b], landed'[b])
    <3>1. CASE b = dst  BY <2>2, <2>5, <3>1
    <3>2. CASE b = src  BY <2>6, <2>8, <3>2
    <3>3. CASE b # dst /\ b # src  BY <2>2, <2>7, <3>3
    <3> QED  BY <3>1, <3>2, <3>3
  <2>10. /\ IInv'
         /\ Contents' = [b \in Buffer |-> Queued(buffer'[b], mask'[b], read_index'[b], write_index'[b])]
         /\ Landing' = [b \in Buffer |-> Behind(buffer'[b], mask'[b], write_index'[b], landed'[b])]
    BY <1>1, <2>1, <2>4, <2>9, NextIs
  <2>11. \A b \in Buffer : /\ Contents[b] = Queued(buffer[b], mask[b], read_index[b], write_index[b])
                           /\ Landing[b] = Behind(buffer[b], mask[b], write_index[b], landed[b])
    BY BufferIs
  <2>12. Queued(NoMemory, mask[src], 0, 0) = << >> /\ Behind(NoMemory, mask[src], 0, 0) = << >>
    BY EmptyIs
  <2>13. ASSUME NEW b \in Buffer
         PROVE  /\ Contents'[b] = IF b = src THEN << >> ELSE IF b = dst THEN Contents[src] ELSE Contents[b]
                /\ Landing'[b] = Landing[b]
    <3>1. /\ Contents'[b] = Queued(buffer'[b], mask'[b], read_index'[b], write_index'[b])
          /\ Landing'[b] = Behind(buffer'[b], mask'[b], write_index'[b], landed'[b])
      BY <2>10
    <3>2. CASE b = src  BY <1>2, <2>6, <2>12, <3>1, <3>2
    <3>3. CASE b = dst  BY <1>2, <1>4, <2>5, <2>11, <3>1, <3>3
    <3>4. CASE b # dst /\ b # src  BY <2>7, <2>11, <3>1, <3>4
    <3> QED  BY <3>2, <3>3, <3>4
  <2>14. Contents' = [Contents EXCEPT ![dst] = Contents[src], ![src] = << >>]
    <3>1. Contents' = [b \in Buffer |-> Contents'[b]] /\ Contents = [b \in Buffer |-> Contents[b]]
      BY <2>10 DEF Contents
    <3> QED  BY <1>4, <2>13, <3>1
  <2>15. Landing' = Landing
    <3>1. Landing' = [b \in Buffer |-> Landing'[b]] /\ Landing = [b \in Buffer |-> Landing[b]]
      BY <2>10 DEF Landing
    <3> QED  BY <2>13, <3>1
  <2> QED  BY <1>1, <1>2, <1>4, <2>3, <2>10, <2>14, <2>15 DEF Queue!Move
<1> QED  BY <1>3, <1>4

(***************************************************************************)
(* The theorems                                                            *)
(***************************************************************************)
LEMMA InitStep == Init => IInv /\ Queue!Init
<1> SUFFICES ASSUME Init PROVE IInv /\ Queue!Init  OBVIOUS
<1>1. PICK n \in Size : /\ capacity = [b \in Buffer |-> BitCeil(n)]
                        /\ mask = [b \in Buffer |-> BitCeil(n) - 1]
                        /\ buffer = [b \in Buffer |-> Fresh(n)]
  BY DEF Init
<1>2. /\ read_index = [b \in Buffer |-> 0] /\ write_index = [b \in Buffer |-> 0]
      /\ landed = [b \in Buffer |-> 0] /\ next_byte = 0 /\ ret = <<TRUE, << >>>>
  BY DEF Init, Done
<1>3. Fresh(n) # NoMemory  BY FreshIs
<1>4. Sound(Fresh(n), BitCeil(n), BitCeil(n) - 1, 0, 0, 0) /\ BitCeil(n) \in 0 .. MaxSize
  BY <1>3, SoundNew
<1>5. Fcns  BY <1>1, <1>2 DEF Fcns, Fcn
<1>6. next_byte \in Byte  BY <1>2, ByteAssumption DEF Byte
<1>7. AllSound  BY <1>1, <1>2, <1>4, <1>5, <1>6 DEF AllSound
<1>8. \A b \in Buffer : /\ Queued(buffer[b], mask[b], read_index[b], write_index[b]) = << >>
                        /\ Behind(buffer[b], mask[b], write_index[b], landed[b]) = << >>
  BY <1>1, <1>2, EmptyIs
<1>9. Contents = [b \in Buffer |-> << >>] /\ Landing = [b \in Buffer |-> << >>]
  BY <1>8, ContentsAre
<1>10. capacity \in [Buffer -> 0 .. MaxSize]  BY <1>1, <1>4
<1> QED  BY <1>2, <1>7, <1>9, <1>10, IInvIs DEF Queue!Init

(* A step of an operation: the queue makes the same. *)
LEMMA NextStep ==
  ASSUME IInv, Next
  PROVE  IInv' /\ Queue!Next
<1> USE DEF Queue!Next
<1>1. PICK b \in Buffer :
        \/ \E n \in Size : Construct(b, n)
        \/ \E src \in Buffer : Move(b, src)
        \/ \E n \in 0 .. MaxSize + 1, given \in BOOLEAN : Enqueue(b, n, given)
        \/ \E n \in 0 .. MaxSize + 1, given \in BOOLEAN : Dequeue(b, n, given)
        \/ \E n \in 0 .. MaxSize + 1, given \in BOOLEAN : Peek(b, n, given)
        \/ Clear_buffer(b)
        \/ \E n \in 0 .. MaxSize : WriteDirect(b, n)
        \/ Advance_write_index(b)
        \/ \E n \in 0 .. MaxSize : ReadDirect(b, n)
  BY DEF Next
<1>2. 0 .. MaxSize + 1 \subseteq Nat /\ 0 .. MaxSize \subseteq 0 .. MaxSize + 1  BY MaxSizeIsNat
<1>3. ASSUME NEW n \in Size, Construct(b, n) PROVE IInv' /\ Queue!Next
  BY <1>3, ConstructStep
<1>4. ASSUME NEW src \in Buffer, Move(b, src) PROVE IInv' /\ Queue!Next
  BY <1>4, MoveStep
<1>5. ASSUME NEW n \in 0 .. MaxSize + 1, NEW given \in BOOLEAN, Enqueue(b, n, given)
      PROVE  IInv' /\ Queue!Next
  <2>1. IInv' /\ Queue!Enqueue(b, n, given)  BY <1>2, <1>5, EnqueueStep
  <2> QED  BY <2>1
<1>6. ASSUME NEW n \in 0 .. MaxSize + 1, NEW given \in BOOLEAN, Dequeue(b, n, given)
      PROVE  IInv' /\ Queue!Next
  <2>1. IInv' /\ Queue!Dequeue(b, n, given)  BY <1>2, <1>6, DequeueStep
  <2> QED  BY <2>1
<1>7. ASSUME NEW n \in 0 .. MaxSize + 1, NEW given \in BOOLEAN, Peek(b, n, given)
      PROVE  IInv' /\ Queue!Next
  <2>1. Queue!Peek(b, n, given)  BY <1>2, <1>7, PeekStep
  <2>2. UNCHANGED IInv
    BY <1>7 DEF Peek, IInv, TypeOK, WithinCapacity, Used_size
  <2> QED  BY <2>1, <2>2
<1>8. ASSUME Clear_buffer(b) PROVE IInv' /\ Queue!Next
  BY <1>8, ClearStep
<1>9. ASSUME NEW n \in 0 .. MaxSize, WriteDirect(b, n) PROVE IInv' /\ Queue!Next
  <2>1. IInv' /\ Queue!Land(b, n)  BY <1>2, <1>9, WriteDirectStep
  <2> QED  BY <2>1
<1>10. ASSUME Advance_write_index(b) PROVE IInv' /\ Queue!Next
  BY <1>10, AdvanceStep
<1>11. ASSUME NEW n \in 0 .. MaxSize, ReadDirect(b, n) PROVE IInv' /\ Queue!Next
  <2>1. IInv' /\ Queue!Dequeue(b, n, TRUE) /\ n \in 0 .. MaxSize + 1
    BY <1>2, <1>11, ReadDirectStep
  <2> QED  BY <2>1
<1> QED  BY <1>1, <1>3, <1>4, <1>5, <1>6, <1>7, <1>8, <1>9, <1>10, <1>11

LEMMA StutterStep ==
  ASSUME UNCHANGED vars
  PROVE  (IInv => IInv') /\ UNCHANGED Queue!vars
<1>1. IInv => IInv'  BY DEF vars, IInv, TypeOK, WithinCapacity, Used_size
<1>2. UNCHANGED Queue!vars
  BY DEF vars, Queue!vars, Contents, Landing, Between, Slot, Used_size
<1> QED  BY <1>1, <1>2

(* The inductive invariant: types, sizes, and no capacity larger than what *)
(* was asked for needs (RingBuffer.cpp, every operation).                  *)
THEOREM InvariantCorrect == Spec => []IInv
<1>1. Init => IInv  BY InitStep
<1>2. IInv /\ [Next]_vars => IInv'  BY NextStep, StutterStep
<1> QED  BY <1>1, <1>2, PTL DEF Spec

(* Every variable has its type, and a memory has as many cells as the      *)
(* capacity says, through constructions and moves.                         *)
THEOREM TypeCorrect == Spec => []TypeOK
<1>1. IInv => TypeOK  BY DEF IInv
<1> QED  BY <1>1, InvariantCorrect, PTL

(* The indices are never further apart than the capacity, whatever wraps   *)
(* (get_used_size(), get_free_size()).                                     *)
THEOREM CapacityCorrect == Spec => []WithinCapacity
<1>1. IInv => WithinCapacity  BY DEF IInv
<1> QED  BY <1>1, InvariantCorrect, PTL

(* There is a first part exactly when there are bytes, or room for them    *)
(* (get_direct_enqueue_size(), get_direct_dequeue_size()).                 *)
THEOREM DirectPartsCorrect == Spec => []DirectPartsUsable
<1>1. ASSUME IInv, NEW b \in Buffer
      PROVE  /\ Free_size(b) > 0 <=> Direct_enqueue_size(b) > 0
             /\ Used_size(b) > 0 <=> Direct_dequeue_size(b) > 0
  <2> DEFINE head == Space_to_end(b, read_index[b])
             tail == Space_to_end(b, write_index[b])
  <2>1. Free_size(b) \in Nat /\ Used_size(b) \in Nat  BY <1>1, BufferIs
  <2>2. CASE buffer[b] = NoMemory
    <3>1. Free_size(b) = 0 /\ Used_size(b) = 0
      <4>1. /\ capacity[b] = 0 /\ landed[b] \in Nat /\ Used_size(b) + landed[b] <= capacity[b]
            /\ Free_size(b) = capacity[b] - Used_size(b)
        BY <1>1, <2>2, BufferIs
      <4> QED  BY <2>1, <4>1
    <3>2. ASSUME NEW x \in Int PROVE ~(Smaller(x, 0) > 0)  BY DEF Smaller
    <3>3. head \in Int /\ tail \in Int
      <4>1. /\ mask[b] + 1 \in PowersOfTwo /\ read_index[b] \in Nat /\ write_index[b] \in Nat
            /\ capacity[b] = 0
        BY <1>1, <2>2, BufferIs, SoundIs DEF SoundBuffer
      <4>2. \A p \in PowersOfTwo, x \in Nat : x % p \in Int
        <5>1. ASSUME NEW p \in PowersOfTwo, NEW x \in Nat PROVE x % p \in Int
          <6>1. p \in Nat /\ p > 0  BY PowerIsNat
          <6>2. x % p \in 0 .. p - 1  BY <6>1, Remainder
          <6> QED  BY <6>1, <6>2
        <5> QED  BY <5>1
      <4>3. Slot(b, read_index[b]) \in Int /\ Slot(b, write_index[b]) \in Int
        BY <4>1, <4>2 DEF Slot
      <4> QED  BY <4>1, <4>3 DEF Space_to_end
    <3> QED  BY <3>1, <3>2, <3>3 DEF Direct_enqueue_size, Direct_dequeue_size
  <2>3. CASE buffer[b] # NoMemory
    <3>1. /\ capacity[b] \in PowersOfTwo /\ mask[b] + 1 = capacity[b]
          /\ read_index[b] \in Nat /\ write_index[b] \in Nat
      BY <1>1, <2>3, BufferIs, SoundIs DEF SoundBuffer
    <3>2. head \in 1 .. capacity[b] /\ tail \in 1 .. capacity[b] /\ capacity[b] \in Nat
      BY <3>1, SpaceToEnd, PowerIsNat
    <3>3. ASSUME NEW x \in Nat, NEW y \in Nat, x > 0 PROVE y > 0 <=> Smaller(x, y) > 0
      BY <3>3 DEF Smaller
    <3>4. head \in Nat /\ head > 0 /\ tail \in Nat /\ tail > 0  BY <3>2
    <3> QED  BY <2>1, <3>3, <3>4 DEF Direct_enqueue_size, Direct_dequeue_size
  <2> QED  BY <2>2, <2>3
<1>2. IInv => DirectPartsUsable  BY <1>1 DEF DirectPartsUsable
<1> QED  BY <1>2, InvariantCorrect, PTL

(* A ring buffer is a bounded queue of bytes: every operation, copied or   *)
(* direct, does to the bytes between the indices what it does to a queue   *)
(* and returns the same (RingBuffer.cpp).                                  *)
THEOREM QueueImplemented == Spec => ImplementsByteQueue
<1>1. Init => Queue!Init  BY InitStep
<1>2. IInv /\ [Next]_vars => [Queue!Next]_(Queue!vars)  BY NextStep, StutterStep
<1> QED  BY <1>1, <1>2, InvariantCorrect, PTL DEF Spec, ImplementsByteQueue, Queue!Spec
=============================================================================
