------------------------ MODULE RangePlacementProofs ------------------------
(***************************************************************************)
(* What placing ranges without a lock keeps, for any number of claims and  *)
(* humans; that FirstGap finds the lowest gap, whatever is occupied; and   *)
(* that the two together implement the atomic allocator.  The first part   *)
(* does not look into FirstGap: what it returns only decides which range   *)
(* is asked for.  The second is an induction over its loop and over the    *)
(* recursive functions it is built from.  The library's induction theorems *)
(* take an operator as a parameter, which the provers cannot instantiate,  *)
(* so each induction is by least counterexample (HasLeast).                *)
(***************************************************************************)
EXTENDS MCRangePlacement, FiniteSetTheorems, WellFoundedInduction, TLAPS

-----------------------------------------------------------------------------
(* What is placed, and how often. *)

Ended == {"placed", "lost"}

\* worker is a function to records with a pc.
Shape ==
  /\ DOMAIN worker = Workers
  /\ worker = [c \in Workers |-> worker[c]]
  /\ \A c \in Workers : /\ "pc" \in DOMAIN worker[c]
                        /\ worker[c] = [x \in DOMAIN worker[c] |-> worker[c][x]]

\* A claim's range lies in the parent's VRF, its placement has ended, and it is the only one.
Single ==
  /\ \A r \in ranges : r.by \in Workers => r.vrf = "parent" /\ worker[r.by].pc \in Ended
  /\ \A r, t \in ranges : r.by \in Workers /\ t.by = r.by => r = t

IInv == Shape /\ Single /\ PlacedDisjoint

\* Marking every placement as raced changes no pc.
LEMMA RacedKeepsPC ==
  ASSUME NEW w, "pc" \in DOMAIN w, w = [x \in DOMAIN w |-> w[x]]
  PROVE  /\ "pc" \in DOMAIN Raced(w)
         /\ Raced(w) = [x \in DOMAIN Raced(w) |-> Raced(w)[x]]
         /\ Raced(w).pc = w.pc
BY DEF Raced

\* A set all of whose elements are equal has at most one.
LEMMA AtMostOne ==
  ASSUME NEW S, \A x, y \in S : x = y
  PROVE  Cardinality(S) <= 1
<1>1. CASE S = {}
  BY <1>1, FS_EmptySet
<1>2. CASE S # {}
  <2>1. PICK x \in S : TRUE
    BY <1>2
  <2>2. S = {x}
    BY <2>1
  <2> QED
    BY <2>2, FS_Singleton
<1> QED
  BY <1>1, <1>2

\* The initial states, before any range is placed (allocate.go placeRange).
LEMMA InitIInv == Init => IInv
<1> SUFFICES ASSUME Init PROVE IInv
  OBVIOUS
<1>1. Shape
  BY DEF Init, Shape, Placement
<1>2. Single /\ PlacedDisjoint
  BY DEF Init, Single, PlacedDisjoint
<1> QED
  BY <1>1, <1>2 DEF IInv

\* Every step of a placement and of a human keeps the ranges apart (allocate.go placeRange).
LEMMA NextIInv == IInv /\ [Next]_vars => IInv'
<1> SUFFICES ASSUME IInv, [Next]_vars PROVE IInv'
  OBVIOUS
<1> USE DEF IInv
<1>1. CASE UNCHANGED vars
  BY <1>1 DEF vars, Shape, Single, PlacedDisjoint
<1>2. ASSUME NEW c \in Workers, worker[c].pc \notin Ended, UNCHANGED ranges,
             NEW w, worker' = [worker EXCEPT ![c] = w],
             "pc" \in DOMAIN w, w = [x \in DOMAIN w |-> w[x]]
      PROVE  IInv'
  <2>1. Shape'
    BY <1>2 DEF Shape
  <2>2. Single'
    BY <1>2 DEF Single, Shape
  <2>3. PlacedDisjoint'
    BY <1>2 DEF PlacedDisjoint
  <2> QED
    BY <2>1, <2>2, <2>3
<1>3. ASSUME NEW c \in Workers, Start(c) PROVE IInv'
  BY <1>2, <1>3 DEF Start, Shape, Ended
<1>4. ASSUME NEW c \in Workers, NextRange(c) PROVE IInv'
  <2> DEFINE w == worker'[c]
  <2>1. worker[c].pc = "read" /\ ranges' = ranges
    BY <1>4 DEF NextRange
  <2>2. PICK p, g : worker' = [worker EXCEPT ![c] =
                     [worker[c] EXCEPT !.pc = p, !.placed = g, !.raced = FALSE]]
    BY <1>4 DEF NextRange
  <2>3. worker' = [worker EXCEPT ![c] = w] /\ "pc" \in DOMAIN w /\ w = [x \in DOMAIN w |-> w[x]]
    BY <2>2 DEF Shape
  <2> QED
    BY <1>2, <2>1, <2>3 DEF Ended
<1>5. ASSUME NEW c \in Workers, CallFails(c) PROVE IInv'
  BY <1>2, <1>5 DEF CallFails, Lost, Shape, Ended
<1>6. ASSUME NEW c \in Workers, CreateRange(c) PROVE IInv'
  <2> DEFINE r == Body(c)
  <2>1. CASE Refused(r)
    <3> DEFINE w == worker'[c]
    <3>1. worker[c].pc = "post" /\ ranges' = ranges
      BY <1>6, <2>1 DEF CreateRange
    <3>2. PICK p, n : worker' = [worker EXCEPT ![c] =
                       [worker[c] EXCEPT !.pc = p, !.attempt = n]]
      BY <1>6, <2>1 DEF CreateRange, Overlapped
    <3>3. worker' = [worker EXCEPT ![c] = w] /\ "pc" \in DOMAIN w /\ w = [x \in DOMAIN w |-> w[x]]
      BY <3>2 DEF Shape
    <3> QED
      BY <1>2, <3>1, <3>3 DEF Ended
  <2>2. CASE ~Refused(r)
    <3>1. /\ worker[c].pc = "post" /\ ranges' = ranges \cup {r}
          /\ r.by = c /\ r.vrf = "parent"
      BY <1>6, <2>2 DEF CreateRange, Body
    <3>2. PICK v : /\ worker' = [d \in Workers |-> IF d = c THEN v ELSE Raced(worker[d])]
                   /\ v \in {[worker[c] EXCEPT !.pc = "placed"], [worker[c] EXCEPT !.pc = "lost"]}
      BY <1>6, <2>2 DEF CreateRange, Lost
    <3>3. v.pc \in Ended /\ "pc" \in DOMAIN v /\ v = [x \in DOMAIN v |-> v[x]]
      BY <3>2 DEF Shape, Ended
    <3>4. Shape'
      BY <3>2, <3>3, RacedKeepsPC DEF Shape
    <3>5. \A d \in Workers : worker'[d].pc = IF d = c THEN v.pc ELSE worker[d].pc
      BY <3>2, RacedKeepsPC DEF Shape
    <3>6. \A t \in ranges : t.by # c
      BY <3>1 DEF Single, Ended
    <3>7. Single'
      BY <3>1, <3>3, <3>5, <3>6 DEF Single
    <3>8. \A t \in ranges : t.vrf = "parent" => ~Touches(r, t) /\ ~Touches(t, r)
      BY <2>2, <3>1 DEF Refused, Touches
    <3>9. PlacedDisjoint'
      BY <3>1, <3>8 DEF PlacedDisjoint, Single
    <3> QED
      BY <3>4, <3>7, <3>9
  <2> QED
    BY <2>1, <2>2
<1>7. CASE HumanRange
  <2>1. Shape' /\ \A d \in Workers : worker'[d].pc = worker[d].pc
    BY <1>7, RacedKeepsPC DEF HumanRange, Shape
  <2>2. CASE \E t \in ranges : ranges' = ranges \ {t}
    BY <2>1, <2>2 DEF Single, PlacedDisjoint
  <2>3. ASSUME NEW r, r.by = "human", ~Refused(r), ranges' = ranges \cup {r}
        PROVE  IInv'
    <3>1. Single'
      BY <2>1, <2>3, ConstantsAssumption DEF Single
    <3>2. \A t \in ranges : t.vrf = r.vrf => ~Touches(r, t) /\ ~Touches(t, r)
      BY <2>3 DEF Refused, Touches
    <3>3. PlacedDisjoint'
      BY <2>3, <3>2, ConstantsAssumption DEF PlacedDisjoint, Single
    <3> QED
      BY <2>1, <3>1, <3>3
  <2> QED
    BY <1>7, <2>2, <2>3 DEF HumanRange
<1> QED
  BY <1>1, <1>3, <1>4, <1>5, <1>6, <1>7 DEF Next

\* No range a claim holds ever touches another range of the parent's VRF, whatever was stale
\* when it was computed (allocate.go placeRange, createRange).
THEOREM Disjoint == Spec => []PlacedDisjoint
<1>1. IInv => PlacedDisjoint
  BY DEF IInv
<1> QED
  BY InitIInv, NextIInv, <1>1, PTL DEF Spec

\* One placement never leaves two ranges, though any answer may be lost (allocate.go
\* placeRange).
THEOREM Once == Spec => []OneRangeEach
<1>1. IInv => OneRangeEach
  <2> SUFFICES ASSUME IInv, NEW c \in Workers
               PROVE  Cardinality({r \in ranges : r.by = c}) <= 1
    BY DEF OneRangeEach
  <2>1. \A x, y \in {r \in ranges : r.by = c} : x = y
    BY DEF IInv, Single
  <2> QED
    BY <2>1, AtMostOne
<1> QED
  BY InitIInv, NextIInv, <1>1, PTL DEF Spec
-----------------------------------------------------------------------------
(* FirstGap is right. *)

\* A set of natural numbers that is not empty has a least element.
LEMMA HasLeast ==
  ASSUME NEW S \in SUBSET Nat, S # {}
  PROVE  \E x \in S : \A y \in S : x <= y
<1> DEFINE Less == {ss \in Nat \X Nat : ss[1] < ss[2]}
<1>1. OpToRel(<, Nat) = Less
  BY DEF OpToRel
<1>2. PICK x \in S : \A y \in S : ~(<<y, x>> \in OpToRel(<, Nat))
  BY NatLessThanWellFounded, WFMin
<1>3. \A y \in S : ~(<<y, x>> \in Less)
  BY <1>1, <1>2
<1>4. \A y \in S : x =< y
  <2> SUFFICES ASSUME NEW y \in S, y < x PROVE FALSE
    OBVIOUS
  <2>1. <<y, x>> \in Less
    OBVIOUS
  <2> QED
    BY <1>3, <2>1
<1> QED
  BY <1>4

LEMMA MinIs ==
  ASSUME NEW S \in SUBSET Nat, NEW x \in S, \A y \in S : x <= y
  PROVE  Min(S) = x
<1> DEFINE m == CHOOSE z \in S : \A y \in S : z =< y
<1>1. m \in S /\ \A y \in S : m =< y
  OBVIOUS
<1>2. m = x
  <2> HIDE DEF m
  <2> QED
    BY <1>1
<1> QED
  BY <1>2 DEF Min

LEMMA MinIsMember ==
  ASSUME NEW S \in SUBSET Nat, S # {}
  PROVE  Min(S) \in S
  BY HasLeast, MinIs

(* The three recursive functions are defined: were one not, there would be a least bound up to
   which it is not, and one more value would extend it there. *)

PowerOf(g, k) == IF k = 0 THEN 1 ELSE 2 * g[k - 1]

LEMMA PowersExist ==
  ASSUME NEW N \in Nat
  PROVE  \E g : g = [k \in 0..N |-> PowerOf(g, k)]
<1> DEFINE Ok(g, n) == g = [k \in 0..n |-> PowerOf(g, k)]
           Bad == {n \in Nat : \A g : ~Ok(g, n)}
<1> SUFFICES ASSUME Bad # {} PROVE FALSE
  OBVIOUS
<1>1. PICK n \in Bad : \A j \in Bad : n <= j
  BY HasLeast
<1>2. n # 0
  <2> DEFINE g == [k \in 0..0 |-> 1]
  <2>1. Ok(g, 0)
    BY DEF PowerOf
  <2> QED
    BY <1>1, <2>1
<1>3. n - 1 \in Nat /\ n - 1 \notin Bad
  BY <1>1, <1>2
<1>4. PICK g : Ok(g, n - 1)
  BY <1>3
<1> DEFINE h == [k \in 0..n |-> PowerOf(g, k)]
<1>5. ASSUME NEW k \in 0..n PROVE h[k] = PowerOf(h, k)
  <2>1. h[k] = PowerOf(g, k)
    OBVIOUS
  <2>2. k # 0 => h[k - 1] = g[k - 1]
    <3> DEFINE gg == [e \in 0..(n - 1) |-> PowerOf(g, e)]
    <3>1. k # 0 => gg[k - 1] = PowerOf(g, k - 1) /\ h[k - 1] = PowerOf(g, k - 1)
      BY <1>1, <1>5
    <3> QED
      BY <1>4, <3>1, Zenon
  <2> QED
    BY <2>1, <2>2 DEF PowerOf
<1>6. Ok(h, n)
  BY <1>5
<1> QED
  BY <1>1, <1>6

ShiftOf(g, n) == IF n = 0 THEN 1 ELSE 2 * g[n \div 2]

LEMMA ShiftsExist ==
  ASSUME NEW N \in Nat
  PROVE  \E g : g = [k \in 0..N |-> ShiftOf(g, k)]
<1> DEFINE Ok(g, n) == g = [k \in 0..n |-> ShiftOf(g, k)]
           Bad == {n \in Nat : \A g : ~Ok(g, n)}
<1> SUFFICES ASSUME Bad # {} PROVE FALSE
  OBVIOUS
<1>1. PICK n \in Bad : \A j \in Bad : n <= j
  BY HasLeast
<1>2. n # 0
  <2> DEFINE g == [k \in 0..0 |-> 1]
  <2>1. Ok(g, 0)
    BY DEF ShiftOf
  <2> QED
    BY <1>1, <2>1
<1>3. n - 1 \in Nat /\ n - 1 \notin Bad
  BY <1>1, <1>2
<1>4. PICK g : Ok(g, n - 1)
  BY <1>3
<1> DEFINE h == [k \in 0..n |-> ShiftOf(g, k)]
<1>5. ASSUME NEW k \in 0..n PROVE h[k] = ShiftOf(h, k)
  <2>1. h[k] = ShiftOf(g, k)
    OBVIOUS
  <2>2. k # 0 => h[k \div 2] = g[k \div 2]
    <3> DEFINE gg == [e \in 0..(n - 1) |-> ShiftOf(g, e)]
    <3>1. k # 0 => k \div 2 \in 0..(n - 1) /\ k \div 2 \in 0..n
      BY <1>1, <1>5
    <3>2. k # 0 => gg[k \div 2] = ShiftOf(g, k \div 2) /\ h[k \div 2] = ShiftOf(g, k \div 2)
      BY <3>1
    <3> QED
      BY <1>4, <3>2, Zenon
  <2> QED
    BY <2>1, <2>2 DEF ShiftOf
<1>6. Ok(h, n)
  BY <1>5
<1> QED
  BY <1>1, <1>6

\* Turn i of the loop, after the turns in g.
TurnOf(busy, size, align, g, i) ==
  IF i = 0 THEN [left |-> busy, cursor |-> ParentLo, done |-> FALSE, placed |-> Nowhere]
  ELSE LET taken == Lowest(g[i - 1].left) IN
       [Advance(size, align, g[i - 1], taken) EXCEPT !.left = @ \ {taken}]

LEMMA LoopsExist ==
  ASSUME NEW busy, NEW size, NEW align, NEW N \in Nat
  PROVE  \E g : g = [i \in 0..N |-> TurnOf(busy, size, align, g, i)]
<1> DEFINE T(g, i) == TurnOf(busy, size, align, g, i)
           Ok(g, n) == g = [i \in 0..n |-> T(g, i)]
           Bad == {n \in Nat : \A g : ~Ok(g, n)}
<1> SUFFICES ASSUME Bad # {} PROVE FALSE
  OBVIOUS
<1>1. PICK n \in Bad : \A j \in Bad : n <= j
  BY HasLeast
<1>2. n # 0
  <2> DEFINE g == [i \in 0..0 |-> T(<<>>, 0)]
  <2>1. Ok(g, 0)
    BY DEF TurnOf
  <2> QED
    BY <1>1, <2>1
<1>3. n - 1 \in Nat /\ n - 1 \notin Bad
  BY <1>1, <1>2
<1>4. PICK g : Ok(g, n - 1)
  BY <1>3
<1> DEFINE h == [i \in 0..n |-> T(g, i)]
<1>5. ASSUME NEW i \in 0..n PROVE h[i] = T(h, i)
  <2>1. h[i] = T(g, i)
    OBVIOUS
  <2>2. i # 0 => h[i - 1] = g[i - 1]
    <3> DEFINE gg == [e \in 0..(n - 1) |-> T(g, e)]
    <3> HIDE DEF T
    <3>1. i # 0 => gg[i - 1] = T(g, i - 1) /\ h[i - 1] = T(g, i - 1)
      BY <1>1, <1>5
    <3> QED
      BY <1>4, <3>1, Zenon
  <2> HIDE DEF h
  <2>3. T(g, i) = T(h, i)
    BY <2>2 DEF TurnOf
  <2> QED
    BY <2>1, <2>3
<1>6. Ok(h, n)
  <2> HIDE DEF T
  <2> QED
    BY <1>5
<1> QED
  BY <1>1, <1>6

\* The block is the least power of two that is not smaller than the size (placement.go blockSize).
LEMMA BlockIs ==
  ASSUME NEW size \in Nat \ {0}
  PROVE  /\ BlockSize(size) \in Nat \ {0}
         /\ \A s : Allocator!Aligned(s, size) <=> s % BlockSize(size) = 0
<1> DEFINE p == CHOOSE g : g = [k \in 0..size |-> PowerOf(g, k)]
           b == CHOOSE g : g = [k \in 0..(size - 1) |-> ShiftOf(g, k)]
<1>1. /\ BlockSize(size) = b[size - 1]
      /\ \A s : Allocator!Aligned(s, size) <=>
           \E k \in 0..size : /\ p[k] >= size /\ \A j \in 0..(k - 1) : p[j] < size
                              /\ s % p[k] = 0
  BY DEF BlockSize, ShiftOf, Allocator!Aligned, PowerOf
<1>2. p = [k \in 0..size |-> PowerOf(p, k)]
  BY PowersExist
<1>3. b = [k \in 0..(size - 1) |-> ShiftOf(b, k)]
  <2>1. size - 1 \in Nat
    OBVIOUS
  <2> QED
    BY <2>1, ShiftsExist
<1> HIDE DEF p, b
<1>4. ASSUME NEW k \in 0..size PROVE p[k] = PowerOf(p, k)
  <2> DEFINE pp == [j \in 0..size |-> PowerOf(p, j)]
  <2>1. pp[k] = PowerOf(p, k)
    OBVIOUS
  <2> QED
    BY <1>2, <2>1, Zenon
<1>5. ASSUME NEW n \in 0..(size - 1) PROVE b[n] = ShiftOf(b, n)
  <2> DEFINE bb == [j \in 0..(size - 1) |-> ShiftOf(b, j)]
  <2>1. bb[n] = ShiftOf(b, n)
    OBVIOUS
  <2> QED
    BY <1>3, <2>1, Zenon
<1>6. ASSUME NEW k \in 0..size PROVE p[k] \in Nat \ {0}
  <2> DEFINE Bad == {j \in 0..size : p[j] \notin Nat \ {0}}
  <2> SUFFICES ASSUME Bad # {} PROVE FALSE
    OBVIOUS
  <2>0. Bad \in SUBSET Nat
    OBVIOUS
  <2>1. PICK j \in Bad : \A i \in Bad : j <= i
    <3> HIDE DEF Bad
    <3> QED
      BY <2>0, HasLeast
  <2>2. j # 0 => p[j - 1] \in Nat \ {0}
    BY <2>1
  <2> QED
    BY <1>4, <2>1, <2>2 DEF PowerOf
<1>7. ASSUME NEW n \in 0..(size - 1)
      PROVE  \E k \in 0..n : b[n] = p[k] /\ p[k] > n /\ \A j \in 0..(k - 1) : p[j] <= n
  <2> DEFINE Ok(m) == \E k \in 0..m : b[m] = p[k] /\ p[k] > m /\ \A j \in 0..(k - 1) : p[j] <= m
             Bad == {m \in 0..(size - 1) : ~Ok(m)}
  <2> SUFFICES ASSUME Bad # {} PROVE FALSE
    OBVIOUS
  <2>0. Bad \in SUBSET Nat
    OBVIOUS
  <2>1. PICK m \in Bad : \A i \in Bad : m <= i
    <3> HIDE DEF Bad
    <3> QED
      BY <2>0, HasLeast
  <2>2. m \in 0..(size - 1) /\ ~Ok(m)
    BY <2>1
  <2>3. CASE m = 0
    <3>1. b[0] = 1 /\ p[0] = 1
      BY <1>4, <1>5 DEF PowerOf, ShiftOf
    <3> QED
      BY <2>2, <2>3, <3>1
  <2>4. CASE m # 0
    <3> DEFINE h == m \div 2
    <3>1. h \in 0..(m - 1) /\ 2 * h <= m /\ m <= 2 * h + 1
      BY <2>2, <2>4
    <3>2. b[m] = 2 * b[h]
      BY <1>5, <2>2, <2>4 DEF ShiftOf
    <3> HIDE DEF h
    <3>3. Ok(h)
      BY <2>1, <2>2, <3>1
    <3>4. PICK k \in 0..h : b[h] = p[k] /\ p[k] > h /\ \A j \in 0..(k - 1) : p[j] <= h
      BY <3>3
    <3>5. k + 1 \in 0..m /\ k + 1 \in 0..size /\ k \in 0..size /\ p[k] \in Nat
      BY <1>6, <2>2, <3>1, <3>4
    <3>6. p[k + 1] = 2 * p[k]
      BY <1>4, <3>5 DEF PowerOf
    <3>7. b[m] = p[k + 1] /\ p[k + 1] > m
      BY <2>2, <3>1, <3>2, <3>4, <3>5, <3>6
    <3>8. ASSUME NEW j \in 0..k PROVE p[j] <= m
      <4>1. j \in 0..size
        BY <3>5
      <4>2. CASE j = 0
        BY <1>4, <2>2, <2>4, <4>1, <4>2 DEF PowerOf
      <4>3. CASE j # 0
        <5>1. j - 1 \in 0..(k - 1) /\ j - 1 \in 0..size
          BY <3>5, <4>3
        <5>2. p[j] = 2 * p[j - 1] /\ p[j - 1] \in Nat /\ p[j - 1] <= h
          BY <1>4, <1>6, <3>4, <4>1, <4>3, <5>1 DEF PowerOf
        <5> QED
          BY <2>2, <3>1, <5>2
      <4> QED
        BY <4>2, <4>3
    <3>9. (k + 1) - 1 = k
      BY <3>5
    <3> QED
      BY <2>2, <3>5, <3>7, <3>8, <3>9
  <2> QED
    BY <2>3, <2>4
<1>8. PICK k \in 0..(size - 1) : /\ b[size - 1] = p[k] /\ p[k] > size - 1
                                 /\ \A j \in 0..(k - 1) : p[j] <= size - 1
  <2>1. size - 1 \in 0..(size - 1)
    OBVIOUS
  <2> QED
    BY <1>7, <2>1
<1>9. k \in 0..size /\ p[k] >= size /\ \A j \in 0..(k - 1) : p[j] < size
  <2>1. k \in 0..size
    OBVIOUS
  <2>2. \A j \in 0..(k - 1) : j \in 0..size /\ p[j] \in Nat
    BY <1>6
  <2> QED
    BY <1>6, <1>8, <2>1, <2>2
<1>10. ASSUME NEW i \in 0..size, p[i] >= size, \A j \in 0..(i - 1) : p[j] < size
       PROVE  i = k
  <2>1. p[i] \in Nat /\ p[k] \in Nat
    BY <1>6, <1>9
  <2>2. ~(i < k)
    BY <1>9, <1>10, <2>1
  <2>3. ~(k < i)
    BY <1>9, <1>10, <2>1
  <2> QED
    BY <2>2, <2>3
<1>11. \A s : Allocator!Aligned(s, size) <=> s % p[k] = 0
  BY <1>1, <1>9, <1>10
<1> QED
  BY <1>1, <1>6, <1>8, <1>9, <1>11

\* alignUp returns the least multiple of the block that is not below the value.
LEMMA AlignUpIs ==
  ASSUME NEW v \in Nat, NEW b \in Nat \ {0}
  PROVE  /\ AlignUp(v, b) \in Nat /\ AlignUp(v, b) >= v /\ AlignUp(v, b) % b = 0
         /\ \A r \in Nat : r >= v /\ r % b = 0 => AlignUp(v, b) <= r
<1> DEFINE q == v \div b
           m == v % b
<1>1. v = b * q + m /\ q \in Nat /\ m \in 0..(b - 1)
  OBVIOUS
<1>2. AlignUp(v, b) = v + ((b - m) % b)
  BY DEF AlignUp
<1> HIDE DEF q, m
<1>3. CASE m = 0
  <2>1. (b - m) % b = 0
    BY <1>3
  <2>2. AlignUp(v, b) = v
    BY <1>2, <2>1
  <2>3. v % b = 0
    BY <1>3 DEF m
  <2> QED
    BY <2>2, <2>3
<1>4. CASE m # 0
  <2>1. (b - m) % b = b - m
    BY <1>1, <1>4
  <2>2. AlignUp(v, b) = b * (q + 1)
    BY <1>1, <1>2, <2>1
  <2>3. (b * (q + 1)) % b = 0 /\ b * (q + 1) \in Nat
    BY <1>1
  <2>4. b * (q + 1) >= v
    BY <1>1
  <2>5. ASSUME NEW r \in Nat, r >= v, r % b = 0 PROVE b * (q + 1) <= r
    <3>1. PICK n \in Nat : r = b * n
      BY <2>5
    <3>2. b * n > b * q
      BY <1>1, <1>4, <2>5, <3>1
    <3>3. n > q
      BY <1>1, <3>2
    <3>4. n >= q + 1
      BY <1>1, <3>3
    <3> QED
      BY <1>1, <3>1, <3>4
  <2> QED
    BY <2>2, <2>3, <2>4, <2>5
<1> QED
  BY <1>1, <1>3, <1>4

Suits(s, size, align) == align = "PowerOfTwo" => Allocator!Aligned(s, size)

\* fit places at the least start that suits, or there is no room for any.
LEMMA FitIs ==
  ASSUME NEW lo \in Nat, NEW hi \in Int, NEW size \in Nat \ {0}, NEW align
  PROVE  LET fit == Fit(lo, hi, size, align) IN
         \/ fit = Nowhere /\ \A r \in Nat : r >= lo /\ Suits(r, size, align) => r + size - 1 > hi
         \/ fit # Nowhere /\ \E s \in Nat :
              /\ s >= lo /\ s + size - 1 <= hi /\ Suits(s, size, align)
              /\ fit = [lo |-> s, hi |-> s + size - 1]
              /\ \A r \in Nat : r >= lo /\ Suits(r, size, align) => s <= r
<1> DEFINE start == IF align = "PowerOfTwo" THEN AlignUp(lo, BlockSize(size)) ELSE lo
<1>1. /\ start \in Nat /\ start >= lo /\ Suits(start, size, align)
      /\ \A r \in Nat : r >= lo /\ Suits(r, size, align) => start <= r
  <2>1. CASE align = "PowerOfTwo"
    BY <2>1, BlockIs, AlignUpIs DEF Suits
  <2>2. CASE align # "PowerOfTwo"
    BY <2>2 DEF Suits
  <2> QED
    BY <2>1, <2>2
<1>2. Fit(lo, hi, size, align) =
        IF lo > hi \/ start + size - 1 > hi THEN Nowhere ELSE [lo |-> start, hi |-> start + size - 1]
  BY DEF Fit
<1> HIDE DEF start
<1>3. CASE lo > hi \/ start + size - 1 > hi
  <2>1. \A r \in Nat : r >= lo /\ Suits(r, size, align) => r + size - 1 > hi
    BY <1>1, <1>3
  <2> QED
    BY <1>2, <1>3, <2>1
<1>4. CASE ~(lo > hi \/ start + size - 1 > hi)
  <2>1. Fit(lo, hi, size, align) = [lo |-> start, hi |-> start + size - 1]
    BY <1>2, <1>4
  <2>2. Fit(lo, hi, size, align).lo = start /\ Nowhere.lo = -1
    BY <2>1 DEF Nowhere
  <2>3. Fit(lo, hi, size, align) # Nowhere /\ start + size - 1 <= hi
    BY <1>1, <1>4, <2>2
  <2> QED
    BY <1>1, <2>1, <2>3
<1> QED
  BY <1>3, <1>4

\* Clipping loses nothing inside the parent (placement.go clip).
LEMMA BusyIs ==
  ASSUME NEW occupied \in SUBSET Interval
  PROVE  /\ Busy(occupied) \in SUBSET Interval /\ IsFiniteSet(Busy(occupied))
         /\ \A t \in Busy(occupied) : /\ t.lo \in Nat /\ t.hi \in Nat
                                      /\ ParentLo <= t.lo /\ t.lo <= t.hi /\ t.hi <= ParentHi
         /\ \A a, z \in Nat : ParentLo <= a /\ a <= z /\ z <= ParentHi =>
              ((\E t \in occupied : t.lo <= t.hi /\ Touches([lo |-> a, hi |-> z], t))
                 <=> \E t \in Busy(occupied) : a <= t.hi /\ t.lo <= z)
<1>0. /\ ParentLo \in Nat /\ ParentHi \in Nat /\ ParentLo <= ParentHi
      /\ ParentLo \in Addresses /\ ParentHi \in Addresses /\ Addresses \subseteq Nat
      /\ IsFiniteSet(Addresses)
  BY ConstantsAssumption, FS_Interval DEF Addresses
<1>1. ASSUME NEW t \in occupied
      PROVE  /\ t.lo \in Nat /\ t.hi \in Nat /\ Clip(t) \in Interval
             /\ Clip(t).lo = IF t.lo < ParentLo THEN ParentLo ELSE t.lo
             /\ Clip(t).hi = IF t.hi > ParentHi THEN ParentHi ELSE t.hi
  BY <1>0 DEF Interval, Clip
<1>2. \A t \in Busy(occupied) : \E u \in occupied : /\ t = Clip(u) /\ u.lo <= u.hi
                                                     /\ u.hi >= ParentLo /\ u.lo <= ParentHi
  BY DEF Busy
<1>3. Busy(occupied) \in SUBSET Interval
  BY <1>1, <1>2
<1>4. IsFiniteSet(Interval)
  <2> DEFINE P == Addresses \X Addresses
             f == [p \in P |-> [lo |-> p[1], hi |-> p[2]]]
             I == {f[p] : p \in P}
  <2>1. IsFiniteSet(P)
    BY <1>0, FS_Product
  <2>2. f \in [P -> Interval]
    BY DEF Interval
  <2>3. \A t \in Interval : <<t.lo, t.hi>> \in P /\ t = f[<<t.lo, t.hi>>]
    BY DEF Interval
  <2>4. f \in Surjection(P, Interval)
    <3> HIDE DEF P, f
    <3> QED
      BY <2>2, <2>3 DEF Surjection
  <2> QED
    BY <2>1, <2>4, FS_Surjection
<1>5. ASSUME NEW t \in Busy(occupied)
      PROVE  /\ t.lo \in Nat /\ t.hi \in Nat
             /\ ParentLo <= t.lo /\ t.lo <= t.hi /\ t.hi <= ParentHi
  BY <1>0, <1>1, <1>2
<1>6. ASSUME NEW a \in Nat, NEW z \in Nat, ParentLo <= a, a <= z, z <= ParentHi,
             NEW t \in occupied, t.lo <= t.hi, Touches([lo |-> a, hi |-> z], t)
      PROVE  \E u \in Busy(occupied) : a <= u.hi /\ u.lo <= z
  <2>1. a <= t.hi /\ t.lo <= z
    BY <1>6 DEF Touches
  <2>2. t.hi >= ParentLo /\ t.lo <= ParentHi
    BY <1>0, <1>1, <1>6, <2>1
  <2>3. Clip(t) \in Busy(occupied)
    BY <1>6, <2>2 DEF Busy
  <2>4. a <= Clip(t).hi /\ Clip(t).lo <= z
    BY <1>0, <1>1, <1>6, <2>1
  <2> QED
    BY <2>3, <2>4
<1>7. ASSUME NEW a \in Nat, NEW z \in Nat, ParentLo <= a, a <= z, z <= ParentHi,
             NEW t \in Busy(occupied), a <= t.hi, t.lo <= z
      PROVE  \E u \in occupied : u.lo <= u.hi /\ Touches([lo |-> a, hi |-> z], u)
  <2>1. PICK u \in occupied : t = Clip(u) /\ u.lo <= u.hi
    BY <1>2
  <2>2. a <= u.hi /\ u.lo <= z
    BY <1>0, <1>1, <1>7, <2>1
  <2> QED
    BY <2>1, <2>2 DEF Touches
<1>8. IsFiniteSet(Busy(occupied))
  BY <1>3, <1>4, FS_Subset
<1> QED
  BY <1>3, <1>5, <1>6, <1>7, <1>8

\* The free starts, by the clipped intervals.
LEMMA FreeIs ==
  ASSUME NEW occupied \in SUBSET Interval, NEW size \in Nat \ {0}, NEW align
  PROVE  \A s : s \in Allocator!Free(occupied, size, align) <=>
           /\ s \in Nat /\ ParentLo <= s /\ s + size - 1 <= ParentHi /\ Suits(s, size, align)
           /\ \A t \in Busy(occupied) : ~(s <= t.hi /\ t.lo <= s + size - 1)
<1>0. ParentLo \in Nat /\ ParentHi \in Nat
  BY ConstantsAssumption DEF Addresses
<1>1. \A s : s \in Allocator!Free(occupied, size, align) <=>
        /\ s \in ParentLo..ParentHi /\ s + size - 1 <= ParentHi /\ Suits(s, size, align)
        /\ \A t \in occupied : t.lo <= t.hi => ~Touches([lo |-> s, hi |-> s + size - 1], t)
  BY DEF Allocator!Free, Allocator!Overlap, Touches, Suits
<1>2. ASSUME NEW s \in Nat, ParentLo <= s, s + size - 1 <= ParentHi
      PROVE  (\A t \in occupied : t.lo <= t.hi => ~Touches([lo |-> s, hi |-> s + size - 1], t))
               <=> \A t \in Busy(occupied) : ~(s <= t.hi /\ t.lo <= s + size - 1)
  <2>1. s + size - 1 \in Nat /\ s <= s + size - 1
    BY <1>2
  <2> QED
    BY <1>2, <2>1, BusyIs
<1>3. \A s \in Nat : s + size - 1 <= ParentHi => s <= ParentHi
  BY <1>0
<1>4. \A s : s \in ParentLo..ParentHi /\ s + size - 1 <= ParentHi <=>
             s \in Nat /\ ParentLo <= s /\ s + size - 1 <= ParentHi
  BY <1>0, <1>3
<1> QED
  BY <1>1, <1>2, <1>4

\* What FirstGap should return.
Right(gap, free, size) ==
  \/ gap = Nowhere /\ free = {}
  \/ \E s \in free : (\A r \in free : s <= r) /\ gap = [lo |-> s, hi |-> s + size - 1]

\* The loop's invariant: it has ended with the right answer, or everything occupied that it has
\* passed lies below the cursor, and nothing free does.
WalkOK(walk, busy, free, size) ==
  /\ walk \in [left : SUBSET busy, cursor : Nat, done : BOOLEAN, placed : [lo : Int, hi : Int]]
  /\ walk.done => Right(walk.placed, free, size)
  /\ ~walk.done =>
       /\ ParentLo <= walk.cursor /\ walk.cursor <= ParentHi /\ walk.placed = Nowhere
       /\ \A t \in busy \ walk.left : t.hi < walk.cursor
       /\ \A r \in free : walk.cursor <= r

\* A gap at the cursor that ends below everything still to come is the right answer, and one that
\* is too small leaves nothing free before its end.
LEMMA GapAtCursor ==
  ASSUME NEW occupied \in SUBSET Interval, NEW size \in Nat \ {0}, NEW align,
         NEW cursor \in Nat, ParentLo <= cursor, NEW hi \in Int, hi <= ParentHi,
         \A t \in Busy(occupied) : t.hi < cursor \/ t.lo > hi,
         \A r \in Allocator!Free(occupied, size, align) : cursor <= r
  PROVE  LET fit == Fit(cursor, hi, size, align)
             free == Allocator!Free(occupied, size, align)
         IN  /\ fit # Nowhere => Right(fit, free, size)
             /\ fit = Nowhere => \A r \in free : r + size - 1 > hi
             /\ fit \in [lo : Int, hi : Int]
<1> DEFINE fit == Fit(cursor, hi, size, align)
           free == Allocator!Free(occupied, size, align)
<1>0. ParentLo \in Nat /\ ParentHi \in Nat
  BY ConstantsAssumption DEF Addresses
<1>1. \A r \in free : r \in Nat /\ cursor <= r /\ Suits(r, size, align)
  BY FreeIs
<1>2. \/ fit = Nowhere /\ \A r \in Nat : r >= cursor /\ Suits(r, size, align) => r + size - 1 > hi
      \/ fit # Nowhere /\ \E s \in Nat :
           /\ s >= cursor /\ s + size - 1 <= hi /\ Suits(s, size, align)
           /\ fit = [lo |-> s, hi |-> s + size - 1]
           /\ \A r \in Nat : r >= cursor /\ Suits(r, size, align) => s <= r
  BY FitIs
<1>3. CASE fit = Nowhere
  <2>1. \A r \in free : r + size - 1 > hi
    BY <1>1, <1>2, <1>3
  <2>2. Nowhere \in [lo : Int, hi : Int]
    BY DEF Nowhere
  <2> QED
    BY <1>3, <2>1, <2>2
<1>4. CASE fit # Nowhere
  <2>1. PICK s \in Nat :
           /\ s >= cursor /\ s + size - 1 <= hi /\ Suits(s, size, align)
           /\ fit = [lo |-> s, hi |-> s + size - 1]
           /\ \A r \in Nat : r >= cursor /\ Suits(r, size, align) => s <= r
    BY <1>2, <1>4
  <2>2. ASSUME NEW t \in Busy(occupied) PROVE ~(s <= t.hi /\ t.lo <= s + size - 1)
    BY <2>1, BusyIs
  <2>3. ParentLo <= s /\ s + size - 1 <= ParentHi
    BY <1>0, <2>1
  <2>4. s \in free
    BY <2>1, <2>2, <2>3, FreeIs
  <2>5. \A r \in free : s <= r
    BY <1>1, <2>1
  <2>6. fit \in [lo : Int, hi : Int]
    BY <2>1
  <2> HIDE DEF fit, free
  <2>7. Right(fit, free, size)
    BY <2>1, <2>4, <2>5 DEF Right
  <2>8. /\ fit # Nowhere => Right(fit, free, size)
        /\ fit = Nowhere => \A r \in free : r + size - 1 > hi
        /\ fit \in [lo : Int, hi : Int]
    BY <1>4, <2>6, <2>7
  <2> QED
    BY <2>8 DEF fit, free
<1> QED
  BY <1>3, <1>4

\* The sort puts an interval first, and none that is left starts below it.
LEMMA LowestIs ==
  ASSUME NEW left \in SUBSET Interval, left # {}
  PROVE  Lowest(left) \in left /\ \A u \in left : Lowest(left).lo <= u.lo
<1> DEFINE L == {t.lo : t \in left}
<1>1. L \in SUBSET Nat /\ L # {}
  BY ConstantsAssumption DEF Interval, Addresses
<1>2. PICK x \in L : \A y \in L : x <= y
  <2> HIDE DEF L
  <2> QED
    BY <1>1, HasLeast
<1>3. \E t \in left : \A u \in left : t.lo <= u.lo
  BY <1>2
<1> QED
  BY <1>3 DEF Lowest

\* The turn that follows walk takes one interval and keeps the invariant.
TurnOK(walk, busy, free, size, align) ==
  LET taken == Lowest(walk.left)
      next == [Advance(size, align, walk, taken) EXCEPT !.left = @ \ {taken}]
  IN  WalkOK(next, busy, free, size) /\ taken \in walk.left /\ next.left = walk.left \ {taken}

\* Every turn does (placement.go FirstGap).
LEMMA TurnKeeps ==
  ASSUME NEW occupied \in SUBSET Interval, NEW size \in Nat \ {0}, NEW align, NEW walk,
         WalkOK(walk, Busy(occupied), Allocator!Free(occupied, size, align), size),
         walk.left # {}
  PROVE  TurnOK(walk, Busy(occupied), Allocator!Free(occupied, size, align), size, align)
<1> DEFINE busy == Busy(occupied)
           free == Allocator!Free(occupied, size, align)
           taken == Lowest(walk.left)
           next == [Advance(size, align, walk, taken) EXCEPT !.left = @ \ {taken}]
           gap == Fit(walk.cursor, taken.lo - 1, size, align)
           to == IF taken.hi >= walk.cursor THEN taken.hi + 1 ELSE walk.cursor
           Walk == [left : SUBSET busy, cursor : Nat, done : BOOLEAN, placed : [lo : Int, hi : Int]]
<1> SUFFICES WalkOK(next, busy, free, size) /\ taken \in walk.left /\ next.left = walk.left \ {taken}
  BY DEF TurnOK
<1>0. /\ ParentLo \in Nat /\ ParentHi \in Nat /\ walk \in Walk /\ busy \in SUBSET Interval
      /\ \A t \in busy : /\ t.lo \in Nat /\ t.hi \in Nat
                         /\ ParentLo <= t.lo /\ t.lo <= t.hi /\ t.hi <= ParentHi
  BY ConstantsAssumption, BusyIs DEF Addresses, WalkOK
<1>1. taken \in walk.left /\ taken \in busy /\ \A u \in walk.left : taken.lo <= u.lo
  BY <1>0, LowestIs
<1>2. Advance(size, align, walk, taken) =
        IF walk.done THEN walk
        ELSE IF taken.lo > walk.cursor /\ gap # Nowhere
        THEN [walk EXCEPT !.done = TRUE, !.placed = gap]
        ELSE [walk EXCEPT !.cursor = to, !.done = to > ParentHi]
  BY DEF Advance
<1>3. WalkOK(walk, busy, free, size)
  OBVIOUS
<1>4. \A r \in free : /\ r \in Nat /\ r + size - 1 <= ParentHi
                      /\ \A t \in busy : ~(r <= t.hi /\ t.lo <= r + size - 1)
  BY FreeIs
<1>5. ~walk.done =>
        /\ gap # Nowhere /\ taken.lo > walk.cursor => Right(gap, free, size)
        /\ gap = Nowhere => \A r \in free : r + size - 1 > taken.lo - 1
        /\ gap \in [lo : Int, hi : Int]
  <2> SUFFICES ASSUME ~walk.done
               PROVE  /\ gap # Nowhere => Right(gap, free, size)
                      /\ gap = Nowhere => \A r \in free : r + size - 1 > taken.lo - 1
                      /\ gap \in [lo : Int, hi : Int]
    OBVIOUS
  <2>1. /\ walk.cursor \in Nat /\ ParentLo <= walk.cursor
        /\ \A t \in busy \ walk.left : t.hi < walk.cursor
        /\ \A r \in free : walk.cursor <= r
    BY <1>0, <1>3 DEF WalkOK
  <2>2. taken.lo - 1 \in Int /\ taken.lo - 1 <= ParentHi
    BY <1>0, <1>1
  <2>3. \A t \in busy : t.hi < walk.cursor \/ t.lo > taken.lo - 1
    BY <1>0, <1>1, <2>1
  <2> QED
    BY <2>1, <2>2, <2>3, GapAtCursor
<1> HIDE DEF busy, free, taken, gap
<1>6. CASE walk.done
  <2>1. next = [walk EXCEPT !.left = @ \ {taken}]
    BY <1>2, <1>6
  <2>2. next \in Walk /\ next.done = walk.done /\ next.placed = walk.placed
        /\ next.left = walk.left \ {taken}
    BY <1>0, <2>1
  <2>3. WalkOK(next, busy, free, size)
    BY <1>3, <1>6, <2>2 DEF WalkOK
  <2> QED
    BY <1>1, <2>2, <2>3
<1>7. CASE ~walk.done /\ taken.lo > walk.cursor /\ gap # Nowhere
  <2>1. next = [walk EXCEPT !.done = TRUE, !.placed = gap, !.left = walk.left \ {taken}]
    BY <1>0, <1>2, <1>7
  <2>2. next \in Walk /\ next.done = TRUE /\ next.placed = gap /\ next.left = walk.left \ {taken}
    BY <1>0, <1>5, <1>7, <2>1
  <2>3. WalkOK(next, busy, free, size)
    BY <1>5, <1>7, <2>2 DEF WalkOK
  <2> QED
    BY <1>1, <2>2, <2>3
<1>8. CASE ~walk.done /\ ~(taken.lo > walk.cursor /\ gap # Nowhere)
  <2>0. /\ walk.cursor \in Nat /\ ParentLo <= walk.cursor /\ walk.cursor <= ParentHi
        /\ walk.placed = Nowhere
        /\ \A t \in busy \ walk.left : t.hi < walk.cursor
        /\ \A r \in free : walk.cursor <= r
    BY <1>0, <1>3, <1>8 DEF WalkOK
  <2>1. to \in Nat /\ walk.cursor <= to /\ taken.hi < to
    BY <1>0, <1>1, <2>0
  <2>2. ASSUME NEW r \in free PROVE to <= r
    <3>1. r \in Nat /\ walk.cursor <= r /\ ~(r <= taken.hi /\ taken.lo <= r + size - 1)
      BY <1>1, <1>4, <2>0
    <3>2. CASE r > taken.hi
      BY <1>0, <1>1, <3>1, <3>2
    <3>3. CASE r <= taken.hi
      <4>1. r + size - 1 < taken.lo
        BY <1>0, <1>1, <3>1, <3>3
      <4>2. taken.lo > walk.cursor
        BY <1>0, <1>1, <2>0, <3>1, <4>1
      <4>3. r + size - 1 > taken.lo - 1
        BY <1>5, <1>8, <4>2
      <4> QED
        BY <1>0, <1>1, <3>1, <4>1, <4>3
    <3> QED
      BY <1>0, <1>1, <3>1, <3>2, <3>3
  <2>3. next = [walk EXCEPT !.cursor = to, !.done = to > ParentHi, !.left = walk.left \ {taken}]
    BY <1>0, <1>2, <1>8
  <2> DEFINE past == to > ParentHi
  <2>4. past \in BOOLEAN
    OBVIOUS
  <2> HIDE DEF to
  <2>5. next = [walk EXCEPT !.cursor = to, !.done = past, !.left = walk.left \ {taken}]
    BY <2>3
  <2> HIDE DEF past, next
  <2>6. /\ next \in Walk /\ next.cursor = to /\ next.done = past
        /\ next.placed = walk.placed /\ next.left = walk.left \ {taken}
    BY <1>0, <2>1, <2>4, <2>5
  <2>7. \A t \in busy \ next.left : t.hi < to
    BY <1>0, <1>1, <2>0, <2>1, <2>6
  <2>8. to > ParentHi => free = {}
    BY <1>0, <1>4, <2>1, <2>2
  <2>9. next.done => Right(next.placed, free, size)
    BY <2>0, <2>6, <2>8 DEF Right, past
  <2>10. ~next.done => ParentLo <= next.cursor /\ next.cursor <= ParentHi
    BY <1>0, <2>0, <2>1, <2>6 DEF past
  <2>11. WalkOK(next, busy, free, size)
    BY <2>0, <2>2, <2>6, <2>7, <2>9, <2>10 DEF WalkOK
  <2> QED
    BY <1>1, <2>6, <2>11
<1> QED
  BY <1>6, <1>7, <1>8

\* The loop keeps its invariant to the end, one interval a turn.
LEMMA LoopKeeps ==
  ASSUME NEW occupied \in SUBSET Interval, NEW size \in Nat \ {0}, NEW align
  PROVE  LET busy == Busy(occupied)
             walk == Loop(busy, size, align)[Cardinality(busy)]
         IN  WalkOK(walk, busy, Allocator!Free(occupied, size, align), size) /\ walk.left = {}
<1> DEFINE busy == Busy(occupied)
           free == Allocator!Free(occupied, size, align)
           N == Cardinality(busy)
           loop == CHOOSE g : g = [i \in 0..N |-> TurnOf(busy, size, align, g, i)]
<1>1. Loop(busy, size, align) = loop
  BY DEF Loop, TurnOf
<1>2. IsFiniteSet(busy) /\ N \in Nat
  BY BusyIs, FS_CardinalityType
<1>3. loop = [i \in 0..N |-> TurnOf(busy, size, align, loop, i)]
  <2> HIDE DEF N
  <2> QED
    BY <1>2, LoopsExist
<1>4. ParentLo \in Nat /\ ParentHi \in Nat /\ ParentLo <= ParentHi
  BY ConstantsAssumption DEF Addresses
<1>5. \A r \in free : ParentLo <= r
  BY FreeIs
<1>6. ASSUME NEW walk, WalkOK(walk, busy, free, size), walk.left # {}
      PROVE  TurnOK(walk, busy, free, size, align)
  <2> HIDE DEF loop, N
  <2> QED
    BY <1>6, TurnKeeps
<1> HIDE DEF busy, free, loop, N
<1>7. ASSUME NEW i \in 0..N PROVE loop[i] = TurnOf(busy, size, align, loop, i)
  <2> DEFINE l == [j \in 0..N |-> TurnOf(busy, size, align, loop, j)]
  <2>1. l[i] = TurnOf(busy, size, align, loop, i)
    OBVIOUS
  <2> QED
    BY <1>3, <2>1, Zenon
<1> DEFINE Ok(i) == /\ WalkOK(loop[i], busy, free, size)
                    /\ IsFiniteSet(loop[i].left) /\ Cardinality(loop[i].left) = N - i
           Bad == {i \in 0..N : ~Ok(i)}
<1>8. Bad = {}
  <2> SUFFICES ASSUME Bad # {} PROVE FALSE
    OBVIOUS
  <2>1. Bad \in SUBSET Nat
    BY <1>2
  <2>2. PICK n \in Bad : \A j \in Bad : n <= j
    <3> HIDE DEF Bad
    <3> QED
      BY <2>1, HasLeast
  <2>3. n \in 0..N /\ ~Ok(n)
    BY <2>2
  <2>4. CASE n = 0
    <3>1. loop[0] = [left |-> busy, cursor |-> ParentLo, done |-> FALSE, placed |-> Nowhere]
      <4>1. loop[0] = TurnOf(busy, size, align, loop, 0)
        BY <1>7, <2>3, <2>4
      <4> QED
        BY <4>1, Zenon DEF TurnOf
    <3>2. Nowhere \in [lo : Int, hi : Int]
      BY DEF Nowhere
    <3>3. WalkOK(loop[0], busy, free, size)
      BY <1>4, <1>5, <3>1, <3>2 DEF WalkOK
    <3>4. IsFiniteSet(loop[0].left) /\ Cardinality(loop[0].left) = N - 0
      BY <1>2, <3>1 DEF N
    <3> QED
      BY <2>3, <2>4, <3>3, <3>4
  <2>5. CASE n # 0
    <3>1. n - 1 \in 0..N /\ Ok(n - 1)
      BY <1>2, <2>2, <2>3, <2>5
    <3> DEFINE walk == loop[n - 1]
               taken == Lowest(walk.left)
    <3>2. loop[n] = [Advance(size, align, walk, taken) EXCEPT !.left = @ \ {taken}]
      BY <1>7, <2>3, <2>5 DEF TurnOf
    <3>3. IsFiniteSet(walk.left) /\ Cardinality(walk.left) = N - (n - 1) /\ N - (n - 1) # 0
      BY <1>2, <2>3, <3>1
    <3>4. walk.left # {}
      BY <3>3, FS_EmptySet
    <3>5. /\ WalkOK(loop[n], busy, free, size) /\ taken \in walk.left
          /\ loop[n].left = walk.left \ {taken}
      <4>1. TurnOK(walk, busy, free, size, align)
        BY <1>6, <3>1, <3>4
      <4> QED
        BY <3>2, <4>1 DEF TurnOK
    <3> HIDE DEF walk, taken
    <3>6. IsFiniteSet(loop[n].left) /\ Cardinality(loop[n].left) = Cardinality(walk.left) - 1
      <4>1. \A S, x : IsFiniteSet(S) /\ x \in S =>
                      IsFiniteSet(S \ {x}) /\ Cardinality(S \ {x}) = Cardinality(S) - 1
        BY FS_RemoveElement
      <4> DEFINE left == walk.left
      <4>2. IsFiniteSet(left) /\ taken \in left /\ loop[n].left = left \ {taken}
        BY <3>3, <3>5
      <4> HIDE DEF left
      <4>3. IsFiniteSet(left \ {taken}) /\ Cardinality(left \ {taken}) = Cardinality(left) - 1
        BY <4>1, <4>2
      <4> QED
        BY <4>2, <4>3 DEF left
    <3>7. (N - (n - 1)) - 1 = N - n
      BY <1>2, <2>3
    <3> QED
      BY <2>3, <3>3, <3>5, <3>6, <3>7
  <2> QED
    BY <2>4, <2>5
<1>9. Ok(N)
  BY <1>2, <1>8
<1>10. loop[N].left = {}
  BY <1>2, <1>9, FS_EmptySet
<1> QED
  BY <1>1, <1>9, <1>10 DEF busy, free, N

\* FirstGap returns the lowest free start, or that there is none (placement.go FirstGap).
LEMMA GapIsRight ==
  ASSUME NEW occupied \in SUBSET Interval, NEW size \in Nat \ {0}, NEW align
  PROVE  Right(FirstGap(occupied, size, align), Allocator!Free(occupied, size, align), size)
<1> DEFINE busy == Busy(occupied)
           free == Allocator!Free(occupied, size, align)
           walk == Loop(busy, size, align)[Cardinality(busy)]
           fit == Fit(walk.cursor, ParentHi, size, align)
<1>1. WalkOK(walk, busy, free, size) /\ walk.left = {}
  BY LoopKeeps
<1>2. FirstGap(occupied, size, align) = IF walk.done THEN walk.placed ELSE fit
  BY DEF FirstGap
<1>3. CASE walk.done
  BY <1>1, <1>2, <1>3 DEF WalkOK
<1>4. CASE ~walk.done
  <2>1. /\ walk.cursor \in Nat /\ ParentLo <= walk.cursor
        /\ \A t \in busy : t.hi < walk.cursor
        /\ \A r \in free : walk.cursor <= r
    BY <1>1, <1>4 DEF WalkOK
  <2>2. ParentHi \in Nat /\ ParentHi <= ParentHi
    BY ConstantsAssumption DEF Addresses
  <2>3. /\ fit # Nowhere => Right(fit, free, size)
        /\ fit = Nowhere => \A r \in free : r + size - 1 > ParentHi
    <3> HIDE DEF walk
    <3> QED
      BY <2>1, <2>2, GapAtCursor
  <2>4. \A r \in free : r \in Nat /\ r + size - 1 <= ParentHi
    BY FreeIs
  <2>5. fit = Nowhere => free = {}
    <3> HIDE DEF fit, free
    <3> QED
      BY <2>2, <2>3, <2>4
  <2> HIDE DEF fit, free, walk
  <2>6. Right(fit, free, size)
    BY <2>3, <2>5 DEF Right
  <2> QED
    BY <1>2, <1>4, <2>6 DEF fit, free, walk
<1> QED
  BY <1>3, <1>4

\* FirstGap agrees with its definition on every call there can be.
LEMMA GapSound ==
  ASSUME NEW occupied \in SUBSET Interval, NEW size \in Sizes, NEW align \in Alignments
  PROVE  FirstGapIsLowest(occupied, size, align)
<1> DEFINE free == Allocator!Free(occupied, size, align)
           gap == FirstGap(occupied, size, align)
<1>1. size \in Nat \ {0}
  BY ConstantsAssumption
<1>2. Right(gap, free, size)
  BY <1>1, GapIsRight
<1>3. free \in SUBSET Nat
  BY <1>1, FreeIs
<1> HIDE DEF gap, free
<1>4. IF free = {} THEN gap = Nowhere
      ELSE gap = [lo |-> Min(free), hi |-> Min(free) + size - 1]
  <2>1. CASE free = {}
    BY <1>2, <2>1 DEF Right
  <2>2. CASE free # {}
    <3>1. PICK s \in free : (\A r \in free : s <= r) /\ gap = [lo |-> s, hi |-> s + size - 1]
      BY <1>2, <2>2 DEF Right
    <3>2. Min(free) = s
      BY <1>3, <3>1, MinIs
    <3> QED
      BY <2>2, <3>1, <3>2
  <2> QED
    BY <2>1, <2>2
<1> QED
  BY <1>4 DEF FirstGapIsLowest, gap, free

CallOK ==
  call.on = FALSE \/ call \in [on : {TRUE}, occupied : SUBSET Interval, size : Sizes, align : Alignments]

\* FirstGap returns the lowest aligned placement that touches nothing occupied, and nothing exactly
\* when there is none: for every parent, size and set of intervals, in any order, overlapping,
\* straddling the parent or inverted (placement.go FirstGap, fit, clip, blockSize, alignUp).
THEOREM FirstGapIsRight == MCSpec => []GapCorrect
<1>1. MCInit => CallOK
  <2>1. CASE call = NoCall
    BY <2>1 DEF CallOK, NoCall
  <2>2. CASE call \in [on : {TRUE}, occupied : {{}}, size : Sizes, align : Alignments]
    <3>1. {} \in SUBSET Interval
      OBVIOUS
    <3> QED
      BY <2>2, <3>1 DEF CallOK
  <2> QED
    BY <2>1, <2>2 DEF MCInit
<1>2. CallOK /\ [MCNext]_<<vars, call>> => CallOK'
  <2> SUFFICES ASSUME CallOK, [MCNext]_<<vars, call>>, call' # call PROVE CallOK'
    BY DEF CallOK
  <2>1. GrowCall
    BY DEF MCNext
  <2>2. call \in [on : {TRUE}, occupied : SUBSET Interval, size : Sizes, align : Alignments]
    BY <2>1 DEF GrowCall, CallOK
  <2>3. PICK t \in Interval : call' = [call EXCEPT !.occupied = @ \cup {t}]
    BY <2>1 DEF GrowCall
  <2> QED
    BY <2>2, <2>3 DEF CallOK
<1>3. CallOK => GapCorrect
  BY GapSound DEF CallOK, GapCorrect
<1> QED
  BY <1>1, <1>2, <1>3, PTL DEF MCSpec

-----------------------------------------------------------------------------
(* The atomic allocator is implemented. *)

\* A range about to be posted lies in the parent, is of the size asked for and aligned.
PostFits ==
  \A c \in Workers : worker[c].pc = "post" =>
    \E s \in Allocator!Free({}, worker[c].size, worker[c].align) :
      worker[c].placed = [lo |-> s, hi |-> s + worker[c].size - 1]

JInv == TypeOK /\ PostFits

\* What a read computes: nothing, when nothing is free, or a free place (placement.go FirstGap).
LEMMA GapIsFree ==
  ASSUME NEW occupied \in SUBSET Interval, NEW size \in Sizes, NEW align \in Alignments
  PROVE  LET free == Allocator!Free(occupied, size, align)
             gap == FirstGap(occupied, size, align)
         IN  \/ gap = Nowhere /\ free = {}
             \/ gap # Nowhere /\ \E s \in free : gap = [lo |-> s, hi |-> s + size - 1]
<1> DEFINE free == Allocator!Free(occupied, size, align)
           gap == FirstGap(occupied, size, align)
<1>1. IF free = {} THEN gap = Nowhere ELSE gap = [lo |-> Min(free), hi |-> Min(free) + size - 1]
  BY GapSound DEF FirstGapIsLowest
<1>2. free \in SUBSET Nat
  BY ConstantsAssumption DEF Allocator!Free, Addresses
<1>3. free # {} => Min(free) \in free
  <2> HIDE DEF free
  <2> QED
    BY <1>2, MinIsMember
<1>4. free # {} => gap # Nowhere
  <2> HIDE DEF free, gap
  <2> SUFFICES ASSUME free # {}, gap = Nowhere PROVE FALSE
    OBVIOUS
  <2>1. gap = [lo |-> Min(free), hi |-> Min(free) + size - 1]
    BY <1>1
  <2> DEFINE m == Min(free)
  <2>3. m \in Nat
    BY <1>2, <1>3
  <2>4. gap.lo = m
    BY <2>1
  <2> HIDE DEF m
  <2>2. gap.lo = -1
    BY DEF Nowhere
  <2> QED
    BY <2>2, <2>3, <2>4
<1> HIDE DEF free, gap
<1>5. \/ gap = Nowhere /\ free = {}
      \/ gap # Nowhere /\ \E s \in free : gap = [lo |-> s, hi |-> s + size - 1]
  BY <1>1, <1>3, <1>4
<1> QED
  BY <1>5 DEF free, gap

\* Before any claim starts (allocate.go placeRange).
LEMMA InitJInv == Init => JInv
<1> SUFFICES ASSUME Init PROVE JInv
  OBVIOUS
<1>1. TypeOK
  BY ConstantsAssumption DEF Init, TypeOK
<1>2. PostFits
  BY DEF Init, PostFits
<1> QED
  BY <1>1, <1>2 DEF JInv

\* A step that replaces one placement by another, and what has to be shown of it.
LEMMA OneMoves ==
  ASSUME JInv, UNCHANGED <<ranges, edits>>, NEW c \in Workers, NEW w \in Placement,
         worker' = [worker EXCEPT ![c] = w],
         w.pc = "post" => \E s \in Allocator!Free({}, w.size, w.align) :
                            w.placed = [lo |-> s, hi |-> s + w.size - 1]
  PROVE  JInv'
<1>1. TypeOK'
  BY DEF JInv, TypeOK
<1>2. PostFits'
  <2> SUFFICES ASSUME NEW d \in Workers, worker'[d].pc = "post"
               PROVE  \E s \in Allocator!Free({}, worker'[d].size, worker'[d].align) :
                        worker'[d].placed = [lo |-> s, hi |-> s + worker'[d].size - 1]
    BY DEF PostFits, Allocator!Free, Allocator!Aligned, Allocator!Overlap
  <2>1. CASE d = c
    BY <2>1 DEF JInv, TypeOK
  <2>2. CASE d # c
    <3>1. worker'[d] = worker[d]
      BY <2>2 DEF JInv, TypeOK
    <3> QED
      BY <3>1 DEF JInv, PostFits
  <2> QED
    BY <2>1, <2>2
<1> QED
  BY <1>1, <1>2 DEF JInv

\* What FirstGap found free lies in the parent, whatever was occupied.
LEMMA FreeShrinks ==
  ASSUME NEW occupied, NEW size, NEW align, NEW s \in Allocator!Free(occupied, size, align)
  PROVE  s \in Allocator!Free({}, size, align)
BY DEF Allocator!Free

\* The intervals a read returns.
Seen == {[lo |-> t.lo, hi |-> t.hi] : t \in Occupied}

\* Reading computes a placement that fits the parent, or finds that nothing is free.
LEMMA ReadComputes ==
  ASSUME JInv, NEW c \in Workers, NextRange(c)
  PROVE  LET w == worker[c]
             gap == FirstGap(Seen, w.size, w.align)
         IN  /\ \/ gap = Nowhere /\ Allocator!Free(Seen, w.size, w.align) = {}
                \/ gap # Nowhere /\ \E s \in Allocator!Free({}, w.size, w.align) :
                                      gap = [lo |-> s, hi |-> s + w.size - 1]
             /\ gap \in Interval \cup {Nowhere}
             /\ worker' = [worker EXCEPT ![c] =
                  [w EXCEPT !.pc = IF gap = Nowhere THEN "exhausted" ELSE "post",
                            !.placed = gap, !.raced = FALSE]]
<1> DEFINE w == worker[c]
           gap == FirstGap(Seen, w.size, w.align)
           free == Allocator!Free(Seen, w.size, w.align)
<1>1. w.size \in Sizes /\ w.align \in Alignments
  BY DEF JInv, TypeOK, Placement
<1>2. Seen \in SUBSET Interval
  BY DEF JInv, TypeOK, IPRange, Interval, Seen, Occupied
<1>3. \/ gap = Nowhere /\ free = {}
      \/ gap # Nowhere /\ \E s \in free : gap = [lo |-> s, hi |-> s + w.size - 1]
  BY <1>1, <1>2, GapIsFree
<1>4. ASSUME NEW s \in free, gap = [lo |-> s, hi |-> s + w.size - 1]
      PROVE  gap \in Interval
  <2>1. s \in ParentLo..ParentHi /\ s + w.size - 1 <= ParentHi
    BY <1>4 DEF Allocator!Free
  <2> DEFINE n == w.size
  <2>3. n \in Nat \ {0} /\ s \in ParentLo..ParentHi /\ s + n - 1 <= ParentHi
    BY <1>1, <2>1, ConstantsAssumption
  <2> HIDE DEF n
  <2>4. s \in Addresses /\ s + n - 1 \in Addresses
    BY <2>3, ConstantsAssumption DEF Addresses
  <2>2. s \in Addresses /\ s + w.size - 1 \in Addresses
    BY <2>4 DEF n
  <2> HIDE DEF gap, free, w
  <2> QED
    BY <1>4, <2>2 DEF Interval
<1>5. worker' = [worker EXCEPT ![c] =
                  [w EXCEPT !.pc = IF gap = Nowhere THEN "exhausted" ELSE "post",
                            !.placed = gap, !.raced = FALSE]]
  BY DEF NextRange, Seen
<1>6. \A s \in free : s \in Allocator!Free({}, w.size, w.align)
  BY FreeShrinks
<1> HIDE DEF w, gap, free
<1>7. /\ \/ gap = Nowhere /\ free = {}
         \/ gap # Nowhere /\ \E s \in Allocator!Free({}, w.size, w.align) :
                               gap = [lo |-> s, hi |-> s + w.size - 1]
      /\ gap \in Interval \cup {Nowhere}
  BY <1>3, <1>4, <1>6
<1> QED
  BY <1>5, <1>7 DEF w, gap, free

\* What a step makes of a placement is one.
LEMMA StaysPlacement ==
  ASSUME NEW w \in Placement
  PROVE  /\ Raced(w) \in Placement /\ Lost(w) \in Placement
         /\ [w EXCEPT !.pc = "placed"] \in Placement
         /\ [w EXCEPT !.pc = "read"] \in Placement /\ [w EXCEPT !.pc = "read"].pc = "read"
         /\ Overlapped(w) \in Placement /\ Overlapped(w).pc \in {"read", "contended"}
<1>1. Raced(w) \in Placement
  BY DEF Placement, Raced
<1>2. Lost(w) \in Placement
  BY DEF Placement, Lost, Outcomes
<1>3. [w EXCEPT !.pc = "placed"] \in Placement
  BY DEF Placement, Outcomes
<1>4. [w EXCEPT !.pc = "read"] \in Placement /\ [w EXCEPT !.pc = "read"].pc = "read"
  BY DEF Placement
<1>5. CASE w.attempt = MaxAttempts
  BY <1>1, <1>2, <1>3, <1>4, <1>5 DEF Placement, Overlapped, Outcomes
<1>6. CASE w.attempt # MaxAttempts
  <2>1. w.attempt + 1 \in 1..MaxAttempts
    BY <1>6, ConstantsAssumption DEF Placement
  <2>2. Overlapped(w) = [w EXCEPT !.pc = "read", !.attempt = w.attempt + 1]
    BY <1>6 DEF Overlapped
  <2>3. Overlapped(w) \in Placement /\ Overlapped(w).pc = "read"
    BY <2>1, <2>2 DEF Placement
  <2> QED
    BY <1>1, <1>2, <1>3, <1>4, <2>3
<1> QED
  BY <1>5, <1>6

\* Every step of a claim and of a human keeps the types and what is about to be posted
\* (allocate.go placeRange).
LEMMA NextJInv == JInv /\ [Next]_vars => JInv'
<1> SUFFICES ASSUME JInv, [Next]_vars PROVE JInv'
  OBVIOUS
<1> USE DEF JInv
<1>1. CASE UNCHANGED vars
  BY <1>1 DEF vars, TypeOK, PostFits, Allocator!Free, Allocator!Aligned, Allocator!Overlap
<1>2. ASSUME NEW c \in Workers, Start(c) PROVE JInv'
  <2>1. [worker[c] EXCEPT !.pc = "read"] \in Placement /\ [worker[c] EXCEPT !.pc = "read"].pc = "read"
    BY StaysPlacement DEF TypeOK
  <2> QED
    BY <1>2, <2>1, OneMoves DEF Start
<1>3. ASSUME NEW c \in Workers, NextRange(c) PROVE JInv'
  <2> DEFINE w == worker[c]
             gap == FirstGap(Seen, w.size, w.align)
             next == [w EXCEPT !.pc = IF gap = Nowhere THEN "exhausted" ELSE "post",
                               !.placed = gap, !.raced = FALSE]
  <2>1. /\ \/ gap = Nowhere /\ Allocator!Free(Seen, w.size, w.align) = {}
           \/ gap # Nowhere /\ \E s \in Allocator!Free({}, w.size, w.align) :
                                 gap = [lo |-> s, hi |-> s + w.size - 1]
        /\ gap \in Interval \cup {Nowhere}
        /\ worker' = [worker EXCEPT ![c] = next]
    BY <1>3, ReadComputes
  <2>2. w \in Placement
    BY DEF TypeOK
  <2> HIDE DEF gap, w
  <2>3. next \in Placement
    BY <2>1, <2>2 DEF Placement, Outcomes
  <2>4. next.pc = "post" => \E s \in Allocator!Free({}, next.size, next.align) :
                              next.placed = [lo |-> s, hi |-> s + next.size - 1]
    <3> SUFFICES ASSUME next.pc = "post"
                 PROVE  \E s \in Allocator!Free({}, next.size, next.align) :
                          next.placed = [lo |-> s, hi |-> s + next.size - 1]
      OBVIOUS
    <3>1. next.placed = gap /\ next.size = w.size /\ next.align = w.align
      BY <2>2 DEF Placement
    <3>2. gap # Nowhere
      BY <2>2 DEF Placement
    <3> HIDE DEF next
    <3> QED
      BY <2>1, <3>1, <3>2
  <2>5. UNCHANGED <<ranges, edits>>
    BY <1>3 DEF NextRange
  <2> HIDE DEF next
  <2> QED
    BY <2>1, <2>3, <2>4, <2>5, OneMoves
<1>4. ASSUME NEW c \in Workers, CallFails(c) PROVE JInv'
  <2>1. Lost(worker[c]) \in Placement /\ Lost(worker[c]).pc # "post"
    BY DEF TypeOK, Placement, Lost, Outcomes
  <2> QED
    BY <1>4, <2>1, OneMoves DEF CallFails
<1>5. ASSUME NEW raced, DOMAIN raced = Workers, worker' = raced,
             \A d \in Workers : \/ raced[d] = Raced(worker[d])
                                \/ raced[d] = [worker[d] EXCEPT !.pc = "placed"]
                                \/ raced[d] = Lost(worker[d]),
             raced = [d \in Workers |-> raced[d]]
      PROVE  worker' \in [Workers -> Placement] /\ PostFits'
  <2>1. \A d \in Workers : raced[d] \in Placement
    <3> SUFFICES ASSUME NEW d \in Workers PROVE raced[d] \in Placement
      OBVIOUS
    <3>1. worker[d] \in Placement
      BY DEF TypeOK
    <3>2. /\ Raced(worker[d]) \in Placement /\ Lost(worker[d]) \in Placement
          /\ [worker[d] EXCEPT !.pc = "placed"] \in Placement
      BY <3>1, StaysPlacement
    <3> QED
      BY <1>5, <3>2
  <2>2. \A d \in Workers : raced[d].pc = "post" =>
          /\ worker[d].pc = "post" /\ raced[d].size = worker[d].size
          /\ raced[d].align = worker[d].align /\ raced[d].placed = worker[d].placed
    BY <1>5 DEF TypeOK, Placement, Raced, Lost
  <2>3. PostFits'
    <3> SUFFICES ASSUME NEW d \in Workers, raced[d].pc = "post"
                 PROVE  \E s \in Allocator!Free({}, raced[d].size, raced[d].align) :
                          raced[d].placed = [lo |-> s, hi |-> s + raced[d].size - 1]
      BY <1>5 DEF PostFits, Allocator!Free, Allocator!Aligned, Allocator!Overlap
    <3> QED
      BY <2>2 DEF PostFits
  <2> QED
    BY <1>5, <2>1, <2>3
<1>6. ASSUME NEW c \in Workers, CreateRange(c) PROVE JInv'
  <2>1. CASE Refused(Body(c))
    <3>1. /\ worker' = [worker EXCEPT ![c] = Overlapped(worker[c])]
          /\ UNCHANGED <<ranges, edits>>
      BY <1>6, <2>1 DEF CreateRange
    <3>2. Overlapped(worker[c]) \in Placement /\ Overlapped(worker[c]).pc # "post"
      BY StaysPlacement DEF TypeOK
    <3> QED
      BY <3>1, <3>2, OneMoves
  <2>2. CASE ~Refused(Body(c))
    <3>1. ranges' = ranges \cup {Body(c)} /\ edits' = edits /\ worker[c].pc = "post"
      BY <1>6, <2>2 DEF CreateRange
    <3>2. Body(c) \in IPRange
      <4>1. worker[c].placed # Nowhere
        <5>1. PICK s \in Allocator!Free({}, worker[c].size, worker[c].align) :
                worker[c].placed = [lo |-> s, hi |-> s + worker[c].size - 1]
          BY <3>1 DEF PostFits
        <5>2. s \in Nat
          BY <5>1, ConstantsAssumption DEF Allocator!Free, Addresses
        <5>3. worker[c].placed.lo = s /\ Nowhere.lo = -1
          BY <5>1 DEF Nowhere
        <5> QED
          BY <5>2, <5>3
      <4>2. worker[c].placed \in Interval
        BY <4>1 DEF TypeOK, Placement
      <4> QED
        BY <4>2 DEF Body, IPRange, Interval, VRFs
    <3>3. /\ worker' = [d \in Workers |-> worker'[d]]
          /\ \A d \in Workers : \/ worker'[d] = Raced(worker[d])
                                \/ worker'[d] = [worker[d] EXCEPT !.pc = "placed"]
                                \/ worker'[d] = Lost(worker[d])
      BY <1>6, <2>2 DEF CreateRange
    <3>4. worker' \in [Workers -> Placement] /\ PostFits'
      BY <1>5, <3>3
    <3> QED
      BY <3>1, <3>2, <3>4 DEF TypeOK
  <2> QED
    BY <2>1, <2>2
<1>7. CASE HumanRange
  <2>1. worker' \in [Workers -> Placement] /\ PostFits'
    <3>1. worker' = [d \in Workers |-> Raced(worker[d])]
      BY <1>7 DEF HumanRange
    <3> QED
      BY <1>5, <3>1
  <2>2. ranges' \in SUBSET IPRange
    <3>1. CASE \E r \in ranges : ranges' = ranges \ {r}
      BY <3>1 DEF TypeOK
    <3>2. ASSUME NEW lo \in Addresses, NEW hi \in Addresses, NEW v \in VRFs,
                 ranges' = ranges \cup {[lo |-> lo, hi |-> hi, vrf |-> v, by |-> "human"]}
          PROVE  ranges' \in SUBSET IPRange
      BY <3>2 DEF TypeOK, IPRange
    <3> QED
      BY <1>7, <3>1, <3>2 DEF HumanRange
  <2>3. edits' \in 0..MaxEdits
    BY <1>7, ConstantsAssumption DEF HumanRange, TypeOK
  <2> QED
    BY <2>1, <2>2, <2>3 DEF TypeOK
<1> QED
  BY <1>1, <1>2, <1>3, <1>4, <1>6, <1>7 DEF Next

-----------------------------------------------------------------------------
(* The refinement. *)

\* The requests and the outcomes of the allocator.
Request(w) == [size |-> w.size, align |-> w.align]
Told(w) == IF w.pc \in Outcomes THEN w.pc ELSE "waiting"
requests == [c \in Workers |-> Request(worker[c])]
outcomes == [c \in Workers |-> Told(worker[c])]

\* A step that ends, or does not end, one placement.
LEMMA OneIsTold ==
  ASSUME JInv, NEW c \in Workers, NEW w \in Placement, w.size = worker[c].size,
         w.align = worker[c].align, worker' = [worker EXCEPT ![c] = w]
  PROVE  /\ requests' = requests
         /\ outcomes' = [outcomes EXCEPT ![c] = Told(w)]
<1>1. \A d \in Workers : worker'[d] = IF d = c THEN w ELSE worker[d]
  BY DEF JInv, TypeOK
<1>2. requests' = requests
  BY <1>1 DEF requests, Request
<1>3. outcomes' = [outcomes EXCEPT ![c] = Told(w)]
  <2>1. \A d \in Workers : Told(worker'[d]) = IF d = c THEN Told(w) ELSE Told(worker[d])
    BY <1>1
  <2>2. outcomes' = [d \in Workers |-> Told(worker'[d])]
    BY DEF outcomes, Told
  <2>3. outcomes' = [d \in Workers |-> IF d = c THEN Told(w) ELSE Told(worker[d])]
    BY <2>1, <2>2
  <2> QED
    BY <2>3 DEF outcomes
<1> QED
  BY <1>2, <1>3

\* The outcome of a placement in progress is still open.
LEMMA OpenIsWaiting ==
  ASSUME JInv, NEW c \in Workers, worker[c].pc \in {"idle", "read", "post"}
  PROVE  outcomes[c] = "waiting" /\ outcomes = [outcomes EXCEPT ![c] = "waiting"]
BY DEF outcomes, Told, Outcomes

\* The allocator's view of what is free for a claim is that of a read.
LEMMA FreeForIsFree ==
  ASSUME JInv, NEW c \in Workers
  PROVE  Allocator!FreeFor(c) = Allocator!Free(Seen, worker[c].size, worker[c].align)
<1>1. Allocator!FreeFor(c) =
        Allocator!Free({[lo |-> t.lo, hi |-> t.hi] : t \in {t \in ranges : t.vrf = "parent"}},
                       worker[c].size, worker[c].align)
  BY DEF Allocator!FreeFor
<1> QED
  BY <1>1 DEF Seen, Occupied

\* Every step of the placements is a step of the allocator, or none (allocate.go placeRange).
LEMMA StepRefines ==
  ASSUME JInv, [Next]_vars
  PROVE  [Allocator!Next]_(Allocator!vars)
<1> DEFINE A == <<ranges, requests, outcomes>>
<1>0. Allocator!vars = A /\ (Allocator!vars)' = A'
  BY DEF Allocator!vars, requests, outcomes, Request, Told
<1>1. CASE UNCHANGED vars
  BY <1>0, <1>1 DEF vars, requests, outcomes, Request, Told
<1>2. ASSUME NEW c \in Workers, Start(c) PROVE UNCHANGED A
  <2> DEFINE w == [worker[c] EXCEPT !.pc = "read"]
  <2>1. worker[c].pc = "idle" /\ worker' = [worker EXCEPT ![c] = w] /\ ranges' = ranges
    BY <1>2 DEF Start
  <2>2. w \in Placement /\ w.size = worker[c].size /\ w.align = worker[c].align
        /\ Told(w) = "waiting"
    BY DEF JInv, TypeOK, Placement, Told, Outcomes
  <2> HIDE DEF w
  <2>3. requests' = requests /\ outcomes' = [outcomes EXCEPT ![c] = Told(w)]
    BY <2>1, <2>2, OneIsTold
  <2>4. outcomes = [outcomes EXCEPT ![c] = "waiting"]
    BY <2>1, OpenIsWaiting
  <2> QED
    BY <2>1, <2>2, <2>3, <2>4
<1>3. ASSUME NEW c \in Workers, NextRange(c) PROVE Allocator!Exhausted(c) \/ UNCHANGED A
  <2> DEFINE w == worker[c]
             gap == FirstGap(Seen, w.size, w.align)
             next == [w EXCEPT !.pc = IF gap = Nowhere THEN "exhausted" ELSE "post",
                               !.placed = gap, !.raced = FALSE]
  <2>1. /\ gap = Nowhere => Allocator!Free(Seen, w.size, w.align) = {}
        /\ gap \in Interval \cup {Nowhere}
        /\ worker' = [worker EXCEPT ![c] = next]
    BY <1>3, ReadComputes
  <2>2. w \in Placement /\ w.pc = "read" /\ ranges' = ranges
    BY <1>3 DEF JInv, TypeOK, NextRange
  <2> HIDE DEF gap, w
  <2>3. next \in Placement
    BY <2>1, <2>2 DEF Placement, Outcomes
  <2>4. /\ next.size = w.size /\ next.align = w.align
        /\ Told(next) = IF gap = Nowhere THEN "exhausted" ELSE "waiting"
    BY <2>2 DEF Placement, Told, Outcomes
  <2> HIDE DEF next
  <2>5. requests' = requests /\ outcomes' = [outcomes EXCEPT ![c] = Told(next)]
    BY <2>1, <2>3, <2>4, OneIsTold DEF w
  <2>6. outcomes[c] = "waiting" /\ outcomes = [outcomes EXCEPT ![c] = "waiting"]
    BY <2>2, OpenIsWaiting DEF w
  <2>7. CASE gap = Nowhere
    <3>1. Allocator!FreeFor(c) = {}
      BY <2>1, <2>7, FreeForIsFree DEF w
    <3>2. outcomes' = [outcomes EXCEPT ![c] = "exhausted"]
      BY <2>4, <2>5, <2>7
    <3> QED
      BY <2>2, <2>5, <2>6, <3>1, <3>2
      DEF Allocator!Exhausted, Allocator!Tell, requests, outcomes, Request, Told
  <2>8. CASE gap # Nowhere
    BY <2>2, <2>4, <2>5, <2>6, <2>8
  <2> QED
    BY <2>7, <2>8
<1>4. ASSUME NEW c \in Workers, NEW w \in Placement, w.size = worker[c].size,
             w.align = worker[c].align, worker' = [worker EXCEPT ![c] = w], ranges' = ranges,
             worker[c].pc \in {"read", "post"}, w.pc \in {"contended", "lost", "read"}
      PROVE  Allocator!GiveUp(c) \/ UNCHANGED A
  <2>1. requests' = requests /\ outcomes' = [outcomes EXCEPT ![c] = Told(w)]
    BY <1>4, OneIsTold
  <2>2. outcomes[c] = "waiting" /\ outcomes = [outcomes EXCEPT ![c] = "waiting"]
    BY <1>4, OpenIsWaiting
  <2>3. Told(w) \in {"contended", "lost"} \/ Told(w) = "waiting"
    BY <1>4 DEF Told, Outcomes
  <2>4. CASE Told(w) = "waiting"
    BY <1>4, <2>1, <2>2, <2>4
  <2>5. CASE Told(w) \in {"contended", "lost"}
    BY <1>4, <2>1, <2>2, <2>5
    DEF Allocator!GiveUp, Allocator!Tell, requests, outcomes, Request, Told
  <2> QED
    BY <2>3, <2>4, <2>5
<1>5. ASSUME NEW c \in Workers, CallFails(c) PROVE Allocator!GiveUp(c) \/ UNCHANGED A
  <2> DEFINE w == Lost(worker[c])
  <2>1. /\ w \in Placement /\ w.size = worker[c].size /\ w.align = worker[c].align
        /\ w.pc = "lost"
    BY DEF JInv, TypeOK, Placement, Lost, Outcomes
  <2>2. worker' = [worker EXCEPT ![c] = w] /\ ranges' = ranges /\ worker[c].pc \in {"read", "post"}
    BY <1>5 DEF CallFails
  <2> QED
    BY <1>4, <2>1, <2>2
<1>6. ASSUME NEW c \in Workers, CreateRange(c)
      PROVE  Allocator!GiveUp(c) \/ Allocator!Allocate(c) \/ UNCHANGED A
  <2> DEFINE r == Body(c)
  <2>0. worker[c].pc = "post" /\ worker[c] \in Placement
    BY <1>6 DEF CreateRange, JInv, TypeOK
  <2>1. CASE Refused(r)
    <3> DEFINE w == Overlapped(worker[c])
    <3>1. worker' = [worker EXCEPT ![c] = w] /\ ranges' = ranges
      BY <1>6, <2>1 DEF CreateRange
    <3>2. w \in Placement /\ w.pc \in {"read", "contended"}
      BY <2>0, StaysPlacement
    <3>3. w.size = worker[c].size /\ w.align = worker[c].align
      BY <2>0 DEF Placement, Overlapped
    <3> QED
      BY <1>4, <2>0, <3>1, <3>2, <3>3
  <2>2. CASE ~Refused(r)
    <3>1. PICK s \in Allocator!Free({}, worker[c].size, worker[c].align) :
            worker[c].placed = [lo |-> s, hi |-> s + worker[c].size - 1]
      BY <2>0 DEF JInv, PostFits
    <3>2. r = [lo |-> s, hi |-> s + worker[c].size - 1, vrf |-> "parent", by |-> c]
      BY <3>1 DEF Body
    <3>3. \A t \in Seen : ~Allocator!Overlap([lo |-> s, hi |-> s + worker[c].size - 1], t)
      BY <2>2, <3>2 DEF Refused, Touches, Seen, Occupied, Allocator!Overlap
    <3>4. s \in Allocator!FreeFor(c)
      <4>1. s \in Allocator!Free(Seen, worker[c].size, worker[c].align)
        BY <3>1, <3>3 DEF Allocator!Free
      <4> QED
        BY <4>1, FreeForIsFree
    <3>5. PICK v \in {"placed", "lost"} :
            worker' = [d \in Workers |-> IF d = c THEN [worker[c] EXCEPT !.pc = v]
                                         ELSE Raced(worker[d])]
      BY <1>6, <2>2 DEF CreateRange, Lost
    <3>6. \A d \in Workers : /\ Request(worker'[d]) = Request(worker[d])
                             /\ Told(worker'[d]) = IF d = c THEN v ELSE Told(worker[d])
      <4> SUFFICES ASSUME NEW d \in Workers
                   PROVE  /\ Request(worker'[d]) = Request(worker[d])
                          /\ Told(worker'[d]) = IF d = c THEN v ELSE Told(worker[d])
        OBVIOUS
      <4>1. worker[d] \in Placement
        BY DEF JInv, TypeOK
      <4>2. CASE d = c
        BY <3>5, <4>1, <4>2 DEF Request, Told, Placement, Outcomes
      <4>3. CASE d # c
        BY <3>5, <4>1, <4>3 DEF Request, Told, Placement, Raced
      <4> QED
        BY <4>2, <4>3
    <3>7. requests' = requests /\ outcomes' = [outcomes EXCEPT ![c] = v]
      BY <3>6 DEF requests, outcomes
    <3>8. ranges' = ranges \cup {r} /\ outcomes[c] = "waiting"
      BY <1>6, <2>0, <2>2, OpenIsWaiting DEF CreateRange
    <3> QED
      BY <3>2, <3>4, <3>5, <3>7, <3>8
      DEF Allocator!Allocate, Allocator!Tell, requests, outcomes, Request, Told
  <2> QED
    BY <2>1, <2>2
<1>7. ASSUME HumanRange PROVE Allocator!Human
  <2>1. \A d \in Workers : worker'[d] = Raced(worker[d])
    BY <1>7 DEF HumanRange
  <2>2. \A d \in Workers : Request(worker'[d]) = Request(worker[d]) /\ Told(worker'[d]) = Told(worker[d])
    <3> SUFFICES ASSUME NEW d \in Workers
                 PROVE  Request(worker'[d]) = Request(worker[d]) /\ Told(worker'[d]) = Told(worker[d])
      OBVIOUS
    <3>1. worker[d] \in Placement /\ worker'[d] = Raced(worker[d])
      BY <2>1 DEF JInv, TypeOK
    <3> QED
      BY <3>1 DEF Placement, Raced, Request, Told
  <2>3. requests' = requests /\ outcomes' = outcomes
    BY <2>2 DEF requests, outcomes
  <2>4. CASE \E r \in ranges : ranges' = ranges \ {r}
    BY <2>3, <2>4 DEF Allocator!Human, requests, outcomes, Request, Told
  <2>5. ASSUME NEW lo \in Addresses, NEW hi \in Addresses, NEW v \in VRFs, NEW r,
               r = [lo |-> lo, hi |-> hi, vrf |-> v, by |-> "human"],
               lo <= hi, ~Refused(r), ranges' = ranges \cup {r}
        PROVE  Allocator!Human
    <3>1. r \in [lo : Addresses, hi : Addresses, vrf : VRFs, by : {"human"}] /\ r.lo <= r.hi
      BY <2>5
    <3>2. \A t \in ranges : t.vrf = r.vrf => ~Allocator!Overlap(r, t)
      BY <2>5 DEF Refused, Touches, Allocator!Overlap
    <3> QED
      BY <2>3, <2>5, <3>1, <3>2 DEF Allocator!Human, requests, outcomes, Request, Told
  <2> QED
    BY <1>7, <2>4, <2>5 DEF HumanRange
<1> QED
  BY <1>0, <1>1, <1>2, <1>3, <1>5, <1>6, <1>7 DEF Next, Allocator!Next

\* Placing ranges without a lock is allocating them in one step (allocate.go placeRange,
\* placement.go FirstGap).
THEOREM Implements == Spec => AllocatesAtomically
<1>1. Init => Allocator!Init
  BY DEF Init, Allocator!Init, Outcomes
<1>2. JInv /\ [Next]_vars => [Allocator!Next]_(Allocator!vars)
  BY StepRefines
<1>3. JInv /\ [Next]_vars => JInv'
  BY NextJInv
<1> QED
  BY InitJInv, <1>1, <1>2, <1>3, PTL DEF Spec, AllocatesAtomically, Allocator!Spec

-----------------------------------------------------------------------------
(* A rejection is a race. *)

\* No range is inverted, and what is about to be posted touches no range of the parent's VRF
\* unless one came or went since it was computed.
KInv ==
  /\ \A t \in ranges : t.lo <= t.hi
  /\ \A c \in Workers : worker[c].pc = "post" /\ ~worker[c].raced => ~Refused(Body(c))

\* What a read computes touches nothing it saw.
LEMMA ReadIsClear ==
  ASSUME JInv, KInv, NEW c \in Workers, NextRange(c), worker'[c].pc = "post"
  PROVE  ~Refused(Body(c))'
<1> DEFINE w == worker[c]
           gap == FirstGap(Seen, w.size, w.align)
<1>1. w \in Placement /\ ranges \in SUBSET IPRange
  BY DEF JInv, TypeOK
<1>2. Seen \in SUBSET Interval
  BY <1>1 DEF Seen, Occupied, IPRange, Interval
<1>3. worker' = [worker EXCEPT ![c] =
        [w EXCEPT !.pc = IF gap = Nowhere THEN "exhausted" ELSE "post",
                  !.placed = gap, !.raced = FALSE]]
  BY ReadComputes
<1>4. gap # Nowhere /\ worker'[c].placed = gap /\ ranges' = ranges
  <2>1. worker \in [Workers -> Placement] /\ ranges' = ranges
    BY DEF JInv, TypeOK, NextRange
  <2> HIDE DEF gap, w
  <2>2. worker'[c] = [w EXCEPT !.pc = IF gap = Nowhere THEN "exhausted" ELSE "post",
                               !.placed = gap, !.raced = FALSE]
    BY <1>3, <2>1
  <2>3. worker'[c].placed = gap /\ worker'[c].pc = IF gap = Nowhere THEN "exhausted" ELSE "post"
    BY <1>1, <2>2 DEF Placement
  <2> QED
    BY <2>1, <2>3
<1>5. w.size \in Sizes /\ w.align \in Alignments
  BY <1>1 DEF Placement
<1>6. PICK s \in Allocator!Free(Seen, w.size, w.align) : gap = [lo |-> s, hi |-> s + w.size - 1]
  BY <1>2, <1>4, <1>5, GapIsFree
<1>7. Body(c)' = [lo |-> s, hi |-> s + w.size - 1, vrf |-> "parent", by |-> c]
  BY <1>4, <1>6 DEF Body
<1>8. ASSUME NEW t \in ranges, t.vrf = "parent"
      PROVE  ~(s <= t.hi /\ t.lo <= s + w.size - 1)
  <2>1. [lo |-> t.lo, hi |-> t.hi] \in Seen /\ t.lo <= t.hi
    BY <1>8 DEF Seen, Occupied, KInv
  <2>2. ~Allocator!Overlap([lo |-> s, hi |-> s + w.size - 1], [lo |-> t.lo, hi |-> t.hi])
    BY <1>6, <2>1 DEF Allocator!Free
  <2> QED
    BY <2>2 DEF Allocator!Overlap
<1>9. \A t \in ranges : t.vrf = "parent" => ~Touches(Body(c)', t)
  BY <1>7, <1>8 DEF Touches
<1>10. Body(c)'.vrf = "parent"
  BY <1>7
<1> QED
  BY <1>4, <1>9, <1>10 DEF Refused

\* A step that replaces c's placement by one that is not about to post, or that posts what it
\* has just computed.
LEMMA OneClear ==
  ASSUME JInv, KInv, ranges' = ranges, NEW c \in Workers, NEW w,
         worker' = [worker EXCEPT ![c] = w], w.pc = "post" => ~Refused(Body(c))'
  PROVE  KInv'
<1>1. worker'[c] = w /\ \A d \in Workers \ {c} : worker'[d] = worker[d]
  BY DEF JInv, TypeOK
<1>2. ASSUME NEW d \in Workers, worker'[d].pc = "post", ~worker'[d].raced
      PROVE  ~Refused(Body(d))'
  <2>1. CASE d = c
    BY <1>1, <1>2, <2>1
  <2>2. CASE d # c
    <3>1. worker'[d] = worker[d]
      BY <1>1, <2>2
    <3> QED
      BY <1>2, <3>1 DEF KInv, Refused, Body
  <2> QED
    BY <2>1, <2>2
<1> QED
  BY <1>2 DEF KInv

LEMMA NextKInv == JInv /\ JInv' /\ KInv /\ [Next]_vars => KInv'
<1> SUFFICES ASSUME JInv, JInv', KInv, [Next]_vars PROVE KInv'
  OBVIOUS
<1>0. \A d \in Workers : worker[d] \in Placement
  BY DEF JInv, TypeOK
<1>1. CASE UNCHANGED vars
  BY <1>1 DEF vars, KInv, Refused, Body
<1>2. ASSUME NEW c \in Workers, Start(c) PROVE KInv'
  <2>1. PICK w : w = [worker[c] EXCEPT !.pc = "read"]
    OBVIOUS
  <2>2. w.pc = "read"
    BY <1>0, <2>1, StaysPlacement
  <2> QED
    BY <1>2, <2>1, <2>2, OneClear DEF Start
<1>3. ASSUME NEW c \in Workers, NextRange(c) PROVE KInv'
  <2>1. PICK w : w = worker'[c]
    OBVIOUS
  <2>2. worker' = [worker EXCEPT ![c] = w] /\ ranges' = ranges
    <3>1. \E v : worker' = [worker EXCEPT ![c] = v]
      BY <1>3, ReadComputes
    <3> QED
      BY <1>3, <2>1, <3>1 DEF NextRange, JInv, TypeOK
  <2> QED
    BY <1>3, <2>1, <2>2, ReadIsClear, OneClear
<1>4. ASSUME NEW c \in Workers, CallFails(c) PROVE KInv'
  <2>1. Lost(worker[c]).pc = "lost"
    BY <1>0 DEF Lost, Placement
  <2> QED
    BY <1>4, <2>1, OneClear DEF CallFails
<1>5. ASSUME \A d \in Workers : worker'[d].pc = "post" => worker'[d].raced,
             \A t \in ranges' : t.lo <= t.hi
      PROVE  KInv'
  BY <1>5 DEF KInv
<1>6. ASSUME NEW d \in Workers
      PROVE  Raced(worker[d]).raced /\ Lost(worker[d]).pc = "lost"
             /\ [worker[d] EXCEPT !.pc = "placed"].pc = "placed"
  BY <1>0 DEF Raced, Lost, Placement
<1>7. ASSUME NEW c \in Workers, CreateRange(c) PROVE KInv'
  <2>1. CASE Refused(Body(c))
    <3>1. worker' = [worker EXCEPT ![c] = Overlapped(worker[c])] /\ ranges' = ranges
      BY <1>7, <2>1 DEF CreateRange
    <3>2. Overlapped(worker[c]).pc # "post"
      BY <1>0, StaysPlacement
    <3> QED
      BY <3>1, <3>2, OneClear
  <2>2. CASE ~Refused(Body(c))
    <3>1. ranges' = ranges \cup {Body(c)} /\ worker[c].pc = "post"
      BY <1>7, <2>2 DEF CreateRange
    <3>2. Body(c).lo <= Body(c).hi
      <4>1. PICK s \in Allocator!Free({}, worker[c].size, worker[c].align) :
              worker[c].placed = [lo |-> s, hi |-> s + worker[c].size - 1]
        BY <3>1 DEF JInv, PostFits
      <4>2. s \in Nat
        BY <4>1, ConstantsAssumption DEF Allocator!Free, Addresses
      <4>3. worker[c].size \in Nat \ {0}
        BY <1>0, ConstantsAssumption DEF Placement
      <4> QED
        BY <4>1, <4>2, <4>3 DEF Body
    <3>3. ASSUME NEW d \in Workers
          PROVE  \/ worker'[d] = Raced(worker[d]) \/ worker'[d] = Lost(worker[d])
                 \/ worker'[d] = [worker[d] EXCEPT !.pc = "placed"]
      BY <1>7, <2>2 DEF CreateRange
    <3>4. \A d \in Workers : worker'[d].pc = "post" => worker'[d].raced
      BY <1>6, <3>3
    <3>5. \A t \in ranges' : t.lo <= t.hi
      BY <3>1, <3>2 DEF KInv
    <3> QED
      BY <1>5, <3>4, <3>5
  <2> QED
    BY <2>1, <2>2
<1>8. CASE HumanRange
  <2>1. \A d \in Workers : worker'[d].raced
    BY <1>6, <1>8 DEF HumanRange
  <2>2. \A t \in ranges' : t.lo <= t.hi
    <3>1. CASE \E r \in ranges : ranges' = ranges \ {r}
      BY <3>1 DEF KInv
    <3>2. ASSUME NEW lo \in Addresses, NEW hi \in Addresses, NEW v \in VRFs, lo <= hi,
                 ranges' = ranges \cup {[lo |-> lo, hi |-> hi, vrf |-> v, by |-> "human"]}
          PROVE  \A t \in ranges' : t.lo <= t.hi
      BY <3>2 DEF KInv
    <3> QED
      BY <1>8, <3>1, <3>2 DEF HumanRange
  <2> QED
    BY <1>5, <2>1, <2>2
<1> QED
  BY <1>1, <1>2, <1>3, <1>4, <1>7, <1>8 DEF Next

\* A placement NetBox rejects was free when it was computed: "contended" is never reported of a
\* parent nobody else is writing (allocate.go placeRange, occupiedRanges).
THEOREM RejectionIsRace == Spec => RejectedWereRaced
<1>1. Init => KInv
  BY DEF Init, KInv
<1>2. JInv /\ [Next]_vars => JInv'
  BY NextJInv
<1>3. JInv /\ JInv' /\ KInv /\ [Next]_vars => KInv'
  BY NextKInv
<1>4. ASSUME JInv, KInv, [Next]_vars, NEW c \in Workers, worker[c].pc = "post",
             worker'[c].pc \in {"read", "contended"}, ~worker[c].raced
      PROVE  FALSE
  <2>1. \A d \in Workers : worker[d] \in Placement /\ worker \in [Workers -> Placement]
    BY <1>4 DEF JInv, TypeOK
  <2>2. ~Refused(Body(c))
    BY <1>4 DEF KInv
  <2>3. CASE UNCHANGED vars
    BY <1>4, <2>3 DEF vars
  <2>4. ASSUME NEW d \in Workers, Start(d) \/ NextRange(d) PROVE FALSE
    <3>1. d # c /\ \E w : worker' = [worker EXCEPT ![d] = w]
      BY <1>4, <2>4, ReadComputes DEF Start, NextRange
    <3> QED
      BY <1>4, <2>1, <3>1
  <2>5. ASSUME NEW d \in Workers, CallFails(d) PROVE FALSE
    <3>1. Lost(worker[d]).pc = "lost"
      BY <2>1 DEF Lost, Placement
    <3> QED
      BY <1>4, <2>1, <2>5, <3>1 DEF CallFails
  <2>6. ASSUME NEW d \in Workers
        PROVE  /\ Raced(worker[d]).pc = worker[d].pc /\ Lost(worker[d]).pc = "lost"
               /\ [worker[d] EXCEPT !.pc = "placed"].pc = "placed"
    BY <2>1 DEF Raced, Lost, Placement
  <2>7. ASSUME NEW d \in Workers, CreateRange(d) PROVE FALSE
    <3>1. CASE Refused(Body(d))
      <4>1. d # c /\ worker' = [worker EXCEPT ![d] = Overlapped(worker[d])]
        BY <2>2, <2>7, <3>1 DEF CreateRange
      <4> QED
        BY <1>4, <2>1, <4>1
    <3>2. CASE ~Refused(Body(d))
      <4>1. \/ worker'[c] = Raced(worker[c]) \/ worker'[c] = Lost(worker[c])
            \/ worker'[c] = [worker[c] EXCEPT !.pc = "placed"]
        BY <2>7, <3>2 DEF CreateRange
      <4> QED
        BY <1>4, <2>6, <4>1
    <3> QED
      BY <3>1, <3>2
  <2>8. CASE HumanRange
    <3>1. worker'[c] = Raced(worker[c])
      BY <2>8 DEF HumanRange
    <3> QED
      BY <1>4, <2>6, <3>1
  <2> QED
    BY <1>4, <2>3, <2>4, <2>5, <2>7, <2>8 DEF Next
<1>5. JInv /\ KInv /\ [Next]_vars =>
        [\A c \in Workers : worker[c].pc = "post" /\ worker'[c].pc \in {"read", "contended"}
                              => worker[c].raced]_vars
  BY <1>4
<1> QED
  BY InitJInv, <1>1, <1>2, <1>3, <1>5, PTL DEF Spec, RejectedWereRaced
=============================================================================
