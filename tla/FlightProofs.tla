---------------------------- MODULE FlightProofs ----------------------------
(***************************************************************************)
(* Proofs about Flight, for every grain.  The grid finds everybody in      *)
(* reach, for every radius and every place; so an explosion strikes        *)
(* exactly whom it should, and no projectile flies through anybody between *)
(* two of its sub-steps.  The pool never hands out an object that flies.   *)
(* Nobody leaves the arena, and nobody stands halfway in a structure,      *)
(* whatever moves are asked for.                                           *)
(*                                                                         *)
(* What the push out of one structure after the other amounts to is an     *)
(* induction over the structures.  The induction theorems of the library   *)
(* cannot be instantiated, so it is done with the least element of a set   *)
(* of numbers.  The products of the geometry are kept behind names         *)
(* (Square, Short, Beside, Near), and a lemma for each speaks of them.     *)
(***************************************************************************)
EXTENDS Flight, WellFoundedInduction, TLAPS
-----------------------------------------------------------------------------
(* The lengths are numbers, and the raster divides them.                   *)
LEMMA GrainPositive == Grain \in Nat \ {0}
  BY FlightAssumption DEF FlightAssumption

LEMMA Lengths ==
  /\ PLAYER_RADIUS \in Nat \ {0} /\ PLAYER_RADIUS = 20 * Grain /\ PLAYER_RADIUS >= 20
  /\ CellSize \in Nat \ {0} /\ Reach \in Nat /\ Reach = 26 * Grain
  /\ BlastReach \in Nat /\ Depth = 24 * Grain
  /\ Width \in Int /\ Width = 1600 * Grain /\ Height \in Int /\ Height = 1200 * Grain
  /\ Margin \in Nat /\ Margin = 30 * Grain
  BY GrainPositive DEF PLAYER_RADIUS, PROJECTILE_RADIUS, CellSize, Reach, BlastReach, Depth,
                       Width, Height, Margin

(* A common factor may be dropped.                                         *)
LEMMA CancelFactor ==
  ASSUME NEW n \in Nat \ {0}, NEW a \in Int, NEW b \in Int, n * a <= n * b
  PROVE  a <= b
  OBVIOUS

(* Integer division is monotonic, and a square bounds its root.            *)
LEMMA DivisionRest ==
  ASSUME NEW n \in Nat \ {0}, NEW a \in Int
  PROVE  a \div n \in Int /\ n * (a \div n) <= a /\ a < n * (a \div n) + n
  OBVIOUS

LEMMA QuotientsOrdered ==
  ASSUME NEW n \in Nat \ {0}, NEW i \in Int, NEW j \in Int, n * i < n * j + n
  PROVE  i <= j
  <1> SUFFICES ASSUME j + 1 <= i PROVE FALSE
    OBVIOUS
  <1>1. 0 <= n * (i - (j + 1))
    OBVIOUS
  <1>2. n * (i - (j + 1)) = n * i - (n * j + n)
    OBVIOUS
  <1>3. n * i \in Int /\ n * j \in Int
    OBVIOUS
  <1> QED
    BY <1>1, <1>2, <1>3

LEMMA CellMonotonic ==
  ASSUME NEW a \in Int, NEW b \in Int, a <= b
  PROVE  a \div CellSize \in Int /\ a \div CellSize <= b \div CellSize
  <1> DEFINE i == a \div CellSize
             j == b \div CellSize
  <1>1. CellSize \in Nat \ {0}
    BY Lengths
  <1>2. /\ i \in Int /\ CellSize * i <= a
        /\ j \in Int /\ b < CellSize * j + CellSize
    BY <1>1, DivisionRest
  <1> HIDE DEF i, j
  <1>3. CellSize * i \in Int /\ CellSize * j \in Int
    BY <1>1, <1>2
  <1>4. CellSize * i < CellSize * j + CellSize
    BY <1>1, <1>2, <1>3
  <1>5. i <= j
    BY <1>1, <1>2, <1>4, QuotientsOrdered
  <1> QED
    BY <1>2, <1>5 DEF i, j

LEMMA WithinRadius ==
  ASSUME NEW a \in Int, NEW b \in Int, NEW r \in Nat, Square(a - b) <= Square(r)
  PROVE  a - r <= b /\ b <= a + r
  <1>1. ASSUME b < a - r PROVE FALSE
    <2>1. (a - b) * (a - b) > r * r
      BY <1>1
    <2> QED
      BY <2>1 DEF Square
  <1>2. ASSUME a + r < b PROVE FALSE
    <2>1. (b - a) * (b - a) > r * r
      BY <1>2
    <2>2. (b - a) * (b - a) = (a - b) * (a - b)
      OBVIOUS
    <2> QED
      BY <2>1, <2>2 DEF Square
  <1> QED
    BY <1>1, <1>2

LEMMA SquareNat == \A a \in Int : Square(a) \in Nat
  <1> TAKE a \in Int
  <1>1. a * a >= 0
    BY SMT
  <1> QED
    BY <1>1 DEF Square

LEMMA CloserThan ==
  ASSUME NEW p \in Points, NEW q \in Points, NEW r \in Nat, DistSq(p, q) <= Square(r)
  PROVE  /\ p.x - r <= q.x /\ q.x <= p.x + r
         /\ p.y - r <= q.y /\ q.y <= p.y + r
  <1>1. /\ p.x \in Int /\ p.y \in Int /\ q.x \in Int /\ q.y \in Int
        /\ p.x - q.x \in Int /\ p.y - q.y \in Int
    BY DEF Points
  <1>2. Square(p.x - q.x) \in Nat /\ Square(p.y - q.y) \in Nat /\ Square(r) \in Nat
    BY <1>1, SquareNat
  <1>3. Square(p.x - q.x) <= Square(r) /\ Square(p.y - q.y) <= Square(r)
    BY <1>2 DEF DistSq
  <1> QED
    BY <1>1, <1>3, WithinRadius

(* The centre of whoever is within the radius of a query lies in a cell    *)
(* that is looked at and that the player has been entered into             *)
(* (spatial-hash.ts:39-91), wherever the two are and however many cells    *)
(* the radius spans.                                                       *)
THEOREM BroadPhaseComplete ==
  ASSUME NEW p \in Points, NEW q \in Points, NEW r \in Nat, DistSq(p, q) <= Square(r)
  PROVE  Cells(q, PLAYER_RADIUS) \cap Cells(p, r) # {}
  <1> DEFINE cell == <<q.x \div CellSize, q.y \div CellSize>>
  <1>1. p.x \in Int /\ p.y \in Int /\ q.x \in Int /\ q.y \in Int
    BY DEF Points
  <1>2. ASSUME NEW a \in Int, NEW b \in Int, NEW n \in Nat, a - n <= b, b <= a + n
        PROVE  b \div CellSize \in (a - n) \div CellSize .. (a + n) \div CellSize
    <2>1. a - n \in Int /\ a + n \in Int
      BY <1>2
    <2>2. /\ b \div CellSize \in Int
          /\ (a - n) \div CellSize \in Int /\ (a - n) \div CellSize <= b \div CellSize
          /\ (a + n) \div CellSize \in Int /\ b \div CellSize <= (a + n) \div CellSize
      BY <1>2, <2>1, CellMonotonic
    <2> QED
      BY <2>2
  <1>3. cell \in Cells(q, PLAYER_RADIUS)
    <2>1. PLAYER_RADIUS \in Nat
      BY Lengths
    <2>2. /\ q.x - PLAYER_RADIUS <= q.x /\ q.x <= q.x + PLAYER_RADIUS
          /\ q.y - PLAYER_RADIUS <= q.y /\ q.y <= q.y + PLAYER_RADIUS
      BY <1>1, <2>1
    <2>3. q.x \div CellSize \in (q.x - PLAYER_RADIUS) \div CellSize
                                .. (q.x + PLAYER_RADIUS) \div CellSize
      BY <1>1, <1>2, <2>1, <2>2, Zenon
    <2>4. q.y \div CellSize \in (q.y - PLAYER_RADIUS) \div CellSize
                                .. (q.y + PLAYER_RADIUS) \div CellSize
      BY <1>1, <1>2, <2>1, <2>2, Zenon
    <2> QED
      BY <2>3, <2>4, Zenon DEF Cells
  <1>4. cell \in Cells(p, r)
    <2>1. /\ p.x - r <= q.x /\ q.x <= p.x + r
          /\ p.y - r <= q.y /\ q.y <= p.y + r
      BY <1>1, CloserThan
    <2>2. q.x \div CellSize \in (p.x - r) \div CellSize .. (p.x + r) \div CellSize
      BY <1>1, <1>2, <2>1, Zenon
    <2>3. q.y \div CellSize \in (p.y - r) \div CellSize .. (p.y + r) \div CellSize
      BY <1>1, <1>2, <2>1, Zenon
    <2> QED
      BY <2>2, <2>3, Zenon DEF Cells
  <1> QED
    BY <1>3, <1>4

(* The search by cells loses nobody.                                       *)
LEMMA StruckExact ==
  ASSUME grid \in [DOMAIN grid -> Points], NEW p \in Points, NEW r \in Nat
  PROVE  Struck(p, r) = {u \in DOMAIN grid : DistSq(p, grid[u]) <= Square(r)}
  BY BroadPhaseComplete DEF Struck, Query
-----------------------------------------------------------------------------
(* The raster.                                                             *)

(* The least element principle, and induction over a set of numbers.       *)
LEMMA LeastNumber ==
  ASSUME NEW T \in SUBSET Nat, T # {}
  PROVE  \E n \in T : \A m \in T : n <= m
  <1>1. PICK n \in T : \A m \in T : ~(<<m, n>> \in OpToRel(<, Nat))
    BY NatLessThanWellFounded, WFMin
  <1>2. \A m \in T : ~(m < n)
    BY <1>1 DEF OpToRel
  <1> QED
    BY <1>2

LEMMA CountingUp ==
  ASSUME NEW T, 0 \in T, \A n \in Nat : n \in T => n + 1 \in T
  PROVE  \A n \in Nat : n \in T
  <1> SUFFICES ASSUME Nat \ T # {} PROVE FALSE
    OBVIOUS
  <1>1. PICK n \in Nat \ T : \A m \in Nat \ T : n <= m
    BY LeastNumber
  <1>2. n - 1 \in Nat /\ n - 1 \in T
    BY <1>1
  <1> QED
    BY <1>1, <1>2

(* What a push along one axis amounts to: n is next to, or is,             *)
(* PLAYER_RADIUS * |k| / sqrt(d), and has the sign of k.                   *)
Near(k, d, n) ==
  /\ n \in 0..PLAYER_RADIUS
  /\ n = 0 \/ Square(n - 1) * d < Square(PLAYER_RADIUS * k)
  /\ Square(PLAYER_RADIUS * k) < Square(n + 1) * d

LEMMA RoundedNear ==
  ASSUME NEW k \in Int, NEW d \in Nat, NEW m \in Rounded(k, d)
  PROVE  \E n \in Nat :
           /\ Near(k, d, n) /\ n \in 0..PLAYER_RADIUS
           /\ k = 0 => n = 0
           /\ IF k < 0 THEN m = -n ELSE m = n
  <1> DEFINE near == {n \in 0..PLAYER_RADIUS :
                 /\ n = 0 \/ Square(n - 1) * d < Square(PLAYER_RADIUS * k)
                 /\ Square(PLAYER_RADIUS * k) < Square(n + 1) * d}
  <1>1. PICK n \in near : IF k < 0 THEN m = -n ELSE m = n
    BY Zenon DEF Rounded
  <1>2. n \in Nat /\ n \in 0..PLAYER_RADIUS /\ Near(k, d, n)
    BY Lengths DEF Near
  <1>3. ASSUME k = 0 PROVE n = 0
    <2>1. Square(PLAYER_RADIUS * k) = 0
      BY <1>3, Lengths DEF Square
    <2>2. Square(n - 1) \in Nat
      BY <1>2, SquareNat
    <2>3. \A a \in Nat : a * d \in Nat
      OBVIOUS
    <2>4. Square(n - 1) * d \in Nat
      BY <2>2, <2>3, Zenon
    <2> QED
      BY <1>2, <2>1, <2>4 DEF Near
  <1> QED
    BY <1>1, <1>2, <1>3

LEMMA CancelStrict ==
  ASSUME NEW n \in Nat \ {0}, NEW a \in Int, NEW b \in Int, n * a < n * b
  PROVE  a < b
  OBVIOUS

(* On both axes together: the length of a push, up to the rounding.        *)
LEMMA PushLength ==
  ASSUME NEW k \in Int, NEW l \in Int, NEW d \in Nat \ {0}, d = Square(k) + Square(l),
         NEW m \in Nat, NEW n \in Nat, Near(k, d, m), Near(l, d, n)
  PROVE  /\ Square(m + 1) + Square(n + 1) > Square(PLAYER_RADIUS)
         /\ m > 0 /\ n > 0 => Square(m - 1) + Square(n - 1) < Square(PLAYER_RADIUS)
  <1> DEFINE R == PLAYER_RADIUS
  <1>1. R \in Nat \ {0}
    BY Lengths
  <1>2. /\ m = 0 \/ Square(m - 1) * d < Square(R * k)
        /\ n = 0 \/ Square(n - 1) * d < Square(R * l)
        /\ Square(R * k) < Square(m + 1) * d /\ Square(R * l) < Square(n + 1) * d
    BY DEF Near
  <1> HIDE DEF R
  <1>3. Square(R * k) = Square(R) * Square(k) /\ Square(R * l) = Square(R) * Square(l)
    BY <1>1 DEF Square
  <1>4. /\ Square(k) \in Nat /\ Square(l) \in Nat /\ Square(R) \in Nat
        /\ Square(m + 1) \in Nat /\ Square(n + 1) \in Nat
        /\ Square(m - 1) \in Nat /\ Square(n - 1) \in Nat
    BY <1>1, SquareNat
  <1>5. Square(R) * Square(k) + Square(R) * Square(l) = d * Square(R)
    BY <1>4
  <1>6. Square(m + 1) + Square(n + 1) > Square(R)
    <2>1. d * (Square(m + 1) + Square(n + 1)) = Square(m + 1) * d + Square(n + 1) * d
      BY <1>4
    <2>2. /\ Square(m + 1) * d \in Int /\ Square(n + 1) * d \in Int
          /\ Square(R) * Square(k) \in Int /\ Square(R) * Square(l) \in Int
      BY <1>4
    <2>3. d * Square(R) < d * (Square(m + 1) + Square(n + 1))
      BY <1>2, <1>3, <1>5, <2>1, <2>2
    <2>4. Square(m + 1) + Square(n + 1) \in Int
      BY <1>4
    <2> QED
      BY <1>4, <2>3, <2>4, CancelStrict
  <1>7. ASSUME m > 0, n > 0 PROVE Square(m - 1) + Square(n - 1) < Square(R)
    <2>1. d * (Square(m - 1) + Square(n - 1)) = Square(m - 1) * d + Square(n - 1) * d
      BY <1>4
    <2>2. /\ Square(m - 1) * d \in Int /\ Square(n - 1) * d \in Int
          /\ Square(R) * Square(k) \in Int /\ Square(R) * Square(l) \in Int
      BY <1>4
    <2>3. d * (Square(m - 1) + Square(n - 1)) < d * Square(R)
      BY <1>2, <1>3, <1>5, <1>7, <2>1, <2>2
    <2>4. Square(m - 1) + Square(n - 1) \in Int
      BY <1>4
    <2> QED
      BY <1>4, <2>3, <2>4, CancelStrict
  <1> QED
    BY <1>6, <1>7 DEF R

(* So a push is at most two grains short.                                  *)
LEMMA TwoGrainsShort ==
  ASSUME NEW r \in Nat, r >= 2, NEW m \in Nat, NEW n \in Nat,
         Square(m + 1) + Square(n + 1) > Square(r)
  PROVE  Square(m) + Square(n) >= Square(r - 2)
  <1>0. Square(m) \in Nat /\ Square(n) \in Nat /\ Square(r - 2) \in Nat
    BY SquareNat
  <1>1. ASSUME NEW a \in Nat, a >= r - 2 PROVE Square(a) >= Square(r - 2)
    <2>1. a * a >= (r - 2) * (r - 2)
      BY <1>1
    <2> QED
      BY <2>1 DEF Square
  <1>2. CASE m >= r - 2 \/ n >= r - 2
    BY <1>0, <1>1, <1>2
  <1>3. CASE m < r - 2 /\ n < r - 2
    <2>1. /\ Square(m + 1) = Square(m) + 2 * m + 1
          /\ Square(n + 1) = Square(n) + 2 * n + 1
          /\ Square(r - 2) = Square(r) - 4 * r + 4
      BY DEF Square
    <2>2. Square(r) \in Nat
      BY SquareNat
    <2> QED
      BY <1>0, <1>3, <2>1, <2>2
  <1> QED
    BY <1>2, <1>3

(* The structures are rectangles on the raster.                            *)
Boxes == [x : Int, y : Int, width : Nat, height : Nat]

LEMMA StructuresOnRaster ==
  /\ Len(COVER_STRUCTURES) \in Nat
  /\ DOMAIN COVER_STRUCTURES = 1..Len(COVER_STRUCTURES)
  /\ \A i \in 1..Len(COVER_STRUCTURES) : COVER_STRUCTURES[i] \in Boxes
  <1>1. \A a, b \in Int, w, h \in Nat : Box(a, b, w, h) \in Boxes
    BY GrainPositive DEF Box, Boxes
  <1>2. Len(COVER_STRUCTURES) = 20 /\ DOMAIN COVER_STRUCTURES = 1..20
    BY DEF COVER_STRUCTURES
  <1>3. /\ COVER_STRUCTURES[1] \in Boxes /\ COVER_STRUCTURES[2] \in Boxes
        /\ COVER_STRUCTURES[3] \in Boxes /\ COVER_STRUCTURES[4] \in Boxes
        /\ COVER_STRUCTURES[5] \in Boxes
    BY <1>1 DEF COVER_STRUCTURES
  <1>4. /\ COVER_STRUCTURES[6] \in Boxes /\ COVER_STRUCTURES[7] \in Boxes
        /\ COVER_STRUCTURES[8] \in Boxes /\ COVER_STRUCTURES[9] \in Boxes
        /\ COVER_STRUCTURES[10] \in Boxes
    BY <1>1 DEF COVER_STRUCTURES
  <1>5. /\ COVER_STRUCTURES[11] \in Boxes /\ COVER_STRUCTURES[12] \in Boxes
        /\ COVER_STRUCTURES[13] \in Boxes /\ COVER_STRUCTURES[14] \in Boxes
        /\ COVER_STRUCTURES[15] \in Boxes
    BY <1>1 DEF COVER_STRUCTURES
  <1>6. /\ COVER_STRUCTURES[16] \in Boxes /\ COVER_STRUCTURES[17] \in Boxes
        /\ COVER_STRUCTURES[18] \in Boxes /\ COVER_STRUCTURES[19] \in Boxes
        /\ COVER_STRUCTURES[20] \in Boxes
    BY <1>1 DEF COVER_STRUCTURES
  <1> QED
    BY <1>2, <1>3, <1>4, <1>5, <1>6

(* A push, as far as it concerns the type of the result.                   *)
LEMMA ClosestOnRaster ==
  ASSUME NEW p \in Points, NEW s \in Boxes
  PROVE  /\ Closest(p, s).x \in Int /\ Closest(p, s).y \in Int
         /\ p.x - Closest(p, s).x \in Int /\ p.y - Closest(p, s).y \in Int
         /\ DistSq(p, Closest(p, s)) \in Nat
  <1> DEFINE c == Closest(p, s)
  <1>1. p.x \in Int /\ p.y \in Int /\ s.x \in Int /\ s.y \in Int
        /\ s.width \in Nat /\ s.height \in Nat
    BY DEF Points, Boxes
  <1>2. c.x \in Int /\ c.y \in Int
    BY <1>1 DEF Closest, Between, Point
  <1> HIDE DEF c
  <1>3. p.x - c.x \in Int /\ p.y - c.y \in Int
    BY <1>1, <1>2
  <1>4. Square(p.x - c.x) \in Nat /\ Square(p.y - c.y) \in Nat
    BY <1>3, SquareNat
  <1>5. DistSq(p, c) \in Nat
    BY <1>4 DEF DistSq
  <1> QED
    BY <1>2, <1>3, <1>5 DEF c

LEMMA RoundedInt ==
  ASSUME NEW k \in Int, NEW d \in Nat, NEW m \in Rounded(k, d)
  PROVE  m \in Int
  <1>1. PICK n \in Nat : IF k < 0 THEN m = -n ELSE m = n
    BY RoundedNear
  <1> QED
    BY <1>1

(* The two ways a structure can treat a place.                             *)
LEMMA PushedCases ==
  ASSUME NEW p, NEW s, NEW c, c = Closest(p, s), NEW d, d = DistSq(p, c),
         NEW r \in PushedOut(p, s)
  PROVE  \/ (d = 0 \/ d >= Square(PLAYER_RADIUS)) /\ r = p
         \/ /\ ~(d = 0 \/ d >= Square(PLAYER_RADIUS))
            /\ \E m \in Rounded(p.x - c.x, d), n \in Rounded(p.y - c.y, d) :
                 r = Point(c.x + m, c.y + n)
  <1>1. r \in IF d = 0 \/ d >= Square(PLAYER_RADIUS) THEN {p}
              ELSE {Point(c.x + m, c.y + n) :
                      m \in Rounded(p.x - c.x, d), n \in Rounded(p.y - c.y, d)}
    BY DEF PushedOut
  <1> QED
    BY <1>1

LEMMA PushedOutOnRaster ==
  ASSUME NEW p \in Points, NEW s \in Boxes, NEW r \in PushedOut(p, s)
  PROVE  r \in Points
  <1> DEFINE c == Closest(p, s)
             d == DistSq(p, c)
  <1>1. /\ c.x \in Int /\ c.y \in Int /\ p.x - c.x \in Int /\ p.y - c.y \in Int
        /\ d \in Nat
    BY ClosestOnRaster
  <1>2. c = Closest(p, s) /\ d = DistSq(p, c)
    OBVIOUS
  <1> HIDE DEF c, d
  <1>3. \/ r = p
        \/ \E m \in Rounded(p.x - c.x, d), n \in Rounded(p.y - c.y, d) :
             r = Point(c.x + m, c.y + n)
    BY <1>2, PushedCases
  <1>4. ASSUME NEW m \in Rounded(p.x - c.x, d), NEW n \in Rounded(p.y - c.y, d)
        PROVE  Point(c.x + m, c.y + n) \in Points
    <2>1. m \in Int /\ n \in Int
      BY <1>1, RoundedInt
    <2> QED
      BY <1>1, <2>1 DEF Point, Points
  <1> QED
    BY <1>3, <1>4

LEMMA ClampedOnRaster ==
  ASSUME NEW p \in Points
  PROVE  Clamped(p) \in Points
  BY Lengths DEF Clamped, Between, Point, Points

(* A function that follows After from structure to structure.              *)
Follows(f, p, n) ==
  /\ f \in [0..n -> SUBSET Points]
  /\ \A i \in 0..n :
       f[i] = IF i = 0 THEN {Clamped(p)}
              ELSE UNION {PushedOut(q, COVER_STRUCTURES[i]) : q \in f[i - 1]}

LEMMA AfterExists ==
  ASSUME NEW p \in Points
  PROVE  \E f : Follows(f, p, Len(COVER_STRUCTURES))
  <1> DEFINE L == Len(COVER_STRUCTURES)
             T == {n \in Nat : n <= L => \E f : Follows(f, p, n)}
  <1>1. 0 \in T
    <2> DEFINE f == [i \in 0..0 |-> {Clamped(p)}]
    <2>1. Follows(f, p, 0)
      BY ClampedOnRaster DEF Follows
    <2> QED
      BY <2>1
  <1>2. ASSUME NEW n \in Nat, n \in T PROVE n + 1 \in T
    <2> SUFFICES ASSUME n + 1 <= L PROVE \E f : Follows(f, p, n + 1)
      OBVIOUS
    <2>1. PICK f : Follows(f, p, n)
      BY <1>2, StructuresOnRaster
    <2> DEFINE next == UNION {PushedOut(q, COVER_STRUCTURES[n + 1]) : q \in f[n]}
               g == [i \in 0..n + 1 |-> IF i = n + 1 THEN next ELSE f[i]]
    <2>2. next \subseteq Points
      <3>1. f[n] \subseteq Points /\ COVER_STRUCTURES[n + 1] \in Boxes
        BY <2>1, StructuresOnRaster DEF Follows
      <3> QED
        BY <3>1, PushedOutOnRaster
    <2>3. g \in [0..n + 1 -> SUBSET Points]
      <3> HIDE DEF next
      <3> QED
        BY <2>1, <2>2 DEF Follows
    <2>4. ASSUME NEW i \in 0..n + 1
          PROVE  g[i] = IF i = 0 THEN {Clamped(p)}
                        ELSE UNION {PushedOut(q, COVER_STRUCTURES[i]) : q \in g[i - 1]}
      <3>1. CASE i = n + 1
        <4>1. i # 0 /\ i - 1 = n /\ g[i] = next /\ g[i - 1] = f[n]
          BY <3>1
        <4> HIDE DEF g
        <4> QED
          BY <3>1, <4>1
      <3>2. CASE i \in 0..n
        <4>1. g[i] = f[i] /\ (i # 0 => g[i - 1] = f[i - 1])
          BY <3>2
        <4>2. f[i] = IF i = 0 THEN {Clamped(p)}
                     ELSE UNION {PushedOut(q, COVER_STRUCTURES[i]) : q \in f[i - 1]}
          BY <2>1, <3>2, Zenon DEF Follows
        <4> HIDE DEF g
        <4> QED
          BY <4>1, <4>2, Zenon
      <3> QED
        BY <3>1, <3>2
    <2> HIDE DEF g
    <2>5. Follows(g, p, n + 1)
      BY <2>3, <2>4, Zenon DEF Follows
    <2> QED
      BY <2>5
  <1> HIDE DEF T
  <1>3. \A n \in Nat : n \in T
    BY <1>1, <1>2, CountingUp
  <1> QED
    BY <1>3, StructuresOnRaster DEF T

LEMMA AfterFollows ==
  ASSUME NEW p \in Points
  PROVE  \A i \in 0..Len(COVER_STRUCTURES) :
           After(p)[i] = IF i = 0 THEN {Clamped(p)}
                         ELSE UNION {PushedOut(q, COVER_STRUCTURES[i]) : q \in After(p)[i - 1]}
  <1> DEFINE L == Len(COVER_STRUCTURES)
             Law(f) == [i \in 0..L |->
                          IF i = 0 THEN {Clamped(p)}
                          ELSE UNION {PushedOut(q, COVER_STRUCTURES[i]) : q \in f[i - 1]}]
  <1>1. PICK f : Follows(f, p, L)
    BY AfterExists
  <1>2. f = Law(f)
    BY <1>1, Zenon DEF Follows
  <1>3. After(p) = CHOOSE g : g = Law(g)
    BY Zenon DEF After
  <1>4. After(p) = Law(After(p))
    BY <1>2, <1>3, Zenon
  <1> QED
    BY <1>4, Zenon

(* The structures by number: 11 is q3a, 13 is q3c.                         *)
Structure(i) == COVER_STRUCTURES[i]

(* The list as a set.                                                      *)
LEMMA TwentyStructures ==
  /\ Len(COVER_STRUCTURES) = 20 /\ DOMAIN COVER_STRUCTURES = 1..20
  /\ \A i \in 1..20 : Structure(i) \in Boxes
  /\ Cover = {Structure(i) : i \in 1..20}
  <1>1. Len(COVER_STRUCTURES) = 20
    BY DEF COVER_STRUCTURES
  <1> QED
    BY <1>1, StructuresOnRaster DEF Structure, Cover

(* What holds of the clamped place and passes from structure to structure  *)
(* holds of every place where a move may end.                              *)
LEMMA FromOneToTheNext ==
  ASSUME NEW p \in Points, NEW good, Clamped(p) \in good[0],
         \A n \in 0..19 : \A q \in good[n] : PushedOut(q, Structure(n + 1)) \subseteq good[n + 1]
  PROVE  Resolved(p) \subseteq good[20]
  <1> DEFINE T == {n \in Nat : n <= 20 => After(p)[n] \subseteq good[n]}
  <1>0. /\ After(p)[0] = {Clamped(p)}
        /\ \A n \in 0..19 :
             After(p)[n + 1] = UNION {PushedOut(q, Structure(n + 1)) : q \in After(p)[n]}
    <2>1. \A i \in 0..20 :
            After(p)[i] = IF i = 0 THEN {Clamped(p)}
                          ELSE UNION {PushedOut(q, COVER_STRUCTURES[i]) : q \in After(p)[i - 1]}
      BY AfterFollows, TwentyStructures
    <2>2. After(p)[0] = {Clamped(p)}
      <3>1. 0 \in 0..20
        OBVIOUS
      <3> QED
        BY <2>1, <3>1, Zenon
    <2>3. ASSUME NEW n \in 0..19
          PROVE  After(p)[n + 1] = UNION {PushedOut(q, Structure(n + 1)) : q \in After(p)[n]}
      <3>1. n + 1 \in 0..20 /\ n + 1 # 0 /\ (n + 1) - 1 = n
        OBVIOUS
      <3>2. After(p)[n + 1] =
              UNION {PushedOut(q, COVER_STRUCTURES[n + 1]) : q \in After(p)[(n + 1) - 1]}
        BY <2>1, <3>1, Zenon
      <3> QED
        BY <3>1, <3>2, Zenon DEF Structure
    <2> QED
      BY <2>2, <2>3
  <1>1. 0 \in T
    BY <1>0
  <1>2. ASSUME NEW n \in Nat, n \in T PROVE n + 1 \in T
    <2> SUFFICES ASSUME n + 1 <= 20 PROVE After(p)[n + 1] \subseteq good[n + 1]
      OBVIOUS
    <2>1. n \in 0..19 /\ After(p)[n] \subseteq good[n]
      BY <1>2
    <2>2. \A q \in After(p)[n] : PushedOut(q, Structure(n + 1)) \subseteq good[n + 1]
      BY <2>1, Zenon
    <2>3. After(p)[n + 1] = UNION {PushedOut(q, Structure(n + 1)) : q \in After(p)[n]}
      BY <1>0, <2>1, Zenon
    <2> QED
      BY <2>2, <2>3, Zenon
  <1> HIDE DEF T
  <1>3. \A n \in Nat : n \in T
    BY <1>1, <1>2, CountingUp
  <1>4. After(p)[20] \subseteq good[20]
    BY <1>3 DEF T
  <1> QED
    BY <1>4, TwentyStructures DEF Resolved

-----------------------------------------------------------------------------
(* Cover.                                                                  *)

(* The point of a segment that is closest to a.                            *)
Nearest(c, a, low, len) ==
  \A b \in low..low + len : Square(a - c) <= Square(a - b)

LEMMA BetweenClosest ==
  ASSUME NEW low \in Int, NEW len \in Nat, NEW a \in Int, NEW c, c = Between(low, a, low + len)
  PROVE  /\ c \in Int /\ low <= c /\ c <= low + len
         /\ Nearest(c, a, low, len)
         /\ a < c => c = low
         /\ c < a => c = low + len
  <1>1. /\ c \in Int /\ low <= c /\ c <= low + len
        /\ a < c => c = low
        /\ c < a => c = low + len
    BY DEF Between
  <1>2. ASSUME NEW b \in Int, low <= b, b <= low + len
        PROVE  Square(a - c) <= Square(a - b)
    <2>1. CASE a < c
      <3>1. 0 <= c - a /\ c - a <= b - a
        BY <1>1, <1>2, <2>1
      <3>2. (c - a) * (c - a) <= (b - a) * (b - a)
        BY <1>1, <3>1
      <3>3. (c - a) * (c - a) = (a - c) * (a - c) /\ (b - a) * (b - a) = (a - b) * (a - b)
        BY <1>1
      <3> QED
        BY <3>2, <3>3 DEF Square
    <2>2. CASE c < a
      <3>1. 0 <= a - c /\ a - c <= a - b
        BY <1>1, <1>2, <2>2
      <3> QED
        BY <1>1, <3>1 DEF Square
    <2>3. CASE a = c
      <3>1. (a - b) * (a - b) >= 0
        BY SMT
      <3> QED
        BY <2>3, <3>1 DEF Square
    <2> QED
      BY <1>1, <2>1, <2>2, <2>3
  <1> QED
    BY <1>1, <1>2 DEF Nearest

(* Within r of a structure on both axes.                                   *)
Around(p, s, r) ==
  /\ s.x - r <= p.x /\ p.x <= s.x + s.width + r
  /\ s.y - r <= p.y /\ p.y <= s.y + s.height + r

(* The closest point is a point of the structure, and there is no closer.  *)
LEMMA ClosestInside ==
  ASSUME NEW p \in Points, NEW s \in Boxes
  PROVE  /\ Closest(p, s) \in Points /\ Around(Closest(p, s), s, 0)
         /\ Clearance(p, s) \in Nat
         /\ \A q \in Points : Around(q, s, 0) => Clearance(p, s) <= DistSq(p, q)
  <1> DEFINE c == Closest(p, s)
  <1>1. /\ p.x \in Int /\ s.x \in Int /\ s.width \in Nat
        /\ p.y \in Int /\ s.y \in Int /\ s.height \in Nat
    BY DEF Points, Boxes
  <1>2. /\ c.x = Between(s.x, p.x, s.x + s.width)
        /\ c.y = Between(s.y, p.y, s.y + s.height)
    BY DEF Closest, Point
  <1>0. ASSUME NEW low \in Int, NEW len \in Nat, NEW a \in Int, NEW b,
               b = Between(low, a, low + len)
        PROVE  b \in Int /\ low <= b /\ b <= low + len /\ Nearest(b, a, low, len)
    BY <1>0, BetweenClosest
  <1> HIDE DEF c
  <1>3. /\ c.x \in Int /\ s.x <= c.x /\ c.x <= s.x + s.width
        /\ Nearest(c.x, p.x, s.x, s.width)
    BY <1>0, <1>1, <1>2, Zenon
  <1>4. /\ c.y \in Int /\ s.y <= c.y /\ c.y <= s.y + s.height
        /\ Nearest(c.y, p.y, s.y, s.height)
    BY <1>0, <1>1, <1>2, Zenon
  <1> USE DEF c
  <1>5. c \in Points
    BY <1>3, <1>4 DEF Closest, Point, Points
  <1> HIDE DEF c
  <1>6. Around(c, s, 0)
    BY <1>1, <1>3, <1>4 DEF Around
  <1>7. /\ Square(p.x - c.x) \in Nat /\ Square(p.y - c.y) \in Nat
        /\ DistSq(p, c) = Square(p.x - c.x) + Square(p.y - c.y)
    BY <1>1, <1>3, <1>4, SquareNat DEF DistSq
  <1>8. ASSUME NEW q \in Points, Around(q, s, 0)
        PROVE  DistSq(p, c) <= DistSq(p, q)
    <2>1. q.x \in Int /\ q.y \in Int
      BY DEF Points
    <2>2. q.x \in s.x..s.x + s.width /\ q.y \in s.y..s.y + s.height
      BY <1>1, <1>8, <2>1 DEF Around
    <2>3. Square(p.x - c.x) <= Square(p.x - q.x) /\ Square(p.y - c.y) <= Square(p.y - q.y)
      BY <1>3, <1>4, <2>2 DEF Nearest
    <2>4. Square(p.x - q.x) \in Nat /\ Square(p.y - q.y) \in Nat
      BY <1>1, <2>1, SquareNat
    <2> QED
      BY <1>7, <2>3, <2>4 DEF DistSq
  <1> QED
    BY <1>5, <1>6, <1>7, <1>8 DEF c, Clearance

(* Whoever is in reach of a structure is near it on both axes, and whoever *)
(* is not near it on one of them is out of reach.                          *)
LEMMA InReachIsAround ==
  ASSUME NEW p \in Points, NEW s \in Boxes, NEW r \in Nat, Clearance(p, s) <= Square(r)
  PROVE  Around(p, s, r)
  <1>1. /\ Closest(p, s) \in Points /\ Around(Closest(p, s), s, 0)
    BY ClosestInside
  <1>2. /\ p.x - r <= Closest(p, s).x /\ Closest(p, s).x <= p.x + r
        /\ p.y - r <= Closest(p, s).y /\ Closest(p, s).y <= p.y + r
    BY <1>1, CloserThan DEF Clearance
  <1> QED
    BY <1>1, <1>2 DEF Around, Points, Boxes

LEMMA FarOnOneAxis ==
  ASSUME NEW p \in Points, NEW s \in Boxes, NEW r \in Nat,
         \/ p.x + r <= s.x \/ s.x + s.width + r <= p.x
         \/ p.y + r <= s.y \/ s.y + s.height + r <= p.y
  PROVE  Clearance(p, s) >= Square(r)
  <1> DEFINE c == Closest(p, s)
  <1>1. /\ p.x \in Int /\ p.y \in Int /\ s.x \in Int /\ s.y \in Int
        /\ s.width \in Nat /\ s.height \in Nat
    BY DEF Points, Boxes
  <1>2. /\ c \in Points /\ Around(c, s, 0)
    BY ClosestInside
  <1> HIDE DEF c
  <1>3. /\ c.x \in Int /\ s.x <= c.x /\ c.x <= s.x + s.width
        /\ c.y \in Int /\ s.y <= c.y /\ c.y <= s.y + s.height
    BY <1>1, <1>2 DEF Around, Points
  <1>4. /\ Square(p.x - c.x) \in Nat /\ Square(p.y - c.y) \in Nat
        /\ DistSq(p, c) = Square(p.x - c.x) + Square(p.y - c.y)
    BY <1>1, <1>3, SquareNat DEF DistSq
  <1>5. ASSUME NEW a \in Int, NEW b \in Int, a + r <= b \/ b + r <= a
        PROVE  Square(a - b) >= Square(r)
    <2>1. CASE a + r <= b
      <3>1. (b - a) * (b - a) >= r * r /\ (b - a) * (b - a) = (a - b) * (a - b)
        BY <2>1
      <3> QED
        BY <3>1 DEF Square
    <2>2. CASE b + r <= a
      <3>1. (a - b) * (a - b) >= r * r
        BY <2>2
      <3> QED
        BY <3>1 DEF Square
    <2> QED
      BY <1>5, <2>1, <2>2
  <1>6. Square(p.x - c.x) >= Square(r) \/ Square(p.y - c.y) >= Square(r)
    <2>1. \/ p.x + r <= c.x \/ c.x + r <= p.x
          \/ p.y + r <= c.y \/ c.y + r <= p.y
      BY <1>1, <1>3
    <2> QED
      BY <1>1, <1>3, <1>5, <2>1
  <1>7. Square(r) \in Nat
    BY SquareNat
  <1> QED
    BY <1>4, <1>6, <1>7 DEF Clearance, c

(* Whoever touches a structure is out of reach of all that are apart of it. *)
LEMMA AroundOneIsClearOfOther ==
  ASSUME NEW p \in Points, NEW s \in Boxes, NEW t \in Boxes, Apart(s, t) \/ Apart(t, s),
         Around(p, s, PLAYER_RADIUS)
  PROVE  Clearance(p, t) >= Square(PLAYER_RADIUS)
  <1>1. /\ p.x \in Int /\ p.y \in Int /\ s.x \in Int /\ s.y \in Int
        /\ s.width \in Nat /\ s.height \in Nat
        /\ t.x \in Int /\ t.y \in Int /\ t.width \in Nat /\ t.height \in Nat
    BY DEF Points, Boxes
  <1>2. PLAYER_RADIUS \in Nat
    BY Lengths
  <1>3. \/ p.x + PLAYER_RADIUS <= t.x \/ t.x + t.width + PLAYER_RADIUS <= p.x
        \/ p.y + PLAYER_RADIUS <= t.y \/ t.y + t.height + PLAYER_RADIUS <= p.y
    BY <1>1, <1>2 DEF Around, Apart
  <1> QED
    BY <1>2, <1>3, FarOnOneAxis

(* A player is left alone, or pushed.                                      *)
Pushed(p, s) == 0 < Clearance(p, s) /\ Clearance(p, s) < Square(PLAYER_RADIUS)

(* Whoever is inside or out of reach stays where he is.                    *)
LEMMA NotPushed ==
  ASSUME NEW p \in Points, NEW s \in Boxes, ~Pushed(p, s), NEW r \in PushedOut(p, s)
  PROVE  r = p
  <1>1. Clearance(p, s) \in Nat /\ Square(PLAYER_RADIUS) \in Nat
    BY ClosestInside, Lengths, SquareNat
  <1>2. Clearance(p, s) = 0 \/ Clearance(p, s) >= Square(PLAYER_RADIUS)
    BY <1>1 DEF Pushed
  <1> QED
    BY <1>2, PushedCases DEF Clearance

(* Whoever is pushed ends at the same side of the structure, out of reach  *)
(* but for the rounding, and, off a corner, not beyond.                    *)
LEMMA PushedIsClear ==
  ASSUME NEW p \in Points, NEW s \in Boxes, Pushed(p, s),
         NEW c, c = Closest(p, s), NEW r \in PushedOut(p, s)
  PROVE  /\ r \in Points /\ Closest(r, s) = c
         /\ Clearance(r, s) >= Square(PLAYER_RADIUS - 2)
         /\ Around(r, s, PLAYER_RADIUS)
         /\ r.x > c.x /\ r.y > c.y =>
              Square(r.x - c.x - 1) + Square(r.y - c.y - 1) < Square(PLAYER_RADIUS)
  <1> DEFINE k == p.x - c.x
             l == p.y - c.y
             d == DistSq(p, c)
  <1>1. /\ p.x \in Int /\ p.y \in Int /\ s.x \in Int /\ s.y \in Int
        /\ s.width \in Nat /\ s.height \in Nat
    BY DEF Points, Boxes
  <1>2. c \in Points /\ Around(c, s, 0) /\ d \in Nat /\ d > 0 /\ ~(d >= Square(PLAYER_RADIUS))
    <2>1. Square(PLAYER_RADIUS) \in Nat
      BY Lengths, SquareNat
    <2> QED
      BY <2>1, ClosestInside DEF Pushed, Clearance
  <1>3. c.x \in Int /\ c.y \in Int /\ k \in Int /\ l \in Int
    BY <1>1, <1>2 DEF Points
  <1>4. d = Square(k) + Square(l)
    BY DEF DistSq
  <1>5. PICK m \in Rounded(k, d), n \in Rounded(l, d) : r = Point(c.x + m, c.y + n)
    <2>1. d = DistSq(p, c)
      OBVIOUS
    <2> HIDE DEF d
    <2> QED
      BY <1>2, <2>1, PushedCases
  <1> HIDE DEF k, l, d
  <1>6. PICK i \in Nat : /\ Near(k, d, i) /\ i \in 0..PLAYER_RADIUS
                         /\ k = 0 => i = 0
                         /\ IF k < 0 THEN m = -i ELSE m = i
    BY <1>2, <1>3, RoundedNear
  <1>7. PICK j \in Nat : /\ Near(l, d, j) /\ j \in 0..PLAYER_RADIUS
                         /\ l = 0 => j = 0
                         /\ IF l < 0 THEN n = -j ELSE n = j
    BY <1>2, <1>3, RoundedNear
  <1>8. c.x = Between(s.x, p.x, s.x + s.width) /\ c.y = Between(s.y, p.y, s.y + s.height)
    BY DEF Closest, Point
  <1>9. r.x = c.x + m /\ r.y = c.y + n /\ r \in Points /\ m \in Int /\ n \in Int
    BY <1>3, <1>5, <1>6, <1>7 DEF Point, Points
  <1>10. Closest(r, s) = c
    <2>1. /\ p.x - c.x < 0 => m <= 0
          /\ p.x - c.x >= 0 => m >= 0
          /\ p.x - c.x = 0 => m = 0
      BY <1>3, <1>6 DEF k
    <2>2. /\ p.y - c.y < 0 => n <= 0
          /\ p.y - c.y >= 0 => n >= 0
          /\ p.y - c.y = 0 => n = 0
      BY <1>3, <1>7 DEF l
    <2>3. Between(s.x, c.x + m, s.x + s.width) = c.x
      BY <1>1, <1>3, <1>8, <1>9, <2>1 DEF Between
    <2>4. Between(s.y, c.y + n, s.y + s.height) = c.y
      BY <1>1, <1>3, <1>8, <1>9, <2>2 DEF Between
    <2> QED
      BY <1>2, <1>9, <2>3, <2>4 DEF Closest, Point, Points
  <1>11. /\ Square(i + 1) + Square(j + 1) > Square(PLAYER_RADIUS)
         /\ i > 0 /\ j > 0 => Square(i - 1) + Square(j - 1) < Square(PLAYER_RADIUS)
    BY <1>2, <1>3, <1>4, <1>6, <1>7, PushLength
  <1>12. Square(m) = Square(i) /\ Square(n) = Square(j)
    BY <1>6, <1>7 DEF Square
  <1>13. Clearance(r, s) = Square(i) + Square(j)
    <2>1. r.x - c.x = m /\ r.y - c.y = n
      BY <1>3, <1>9
    <2> QED
      BY <1>10, <1>12, <2>1 DEF Clearance, DistSq
  <1>14. Clearance(r, s) >= Square(PLAYER_RADIUS - 2)
    BY <1>11, <1>13, TwoGrainsShort, Lengths
  <1>15. Around(r, s, PLAYER_RADIUS)
    <2>1. m \in -PLAYER_RADIUS..PLAYER_RADIUS /\ n \in -PLAYER_RADIUS..PLAYER_RADIUS
      BY <1>6, <1>7, Lengths
    <2> QED
      BY <1>1, <1>2, <1>3, <1>9, <2>1, Lengths DEF Around
  <1>16. ASSUME r.x > c.x, r.y > c.y
         PROVE  Square(r.x - c.x - 1) + Square(r.y - c.y - 1) < Square(PLAYER_RADIUS)
    <2>1. /\ r.x - c.x - 1 = i - 1 /\ r.y - c.y - 1 = j - 1 /\ i > 0 /\ j > 0
      BY <1>3, <1>6, <1>7, <1>9, <1>16
    <2> QED
      BY <1>11, <2>1
  <1> QED
    BY <1>9, <1>10, <1>14, <1>15, <1>16

(* Where the structures are.                                               *)
Lies(i, a, b, w, h) ==
  /\ Structure(i).x = a * Grain /\ Structure(i).y = b * Grain
  /\ Structure(i).width = w * Grain /\ Structure(i).height = h * Grain

LEMMA Layout ==
  /\ Lies(1, 720, 540, 80, 80)
  /\ Lies(2, 860, 490, 120, 40)
  /\ Lies(3, 760, 660, 40, 100)
  /\ Lies(4, 900, 620, 60, 60)
  /\ Lies(5, 180, 130, 100, 40)
  /\ Lies(6, 320, 250, 50, 50)
  /\ Lies(7, 100, 320, 40, 120)
  /\ Lies(8, 1280, 110, 90, 50)
  /\ Lies(9, 1150, 270, 50, 50)
  /\ Lies(10, 1420, 200, 40, 130)
  /\ Lies(11, 150, 900, 110, 40)
  /\ Lies(12, 310, 1010, 50, 50)
  /\ Lies(13, 90, 780, 40, 100)
  /\ Lies(14, 1300, 950, 100, 40)
  /\ Lies(15, 1180, 1050, 60, 60)
  /\ Lies(16, 1450, 840, 40, 110)
  /\ Lies(17, 500, 580, 150, 35)
  /\ Lies(18, 1050, 560, 35, 150)
  /\ Lies(19, 600, 900, 80, 40)
  /\ Lies(20, 1000, 280, 40, 80)
  <1>1. ASSUME NEW i, NEW a, NEW b, NEW w, NEW h, Structure(i) = Box(a, b, w, h)
        PROVE  Lies(i, a, b, w, h)
    BY <1>1 DEF Lies, Box
  <1>2. /\ Structure(1) = Box(720, 540, 80, 80)
        /\ Structure(2) = Box(860, 490, 120, 40)
        /\ Structure(3) = Box(760, 660, 40, 100)
        /\ Structure(4) = Box(900, 620, 60, 60)
        /\ Structure(5) = Box(180, 130, 100, 40)
        /\ Structure(6) = Box(320, 250, 50, 50)
        /\ Structure(7) = Box(100, 320, 40, 120)
        /\ Structure(8) = Box(1280, 110, 90, 50)
        /\ Structure(9) = Box(1150, 270, 50, 50)
        /\ Structure(10) = Box(1420, 200, 40, 130)
    BY DEF Structure, COVER_STRUCTURES
  <1>3. /\ Structure(11) = Box(150, 900, 110, 40)
        /\ Structure(12) = Box(310, 1010, 50, 50)
        /\ Structure(13) = Box(90, 780, 40, 100)
        /\ Structure(14) = Box(1300, 950, 100, 40)
        /\ Structure(15) = Box(1180, 1050, 60, 60)
        /\ Structure(16) = Box(1450, 840, 40, 110)
        /\ Structure(17) = Box(500, 580, 150, 35)
        /\ Structure(18) = Box(1050, 560, 35, 150)
        /\ Structure(19) = Box(600, 900, 80, 40)
        /\ Structure(20) = Box(1000, 280, 40, 80)
    BY DEF Structure, COVER_STRUCTURES
  <1> QED
    BY <1>1, <1>2, <1>3

(* Structures keep away from the border, by more than a player is wide.    *)
Framed(s) ==
  /\ s.x >= 50 * Grain /\ s.x + s.width + 40 * Grain <= Width
  /\ s.y >= 50 * Grain /\ s.y + s.height + 40 * Grain <= Height

LEMMA StructuresFramed == \A i \in 1..20 : Framed(Structure(i))
  <1> TAKE i \in 1..20
  <1> QED
    BY Layout, Lengths, GrainPositive DEF Framed, Lies

(* All are apart of each other but q3a and q3c.                            *)
LEMMA StructuresApart ==
  \A i, j \in 1..20 : i < j /\ ~(i = 11 /\ j = 13) => Apart(Structure(i), Structure(j))
  BY Layout, Lengths, GrainPositive, SMTT(60) DEF Lies, Apart

LEMMA Q3aIsSqueezed == Structure(11) \in Squeezed
  <1>1. ~Apart(Structure(11), Structure(13))
    BY Layout, Lengths, GrainPositive DEF Lies, Apart
  <1>2. 11 \in DOMAIN COVER_STRUCTURES /\ 13 \in 11 + 1..Len(COVER_STRUCTURES)
    BY TwentyStructures
  <1> QED
    BY <1>1, <1>2 DEF Squeezed, Structure

(* What is kept free around a structure.                                   *)
LEMMA KeptAround ==
  /\ \A s : Kept(s) \in Nat /\ Kept(s) <= PLAYER_RADIUS - 2
  /\ Kept(Structure(11)) = 8 * Grain - 2
  BY Q3aIsSqueezed, Lengths, GrainPositive DEF Kept

LEMMA SquareMonotonic ==
  ASSUME NEW a \in Nat, NEW b \in Nat, a <= b
  PROVE  Square(a) <= Square(b)
  <1>1. a * a <= b * b
    OBVIOUS
  <1> QED
    BY <1>1 DEF Square

(* The passage between q3a and q3c, 20 pixels wide and high: whoever is    *)
(* pushed into it off the corner of one is 8 pixels from that of the       *)
(* other, but for the rounding.  The diagonal is less than 28.5 long.      *)
LEMMA Passage ==
  ASSUME NEW g \in Nat \ {0}, NEW m \in 1..20 * g, NEW n \in 1..20 * g,
         Square(m - 1) + Square(n - 1) < Square(20 * g)
  PROVE  Square(20 * g - m) + Square(20 * g - n) >= Square(8 * g - 2)
  <1>1. ASSUME NEW x \in Int, NEW y \in Int, NEW l \in Nat, 2 * (x + y) >= l
        PROVE  8 * (Square(x) + Square(y)) >= Square(l)
    <2>1. 2 * (Square(x) + Square(y)) = Square(x + y) + Square(x - y)
      BY DEF Square
    <2>2. Square(x - y) \in Nat /\ Square(x + y) \in Nat /\ Square(x) \in Nat /\ Square(y) \in Nat
      BY SquareNat
    <2>3. 4 * Square(x + y) >= Square(l)
      <3>1. 4 * Square(x + y) = Square(2 * (x + y))
        BY DEF Square
      <3>2. 2 * (x + y) \in Nat
        BY <1>1
      <3> QED
        BY <1>1, <3>1, <3>2, SquareMonotonic
    <2>4. Square(l) \in Nat
      BY SquareNat
    <2> QED
      BY <2>1, <2>2, <2>3, <2>4
  <1> DEFINE a == 20 * g - m
             b == 20 * g - n
  <1>2. CASE 2 * (a + b) >= 23 * g - 4
    <2>1. a \in Int /\ b \in Int /\ 23 * g - 4 \in Nat /\ 8 * g - 2 \in Nat
      OBVIOUS
    <2>2. 8 * (Square(a) + Square(b)) >= Square(23 * g - 4)
      BY <1>1, <1>2, <2>1
    <2>3. Square(23 * g - 4) >= 8 * Square(8 * g - 2)
      <3>1. Square(23 * g - 4) = 529 * Square(g) - 184 * g + 16
        BY DEF Square
      <3>2. Square(8 * g - 2) = 64 * Square(g) - 32 * g + 4
        BY DEF Square
      <3>3. Square(g) >= g /\ Square(g) \in Nat
        <4>1. g * g >= g
          OBVIOUS
        <4> QED
          BY <4>1, SquareNat DEF Square
      <3> QED
        BY <3>1, <3>2, <3>3
    <2>4. Square(a) \in Nat /\ Square(b) \in Nat /\ Square(8 * g - 2) \in Nat
          /\ Square(23 * g - 4) \in Nat
      BY <2>1, SquareNat
    <2> HIDE DEF a, b
    <2>5. Square(a) + Square(b) >= Square(8 * g - 2)
      BY <2>2, <2>3, <2>4
    <2> QED
      BY <2>5 DEF a, b
  <1>3. CASE ~(2 * (a + b) >= 23 * g - 4)
    <2>1. 2 * ((m - 1) + (n - 1)) >= 57 * g + 1 /\ 57 * g + 1 \in Nat
      BY <1>3
    <2>2. 8 * (Square(m - 1) + Square(n - 1)) >= Square(57 * g + 1)
      BY <1>1, <2>1
    <2>3. Square(57 * g + 1) = 3249 * Square(g) + 114 * g + 1
      BY DEF Square
    <2>4. Square(20 * g) = 400 * Square(g)
      BY DEF Square
    <2>5. Square(g) \in Nat /\ Square(m - 1) \in Nat /\ Square(n - 1) \in Nat
      BY SquareNat
    <2> QED
      BY <2>2, <2>3, <2>4, <2>5
  <1> QED
    BY <1>2, <1>3

(* In a structure, or as far away as is kept.                              *)
Settled(p, s) == Clearance(p, s) = 0 \/ Clearance(p, s) >= Square(Kept(s))

LEMMA FarIsSettled ==
  ASSUME NEW p \in Points, NEW i \in 1..20, NEW r \in Nat, r >= PLAYER_RADIUS - 2,
         Clearance(p, Structure(i)) >= Square(r)
  PROVE  Settled(p, Structure(i))
  <1>0. Structure(i) \in Boxes /\ Kept(Structure(i)) \in Nat
        /\ Kept(Structure(i)) <= PLAYER_RADIUS - 2
    BY TwentyStructures, KeptAround
  <1>1. Clearance(p, Structure(i)) \in Nat /\ Square(Kept(Structure(i))) \in Nat
        /\ Square(r) \in Nat
    BY <1>0, ClosestInside, SquareNat
  <1>2. Square(Kept(Structure(i))) <= Square(r)
    BY <1>0, Lengths, SquareMonotonic
  <1> QED
    BY <1>1, <1>2 DEF Settled

(* The push out of q3c leaves the distance to q3a.                         *)
LEMMA PushedIntoPassage ==
  ASSUME NEW p \in Points, Pushed(p, Structure(13)), NEW r \in PushedOut(p, Structure(13))
  PROVE  Settled(r, Structure(11))
  <1> DEFINE c == Closest(p, Structure(13))
             g == Grain
  <1>0. /\ g \in Nat \ {0} /\ PLAYER_RADIUS = 20 * g
        /\ Structure(11) \in Boxes /\ Structure(13) \in Boxes
    BY GrainPositive, Lengths, TwentyStructures
  <1>1. /\ r \in Points /\ Closest(r, Structure(13)) = c /\ Around(r, Structure(13), PLAYER_RADIUS)
        /\ r.x > c.x /\ r.y > c.y =>
             Square(r.x - c.x - 1) + Square(r.y - c.y - 1) < Square(PLAYER_RADIUS)
    BY <1>0, PushedIsClear
  <1> HIDE DEF c
  <1>2. r.x \in Int /\ r.y \in Int
    BY <1>1 DEF Points
  <1>3. r.x <= 150 * g /\ r.y <= 900 * g
    BY <1>0, <1>1, <1>2, Layout DEF Around, Lies
  <1>4. CASE r.x <= 130 * g \/ r.y <= 880 * g
    <2>1. \/ r.x + PLAYER_RADIUS <= Structure(11).x
          \/ r.y + PLAYER_RADIUS <= Structure(11).y
      BY <1>0, <1>2, <1>4, Layout DEF Lies
    <2>2. Clearance(r, Structure(11)) >= Square(PLAYER_RADIUS)
      BY <1>0, <1>1, <2>1, FarOnOneAxis
    <2> QED
      BY <1>0, <1>1, <2>2, FarIsSettled
  <1>5. CASE r.x > 130 * g /\ r.y > 880 * g
    <2>1. c.x = 130 * g /\ c.y = 880 * g
      BY <1>0, <1>1, <1>2, <1>5, Layout DEF Closest, Between, Point, Lies
    <2> DEFINE m == r.x - 130 * g
               n == r.y - 880 * g
    <2>2. m \in 1..20 * g /\ n \in 1..20 * g
      BY <1>0, <1>2, <1>3, <1>5
    <2>3. Square(m - 1) + Square(n - 1) < Square(20 * g)
      BY <1>0, <1>1, <1>5, <2>1
    <2>4. Closest(r, Structure(11)) = Point(150 * g, 900 * g)
      BY <1>0, <1>2, <1>3, Layout DEF Closest, Between, Point, Lies
    <2>5. r.x - 150 * g = -(20 * g - m) /\ r.y - 900 * g = -(20 * g - n)
      BY <1>0, <1>2
    <2>6. Clearance(r, Structure(11)) = Square(-(20 * g - m)) + Square(-(20 * g - n))
      BY <2>4, <2>5 DEF Clearance, DistSq, Point
    <2> HIDE DEF m, n
    <2>7. Square(20 * g - m) + Square(20 * g - n) >= Square(8 * g - 2)
      BY <1>0, <2>2, <2>3, Passage
    <2>8. Square(-(20 * g - m)) = Square(20 * g - m) /\ Square(-(20 * g - n)) = Square(20 * g - n)
      BY <1>0, <2>2 DEF Square
    <2> QED
      BY <2>6, <2>7, <2>8, KeptAround DEF Settled
  <1> QED
    BY <1>0, <1>2, <1>4, <1>5

(* Pushed out of the first n structures.                                   *)
Passed(p, n) ==
  p \in Points /\ InArena(p) /\ \A i \in 1..n : Settled(p, Structure(i))

LEMMA PushedInArena ==
  ASSUME NEW r \in Points, NEW s \in Boxes, Framed(s), Around(r, s, PLAYER_RADIUS)
  PROVE  InArena(r)
  <1>1. /\ r.x \in Int /\ r.y \in Int /\ s.x \in Int /\ s.y \in Int
        /\ s.width \in Int /\ s.height \in Int
    BY DEF Points, Boxes
  <1>2. /\ s.x - PLAYER_RADIUS <= r.x /\ r.x <= s.x + s.width + PLAYER_RADIUS
        /\ s.y - PLAYER_RADIUS <= r.y /\ r.y <= s.y + s.height + PLAYER_RADIUS
    BY DEF Around
  <1>3. /\ 50 * Grain <= s.x /\ s.x + s.width + 40 * Grain <= Width
        /\ 50 * Grain <= s.y /\ s.y + s.height + 40 * Grain <= Height
    BY DEF Framed
  <1>4. PLAYER_RADIUS <= r.x /\ r.x <= Width - PLAYER_RADIUS
    BY <1>1, <1>2, <1>3, Lengths, GrainPositive
  <1>5. PLAYER_RADIUS <= r.y /\ r.y <= Height - PLAYER_RADIUS
    BY <1>1, <1>2, <1>3, Lengths, GrainPositive
  <1> QED
    BY <1>1, <1>4, <1>5, Lengths DEF InArena

LEMMA PassOne ==
  ASSUME NEW n \in 0..19, NEW p, Passed(p, n), NEW r \in PushedOut(p, Structure(n + 1))
  PROVE  Passed(r, n + 1)
  <1> DEFINE k == n + 1
             s == Structure(k)
  <1>1. k \in 1..20 /\ s \in Boxes /\ p \in Points /\ InArena(p) /\ Framed(s)
    BY TwentyStructures, StructuresFramed DEF Passed
  <1>2. CASE ~Pushed(p, s)
    <2>1. r = p
      BY <1>1, <1>2, NotPushed
    <2>2. Settled(p, s)
      <3>1. Clearance(p, s) \in Nat /\ Square(PLAYER_RADIUS) \in Nat
        BY <1>1, ClosestInside, Lengths, SquareNat
      <3>2. Clearance(p, s) = 0 \/ Clearance(p, s) >= Square(PLAYER_RADIUS)
        BY <1>2, <3>1 DEF Pushed
      <3>3. PLAYER_RADIUS \in Nat /\ PLAYER_RADIUS >= PLAYER_RADIUS - 2
        BY Lengths
      <3>4. CASE Clearance(p, s) >= Square(PLAYER_RADIUS)
        BY <1>1, <3>3, <3>4, FarIsSettled
      <3> QED
        BY <3>2, <3>4 DEF Settled
    <2>3. \A i \in 1..k : i \in 1..n \/ i = k
      OBVIOUS
    <2> QED
      BY <1>1, <2>1, <2>2, <2>3, Zenon DEF Passed
  <1>3. CASE Pushed(p, s)
    <2>1. /\ r \in Points /\ Around(r, s, PLAYER_RADIUS)
          /\ Clearance(r, s) >= Square(PLAYER_RADIUS - 2)
      BY <1>1, <1>3, PushedIsClear
    <2>2. InArena(r)
      BY <1>1, <2>1, PushedInArena
    <2>3. ASSUME NEW i \in 1..k PROVE Settled(r, Structure(i))
      <3>1. CASE i = k
        <4>1. PLAYER_RADIUS - 2 \in Nat /\ PLAYER_RADIUS - 2 >= PLAYER_RADIUS - 2
          BY Lengths
        <4> QED
          BY <1>1, <2>1, <3>1, <4>1, FarIsSettled
      <3>2. CASE i = 11 /\ k = 13
        BY <1>1, <1>3, <3>2, PushedIntoPassage
      <3>3. CASE i < k /\ ~(i = 11 /\ k = 13)
        <4>1. i \in 1..20 /\ Structure(i) \in Boxes /\ Apart(Structure(i), s)
          BY <1>1, <3>3, TwentyStructures, StructuresApart
        <4>2. Clearance(r, Structure(i)) >= Square(PLAYER_RADIUS)
          BY <1>1, <2>1, <4>1, AroundOneIsClearOfOther
        <4>3. PLAYER_RADIUS \in Nat /\ PLAYER_RADIUS >= PLAYER_RADIUS - 2
          BY Lengths
        <4> QED
          BY <2>1, <4>1, <4>2, <4>3, FarIsSettled
      <3> QED
        BY <3>1, <3>2, <3>3
    <2> QED
      BY <2>1, <2>2, <2>3, Zenon DEF Passed
  <1> QED
    BY <1>2, <1>3

LEMMA ClampedInArena ==
  ASSUME NEW p \in Points
  PROVE  InArena(Clamped(p))
  <1>1. p.x \in Int /\ p.y \in Int
    BY DEF Points
  <1>2. /\ Clamped(p).x = Between(PLAYER_RADIUS, p.x, Width - PLAYER_RADIUS)
        /\ Clamped(p).y = Between(PLAYER_RADIUS, p.y, Height - PLAYER_RADIUS)
    BY DEF Clamped, Point
  <1>3. \A a \in Int :
          Between(PLAYER_RADIUS, a, Width - PLAYER_RADIUS) \in PLAYER_RADIUS..Width - PLAYER_RADIUS
    BY Lengths, GrainPositive DEF Between
  <1>4. \A a \in Int :
          Between(PLAYER_RADIUS, a, Height - PLAYER_RADIUS) \in PLAYER_RADIUS..Height - PLAYER_RADIUS
    BY Lengths, GrainPositive DEF Between
  <1>5. Clamped(p).x \in PLAYER_RADIUS..Width - PLAYER_RADIUS
    BY <1>1, <1>2, <1>3, Zenon
  <1>6. Clamped(p).y \in PLAYER_RADIUS..Height - PLAYER_RADIUS
    BY <1>1, <1>2, <1>4, Zenon
  <1> QED
    BY ONLY <1>5, <1>6 DEF InArena

(* Where a player may stand.                                               *)
Stands(p) == InArena(p) /\ \A s \in Cover : Settled(p, s)

(* Wherever a move leads, it ends where a player may stand.                *)
LEMMA ResolvedStands ==
  ASSUME NEW p \in Points, NEW r \in Resolved(p)
  PROVE  r \in Points /\ Stands(r)
  <1> DEFINE good == [n \in 0..20 |-> {q \in Points : Passed(q, n)}]
  <1>1. Clamped(p) \in good[0]
    BY ClampedOnRaster, ClampedInArena DEF Passed
  <1>2. ASSUME NEW n \in 0..19, NEW q \in good[n]
        PROVE  PushedOut(q, Structure(n + 1)) \subseteq good[n + 1]
    <2>1. Passed(q, n) /\ n + 1 \in 0..20
      OBVIOUS
    <2>2. \A o \in PushedOut(q, Structure(n + 1)) : Passed(o, n + 1)
      BY <2>1, PassOne
    <2> QED
      BY <2>1, <2>2 DEF Passed
  <1>3. good[20] = {q \in Points : Passed(q, 20)}
    OBVIOUS
  <1> HIDE DEF good
  <1>4. Resolved(p) \subseteq good[20]
    BY <1>1, <1>2, FromOneToTheNext
  <1>5. r \in Points /\ Passed(r, 20)
    BY <1>3, <1>4
  <1> QED
    BY <1>5, TwentyStructures DEF Stands, Passed

(* Players and those who are kept, with where they may stand.              *)
Standing == {q \in Places : Stands(Point(q.x, q.y))}

LEMMA SamePlace ==
  ASSUME NEW p, NEW q, p.x = q.x, p.y = q.y
  PROVE  /\ InArena(p) = InArena(q)
         /\ \A s : Clearance(p, s) = Clearance(q, s)
  BY DEF InArena, Clearance, Closest, DistSq

LEMMA MovedStands ==
  ASSUME NEW q \in Places, NEW r \in Moved(q)
  PROVE  r \in Standing
  <1>1. PICK vx \in Int, vy \in Int : \E p \in Resolved(Point(q.x + vx, q.y + vy)) :
          r = [x |-> p.x, y |-> p.y, vx |-> vx, vy |-> vy]
    BY DEF Moved, Places
  <1>2. PICK p \in Resolved(Point(q.x + vx, q.y + vy)) :
          r = [x |-> p.x, y |-> p.y, vx |-> vx, vy |-> vy]
    BY <1>1
  <1>3. Point(q.x + vx, q.y + vy) \in Points
    BY DEF Places, Point, Points
  <1>4. p \in Points /\ Stands(p)
    BY <1>2, <1>3, ResolvedStands
  <1>5. Point(r.x, r.y) = p /\ r \in Places
    BY <1>2, <1>4 DEF Point, Points, Places
  <1> QED
    BY <1>4, <1>5 DEF Standing

LEMMA SpawnStands ==
  ASSUME NEW p \in FreeSpots \cup {Point(Margin, Margin)}
  PROVE  [x |-> p.x, y |-> p.y, vx |-> 0, vy |-> 0] \in Standing
  <1>1. p \in Points /\ p.x \in Margin..Width - Margin /\ p.y \in Margin..Height - Margin
    <2>1. CASE p \in FreeSpots
      <3>1. p \in [x : Margin..Width - Margin, y : Margin..Height - Margin]
        BY <2>1, FlightAssumption DEF FreeSpots, FlightAssumption
      <3> QED
        BY <3>1, Lengths DEF Points
    <2>2. CASE p = Point(Margin, Margin)
      BY <2>2, Lengths, GrainPositive DEF Point, Points
    <2> QED
      BY <2>1, <2>2
  <1>2. InArena(p)
    <2>1. /\ p.x \in PLAYER_RADIUS..Width - PLAYER_RADIUS
          /\ p.y \in PLAYER_RADIUS..Height - PLAYER_RADIUS
      BY <1>1, Lengths, GrainPositive
    <2> QED
      BY <2>1 DEF InArena
  <1>3. ASSUME NEW i \in 1..20 PROVE Settled(p, Structure(i))
    <2>1. Structure(i) \in Boxes /\ Structure(i) \in Cover /\ Framed(Structure(i))
      BY TwentyStructures, StructuresFramed
    <2>2. CASE p \in FreeSpots
      <3> DEFINE r == PLAYER_RADIUS + 15 * Grain
      <3>1. r \in Nat /\ r >= PLAYER_RADIUS - 2
        BY Lengths, GrainPositive
      <3>2. ~(Clearance(p, Structure(i)) <= Square(r))
        BY <2>1, <2>2, Zenon DEF FreeSpots, Collides, Clearance
      <3>3. Clearance(p, Structure(i)) \in Nat /\ Square(r) \in Nat
        BY <1>1, <2>1, <3>1, ClosestInside, SquareNat
      <3> HIDE DEF r
      <3> QED
        BY <1>1, <3>1, <3>2, <3>3, FarIsSettled
    <2>3. CASE p = Point(Margin, Margin)
      <3>1. p.x + PLAYER_RADIUS <= Structure(i).x
        BY <2>1, <2>3, Lengths, GrainPositive DEF Point, Framed, Boxes
      <3>2. PLAYER_RADIUS \in Nat /\ PLAYER_RADIUS >= PLAYER_RADIUS - 2
        BY Lengths
      <3>3. Clearance(p, Structure(i)) >= Square(PLAYER_RADIUS)
        BY <1>1, <2>1, <3>1, <3>2, FarOnOneAxis
      <3> QED
        BY <1>1, <3>2, <3>3, FarIsSettled
    <2> QED
      BY <2>2, <2>3
  <1>4. Stands(p) /\ Point(p.x, p.y) = p
    BY <1>1, <1>2, <1>3, TwentyStructures DEF Stands, Point, Points
  <1> DEFINE q == [x |-> p.x, y |-> p.y, vx |-> 0, vy |-> 0]
  <1>5. q \in Places /\ q.x = p.x /\ q.y = p.y
    BY <1>1 DEF Places, Points
  <1> HIDE DEF q
  <1>6. q \in Standing
    BY <1>4, <1>5 DEF Standing
  <1> QED
    BY <1>6 DEF q

(* The invariant: it speaks also of those who may come back.               *)
StandingInv ==
  /\ players \in [DOMAIN players -> Standing]
  /\ away \in [DOMAIN away -> Standing]

LEMMA StandingInvStep ==
  ASSUME StandingInv, [FlightNext]_flightVars
  PROVE  StandingInv'
  <1>0. /\ \A u \in DOMAIN players : players[u] \in Standing
        /\ \A u \in DOMAIN away : away[u] \in Standing
    BY DEF StandingInv
  <1>1. ASSUME NEW f, f \in [DOMAIN f -> Standing], NEW S, S \subseteq DOMAIN f
        PROVE  Restrict(f, S) \in [DOMAIN Restrict(f, S) -> Standing]
    BY <1>1 DEF Restrict
  <1>2. ASSUME NEW f, f \in [DOMAIN f -> Standing], NEW u
        PROVE  Without(f, u) \in [DOMAIN Without(f, u) -> Standing]
    BY <1>1, <1>2 DEF Without
  <1>3. ASSUME NEW f, f \in [DOMAIN f -> Standing], NEW u, NEW q \in Standing
        PROVE  With(f, u, q) \in [DOMAIN With(f, u, q) -> Standing]
    BY <1>3 DEF With
  <1>4. ASSUME UNCHANGED <<players, away>> PROVE StandingInv'
    BY <1>4 DEF StandingInv
  <1>5. ASSUME NEW u \in Users, Spawn(u) PROVE StandingInv'
    <2>1. PICK p \in FreeSpots \cup {Point(Margin, Margin)} :
            players' = With(players, u, [x |-> p.x, y |-> p.y, vx |-> 0, vy |-> 0])
      BY <1>5 DEF Spawn
    <2>2. away' = Without(away, u)
      BY <1>5 DEF Spawn
    <2> QED
      BY <1>2, <1>3, <2>1, <2>2, SpawnStands DEF StandingInv
  <1>6. ASSUME NEW u \in Users, Restore(u) PROVE StandingInv'
    BY <1>0, <1>2, <1>3, <1>6 DEF Restore, StandingInv
  <1>7. ASSUME NEW u \in Users, Leave(u) PROVE StandingInv'
    BY <1>2, <1>7 DEF Leave, StandingInv
  <1>8. ASSUME NEW u \in Users, Disconnect(u) PROVE StandingInv'
    BY <1>0, <1>2, <1>3, <1>8 DEF Disconnect, StandingInv
  <1>9. ASSUME NEW u \in Users, NEW m \in Moves, Move(u, m) PROVE StandingInv'
    <2>1. m[1] * PlayerSpeed \in Int /\ m[2] * PlayerSpeed \in Int
      BY FlightAssumption DEF FlightAssumption, PlayerSpeed
    <2>2. /\ players' = [players EXCEPT ![u].vx = m[1] * PlayerSpeed,
                                        ![u].vy = m[2] * PlayerSpeed]
          /\ u \in DOMAIN players /\ away' = away
      BY <1>9 DEF Move
    <2>3. players[u] \in Places /\ Stands(Point(players[u].x, players[u].y))
      BY <1>0, <2>2 DEF Standing
    <2>4. /\ DOMAIN players' = DOMAIN players
          /\ \A v \in DOMAIN players \ {u} : players'[v] = players[v]
          /\ players'[u] \in Places
          /\ players'[u].x = players[u].x /\ players'[u].y = players[u].y
      BY <2>1, <2>2, <2>3 DEF Places, StandingInv
    <2>5. players'[u] \in Standing
      BY <2>3, <2>4 DEF Standing
    <2>6. players' \in [DOMAIN players' -> Standing]
      BY <1>0, <2>2, <2>4, <2>5
    <2> QED
      BY <2>2, <2>6 DEF StandingInv
  <1>10. ASSUME NEW u \in Users, NEW aim \in Aims, NEW weapon \in DOMAIN Arms,
                Shoot(u, aim, weapon)
         PROVE  StandingInv'
    BY <1>4, <1>10 DEF Shoot
  <1>11. CASE UpdatePlayers
    <2>1. players' \in Steps /\ away' = away
      BY <1>11 DEF UpdatePlayers
    <2>2. /\ players' = [u \in DOMAIN players |-> players'[u]]
          /\ \A u \in DOMAIN players : players'[u] \in Moved(players[u])
      BY <2>1 DEF Steps
    <2>3. \A u \in DOMAIN players : players'[u] \in Standing
      BY <1>0, <2>2, MovedStands DEF Standing
    <2> QED
      BY <2>1, <2>2, <2>3 DEF StandingInv
  <1>12. ASSUME NEW p, NEW victims, Stops(p, victims) PROVE StandingInv'
    <2>1. /\ away' = away
          /\ \E dead : players' = players \/ players' = Restrict(players, DOMAIN players \ dead)
      BY <1>12 DEF Stops
    <2> QED
      BY <1>1, <2>1 DEF StandingInv
  <1>13. CASE HitsWall \/ HitsPlayer
    BY <1>12, <1>13 DEF HitsWall, HitsPlayer
  <1>14. CASE TickStart \/ (\E id \in Ids : Depart(id)) \/ FliesOn \/ Arrives \/ TickEnd
    BY <1>4, <1>14 DEF TickStart, Depart, FliesOn, Arrives, TickEnd
  <1>15. CASE UNCHANGED flightVars
    BY <1>4, <1>15 DEF flightVars
  <1> QED
    BY <1>5, <1>6, <1>7, <1>8, <1>9, <1>10, <1>11, <1>13, <1>14, <1>15 DEF FlightNext, Inputs

LEMMA StandingInvAlways == FlightSpec => []StandingInv
  <1>1. FlightInit => StandingInv
    BY DEF FlightInit, StandingInv
  <1>2. StandingInv /\ [FlightNext]_flightVars => StandingInv'
    BY StandingInvStep
  <1> QED
    BY <1>1, <1>2, PTL DEF FlightSpec

LEMMA StandingOnRaster == StandingInv => OnRaster
  <1> SUFFICES ASSUME StandingInv PROVE OnRaster
    OBVIOUS
  <1>1. Standing \subseteq Places
    BY DEF Standing
  <1> QED
    BY <1>1 DEF StandingInv, OnRaster

LEMMA OnRasterAlways == FlightSpec => []OnRaster
  BY StandingInvAlways, StandingOnRaster, PTL

(* Cover holds, whatever moves are asked for: nobody leaves the arena, and *)
(* whoever is not inside of a structure is as far away as Kept says, when  *)
(* the push out of each has been followed by that out of the next          *)
(* (shooter-engine.service.ts:354-366, collision.service.ts:91-145).       *)
THEOREM InsideOrClearAlways == FlightSpec => []InsideOrClear
  <1>1. StandingInv => InsideOrClear
    <2> SUFFICES ASSUME StandingInv, NEW u \in DOMAIN players
                 PROVE  /\ InArena(players[u])
                        /\ \A s \in Cover :
                             \/ Clearance(players[u], s) = 0
                             \/ Clearance(players[u], s) >= Square(Kept(s))
      BY DEF InsideOrClear
    <2> DEFINE p == Point(players[u].x, players[u].y)
    <2>1. Stands(p)
      BY DEF StandingInv, Standing
    <2>2. p.x = players[u].x /\ p.y = players[u].y
      BY DEF Point
    <2> HIDE DEF p
    <2>3. InArena(players[u]) /\ \A s : Clearance(p, s) = Clearance(players[u], s)
      BY <2>1, <2>2, SamePlace DEF Stands
    <2> QED
      BY <2>1, <2>3, Zenon DEF Stands, Settled
  <1> QED
    BY <1>1, StandingInvAlways, PTL

(* Who gets inside has jumped: the step is at least as long as the         *)
(* distance that is kept, and that is 18 pixels for all structures but     *)
(* q3a (shooter-engine.service.ts:353-360, collision.service.ts:98).       *)
THEOREM EntersByLeapAlways == FlightSpec => EntersByLeap
  <1> DEFINE Leap == \A u \in DOMAIN players \cap DOMAIN players', s \in Cover :
                       Clearance(players[u], s) > 0 /\ Clearance(players'[u], s) = 0 =>
                         DistSq(players[u], players'[u]) >= Square(Kept(s))
  <1>1. ASSUME StandingInv, StandingInv' PROVE Leap
    <2> SUFFICES ASSUME NEW u \in DOMAIN players \cap DOMAIN players', NEW s \in Cover,
                        Clearance(players[u], s) > 0, Clearance(players'[u], s) = 0
                 PROVE  DistSq(players[u], players'[u]) >= Square(Kept(s))
      OBVIOUS
    <2> DEFINE p == Point(players[u].x, players[u].y)
               q == Point(players'[u].x, players'[u].y)
    <2>1. players[u] \in Standing /\ players'[u] \in Standing
      BY <1>1 DEF StandingInv
    <2>2. /\ p \in Points /\ q \in Points /\ Stands(p)
          /\ p.x = players[u].x /\ p.y = players[u].y
          /\ q.x = players'[u].x /\ q.y = players'[u].y
      BY <2>1 DEF Standing, Places, Point, Points
    <2> HIDE DEF p, q
    <2>3. Clearance(p, s) > 0 /\ Clearance(q, s) = 0
      BY <2>2, SamePlace
    <2>4. DistSq(p, q) = DistSq(players[u], players'[u])
      BY <2>2 DEF DistSq
    <2>5. s \in Boxes
      BY TwentyStructures
    <2>6. Around(q, s, 0)
      <3>1. Clearance(q, s) <= Square(0)
        BY <2>3 DEF Square
      <3> QED
        BY <2>2, <2>5, <3>1, InReachIsAround
    <2>7. Clearance(p, s) <= DistSq(p, q) /\ Clearance(p, s) \in Nat
      BY <2>2, <2>5, <2>6, ClosestInside
    <2>8. Clearance(p, s) >= Square(Kept(s))
      BY <2>2, <2>3, <2>7 DEF Stands, Settled
    <2>9. Square(Kept(s)) \in Nat /\ DistSq(p, q) \in Nat
      <3>1. p.x - q.x \in Int /\ p.y - q.y \in Int /\ Kept(s) \in Int
        BY <2>2, KeptAround DEF Points
      <3>2. Square(p.x - q.x) \in Nat /\ Square(p.y - q.y) \in Nat
        BY <3>1, SquareNat
      <3> QED
        BY <3>1, <3>2, SquareNat DEF DistSq
    <2> QED
      BY <2>4, <2>7, <2>8, <2>9
  <1>2. StandingInv /\ StandingInv' => [Leap]_flightVars
    BY <1>1, Zenon
  <1> QED
    BY <1>2, StandingInvAlways, PTL DEF EntersByLeap
-----------------------------------------------------------------------------
(* The pool.                                                               *)

(* What the pool needs of the tick: who is to be removed is in the room.   *)
PoolInv ==
  /\ projectiles \in [DOMAIN projectiles -> Objects]
  /\ pool \in [Objects -> Nat]
  /\ toRemoveIds \subseteq DOMAIN projectiles
  /\ pending \subseteq DOMAIN projectiles
  /\ current # None => current.id \in DOMAIN projectiles
  /\ phase # "projectiles" => current = None /\ pending = {} /\ toRemoveIds = {}
  /\ PoolExact

LEMMA PoolInvInit == FlightInit => PoolInv
  <1> SUFFICES ASSUME FlightInit PROVE PoolInv
    OBVIOUS
  <1>1. DOMAIN projectiles = {} /\ projectiles \in [DOMAIN projectiles -> Objects]
    BY DEF FlightInit
  <1>2. pool \in [Objects -> {0, 1}]
    BY DEF FlightInit
  <1> QED
    BY <1>1, <1>2 DEF FlightInit, PoolInv, PoolExact

(* Taking an object for a new projectile.                                  *)
LEMMA AcquireKeepsPool ==
  ASSUME PoolInv, NEW o \in Objects, NEW id \in Ids \ DOMAIN projectiles,
         Acquire(o), projectiles' = With(projectiles, id, o)
  PROVE  /\ projectiles' \in [DOMAIN projectiles' -> Objects]
         /\ DOMAIN projectiles' = DOMAIN projectiles \cup {id}
         /\ pool' \in [Objects -> Nat]
         /\ PoolExact'
  <1>1. /\ DOMAIN projectiles' = DOMAIN projectiles \cup {id}
        /\ projectiles'[id] = o
        /\ \A i \in DOMAIN projectiles : projectiles'[i] = projectiles[i]
    BY DEF With
  <1>2. projectiles' \in [DOMAIN projectiles' -> Objects]
    BY <1>1 DEF With, PoolInv
  <1>3. /\ pool' \in [Objects -> {0, 1}] /\ pool'[o] = 0
        /\ \A other \in Objects : other # o => pool'[other] = pool[other]
        /\ \A i \in DOMAIN projectiles : projectiles[i] # o
    <2>1. CASE pool[o] > 0 /\ pool' = [pool EXCEPT ![o] = @ - 1]
      BY <2>1 DEF PoolInv, PoolExact
    <2>2. CASE o \in Objects \ Made /\ UNCHANGED pool
      <3>1. pool[o] = 0 /\ \A i \in DOMAIN projectiles : projectiles[i] # o
        BY <2>2 DEF Made, PoolInv
      <3> QED
        BY <2>2, <3>1 DEF PoolInv, PoolExact
    <2> QED
      BY <2>1, <2>2 DEF Acquire
  <1>4. PoolExact'
    <2>1. ASSUME NEW i \in DOMAIN projectiles' PROVE pool'[projectiles'[i]] = 0
      BY <1>1, <1>3 DEF PoolInv, PoolExact
    <2>2. ASSUME NEW i \in DOMAIN projectiles', NEW other \in DOMAIN projectiles',
                 projectiles'[other] = projectiles'[i]
          PROVE  other = i
      BY <1>1, <1>3, <2>2 DEF PoolInv, PoolExact
    <2> QED
      BY <1>3, <2>1, <2>2 DEF PoolExact
  <1> QED
    BY <1>1, <1>2, <1>3, <1>4

(* Giving back what has stopped.                                           *)
LEMMA ReleaseKeepsPool ==
  ASSUME PoolInv, TickEnd
  PROVE  /\ projectiles' \in [DOMAIN projectiles' -> Objects]
         /\ pool' \in [Objects -> Nat]
         /\ PoolExact'
  <1> DEFINE released == {projectiles[id] : id \in toRemoveIds}
  <1>1. /\ DOMAIN projectiles' = DOMAIN projectiles \ toRemoveIds
        /\ \A i \in DOMAIN projectiles' : projectiles'[i] = projectiles[i]
        /\ projectiles' \in [DOMAIN projectiles' -> Objects]
    BY DEF TickEnd, RoomWithout, Restrict, PoolInv
  <1>2. pool' = [o \in Objects |-> IF o \in released THEN pool[o] + 1 ELSE pool[o]]
    BY DEF TickEnd
  <1>3. \A o \in released : pool[o] = 0
    BY DEF PoolInv, PoolExact
  <1>4. pool' \in [Objects -> {0, 1}]
    BY <1>2, <1>3 DEF PoolInv, PoolExact
  <1>5. \A i \in DOMAIN projectiles' : projectiles[i] \notin released
    BY <1>1 DEF PoolInv, PoolExact
  <1>6. \A i \in DOMAIN projectiles' : pool'[projectiles'[i]] = 0
    BY <1>1, <1>2, <1>5 DEF PoolInv, PoolExact
  <1> QED
    BY <1>1, <1>4, <1>6 DEF PoolInv, PoolExact

LEMMA PoolInvStep == PoolInv /\ [FlightNext]_flightVars => PoolInv'
  <1> SUFFICES ASSUME PoolInv, [FlightNext]_flightVars PROVE PoolInv'
    OBVIOUS
  <1> USE DEF PoolInv
  <1>1. ASSUME NEW u \in Users, Spawn(u) PROVE PoolInv'
    BY <1>1 DEF Spawn, store, loop, PoolExact
  <1>2. ASSUME NEW u \in Users, Restore(u) \/ Leave(u) \/ Disconnect(u) PROVE PoolInv'
    BY <1>2 DEF Restore, Leave, Disconnect, store, loop, PoolExact
  <1>3. ASSUME NEW u \in Users, NEW m \in Moves, Move(u, m) PROVE PoolInv'
    BY <1>3 DEF Move, store, loop, PoolExact
  <1>4. ASSUME NEW u \in Users, NEW aim \in Aims, NEW weapon \in DOMAIN Arms,
               Shoot(u, aim, weapon)
        PROVE  PoolInv'
    <2>1. PICK id \in Ids \ DOMAIN projectiles, o \in Objects :
            Acquire(o) /\ projectiles' = With(projectiles, id, o)
      BY <1>4 DEF Shoot
    <2>2. UNCHANGED loop
      BY <1>4 DEF Shoot
    <2> QED
      BY <2>1, <2>2, AcquireKeepsPool DEF loop
  <1>5. CASE TickStart
    BY <1>5 DEF TickStart, store, PoolExact
  <1>6. CASE UpdatePlayers
    BY <1>6 DEF UpdatePlayers, store, PoolExact
  <1>7. ASSUME NEW id \in Ids, Depart(id) PROVE PoolInv'
    BY <1>7 DEF Depart, store, PoolExact
  <1>8. ASSUME NEW p, NEW victims, Flying, Stops(p, victims) PROVE PoolInv'
    BY <1>8 DEF Flying, Stops, store, PoolExact
  <1>9. CASE HitsWall
    BY <1>8, <1>9 DEF HitsWall
  <1>10. CASE HitsPlayer
    BY <1>8, <1>10 DEF HitsPlayer
  <1>11. CASE FliesOn
    <2>1. /\ UNCHANGED <<projectiles, pool, phase, pending, toRemoveIds>>
          /\ current # None /\ phase = "projectiles"
          /\ current' = [current EXCEPT !.at = @ + 1]
      BY <1>11 DEF FliesOn, Flying
    <2>2. current'.id = current.id
      BY <2>1
    <2> QED
      BY <2>1, <2>2 DEF PoolExact
  <1>12. CASE Arrives
    BY <1>12 DEF Arrives, Flying, store, PoolExact
  <1>13. CASE TickEnd
    BY <1>13, ReleaseKeepsPool DEF TickEnd
  <1>14. CASE UNCHANGED flightVars
    BY <1>14 DEF flightVars, store, loop, PoolExact
  <1> QED
    BY <1>1, <1>2, <1>3, <1>4, <1>5, <1>6, <1>7, <1>9, <1>10, <1>11, <1>12, <1>13, <1>14
       DEF FlightNext, Inputs

(* An object is never on the stack while it flies and never flies twice,   *)
(* whatever is fired while a tick gives others back.                       *)
THEOREM PoolExactAlways == FlightSpec => []PoolExact
  <1>1. PoolInv => PoolExact
    BY DEF PoolInv
  <1> QED
    BY <1>1, PoolInvInit, PoolInvStep, PTL DEF FlightSpec
-----------------------------------------------------------------------------
(* Explosions.                                                             *)

BlastInv ==
  /\ DOMAIN bodies = {projectiles[id] : id \in DOMAIN projectiles}
  /\ bodies \in [DOMAIN bodies -> Bodies]
  /\ grid \in [DOMAIN grid -> Points]
  /\ current # None => current \in Flights
  /\ phase # "projectiles" => blast = None
  /\ BlastComplete

LEMMA BlastInvInit == FlightInit => BlastInv
  <1> SUFFICES ASSUME FlightInit PROVE BlastInv
    OBVIOUS
  <1>1. DOMAIN projectiles = {} /\ DOMAIN bodies = {} /\ DOMAIN grid = {}
    BY DEF FlightInit
  <1> QED
    BY <1>1 DEF FlightInit, BlastInv, BlastComplete

(* The projectile in flight has a body, and its way stays on the raster.   *)
LEMMA NextPointOnRaster ==
  ASSUME PoolInv, BlastInv, Flying
  PROVE  /\ projectiles[current.id] \in DOMAIN bodies
         /\ Body \in Bodies /\ NextPoint \in Points
  <1>1. projectiles[current.id] \in DOMAIN bodies /\ Body \in Bodies
    BY DEF PoolInv, BlastInv, Flying, Body
  <1>2. current.steps \in Nat /\ current.steps # 0
    BY DEF BlastInv, Flying, Flights
  <1>3. Body.x \in Int /\ Body.y \in Int /\ Body.vx \in Int /\ Body.vy \in Int
    BY <1>1 DEF Bodies
  <1>4. Body.vx \div current.steps \in Int /\ Body.vy \div current.steps \in Int
    BY <1>2, <1>3
  <1> QED
    BY <1>1, <1>3, <1>4 DEF NextPoint, Point, Points

LEMMA SubStepsPositive ==
  ASSUME NEW weapon \in DOMAIN Arms
  PROVE  SubSteps(weapon) \in Nat \ {0}
  BY FlightAssumption DEF FlightAssumption, SubSteps

LEMMA EnoughSubSteps ==
  ASSUME NEW weapon \in DOMAIN Arms
  PROVE  Speed(weapon) \in Nat \ {0} /\ Speed(weapon) <= (10 * Grain) * SubSteps(weapon)
  <1> DEFINE a == Arms[weapon]
             n == SubSteps(weapon)
  <1>1. a \in Nat \ {0} /\ n \in Nat /\ a <= 10 * n
    BY FlightAssumption DEF FlightAssumption, SubSteps
  <1>2. Speed(weapon) = Grain * a
    BY <1>1, GrainPositive DEF Speed
  <1> HIDE DEF a, n
  <1>3. Grain * a \in Nat \ {0} /\ Grain * a <= Grain * (10 * n)
    BY <1>1, GrainPositive
  <1>4. Grain * (10 * n) = (10 * Grain) * n
    BY <1>1, GrainPositive
  <1> QED
    BY <1>2, <1>3, <1>4 DEF n

(* A new projectile starts where a player is.                              *)
LEMMA ShootKeepsBodies ==
  ASSUME PoolInv, BlastInv, OnRaster, NEW u \in Users, NEW aim \in Aims,
         NEW weapon \in DOMAIN Arms, Shoot(u, aim, weapon)
  PROVE  /\ DOMAIN bodies' = {projectiles'[id] : id \in DOMAIN projectiles'}
         /\ bodies' \in [DOMAIN bodies' -> Bodies]
  <1> DEFINE new == [owner |-> u, weapon |-> weapon, x |-> players[u].x, y |-> players[u].y,
                     vx |-> (Speed(weapon) * aim[1]) \div aim[3],
                     vy |-> (Speed(weapon) * aim[2]) \div aim[3]]
  <1>1. PICK id \in Ids \ DOMAIN projectiles, o \in Objects :
          /\ projectiles' = With(projectiles, id, o)
          /\ bodies' = With(bodies, o, new)
    BY DEF Shoot
  <1>2. players[u].x \in Int /\ players[u].y \in Int
    BY DEF Shoot, OnRaster, Places
  <1>3. new.vx \in Int /\ new.vy \in Int
    <2>1. /\ Speed(weapon) \in Int /\ aim[1] \in Int /\ aim[2] \in Int
          /\ aim[3] \in Nat /\ aim[3] # 0
      BY FlightAssumption, EnoughSubSteps DEF FlightAssumption
    <2>2. Speed(weapon) * aim[1] \in Int /\ Speed(weapon) * aim[2] \in Int
      BY <2>1
    <2> HIDE DEF new
    <2> QED
      BY <2>1, <2>2 DEF new
  <1>4. new \in Bodies
    <2>1. /\ new.owner \in Users /\ new.weapon \in DOMAIN Arms
          /\ new.x \in Int /\ new.y \in Int
      BY <1>2
    <2> QED
      BY <1>2, <1>3 DEF Bodies
  <1> HIDE DEF new
  <1>5. /\ DOMAIN bodies' = DOMAIN bodies \cup {o} /\ bodies'[o] = new
        /\ \A b \in DOMAIN bodies \ {o} : bodies'[b] = bodies[b]
        /\ bodies' = [b \in DOMAIN bodies' |-> bodies'[b]]
    BY <1>1 DEF With
  <1>6. bodies' \in [DOMAIN bodies' -> Bodies]
    BY <1>4, <1>5 DEF BlastInv
  <1>7. /\ DOMAIN projectiles' = DOMAIN projectiles \cup {id} /\ projectiles'[id] = o
        /\ \A i \in DOMAIN projectiles : projectiles'[i] = projectiles[i]
    BY <1>1 DEF With
  <1>8. {projectiles'[i] : i \in DOMAIN projectiles'} =
          {projectiles[i] : i \in DOMAIN projectiles} \cup {o}
    BY <1>7
  <1> QED
    BY <1>5, <1>6, <1>8 DEF BlastInv

(* Whoever stops leaves bodies and grid alone, and a rocket strikes whom   *)
(* the search finds.                                                       *)
LEMMA StopsKeepsBlast ==
  ASSUME PoolInv, BlastInv, Flying, NEW victims, Stops(NextPoint, victims)
  PROVE  BlastInv'
  <1>1. /\ UNCHANGED <<projectiles, bodies, grid, phase>> /\ current' = None
        /\ phase = "projectiles"
    BY DEF Stops, store, Flying
  <1>2. BlastComplete'
    <2>1. CASE UNCHANGED blast
      BY <1>1, <2>1 DEF BlastInv, BlastComplete
    <2>2. CASE blast' = [at |-> NextPoint, struck |-> Struck(NextPoint, BlastReach)]
      <3>1. NextPoint \in Points /\ BlastReach \in Nat
        BY NextPointOnRaster, Lengths
      <3>2. Struck(NextPoint, BlastReach) =
              {u \in DOMAIN grid : DistSq(NextPoint, grid[u]) <= Square(BlastReach)}
        BY <3>1, StruckExact DEF BlastInv
      <3>3. /\ blast'.at = NextPoint
            /\ blast'.struck = Struck(NextPoint, BlastReach)
        BY <2>2
      <3>4. grid' = grid
        BY <1>1
      <3>5. blast'.struck = {u \in DOMAIN grid' : DistSq(blast'.at, grid'[u]) <= Square(BlastReach)}
        BY <3>2, <3>3, <3>4
      <3> QED
        BY <3>5 DEF BlastComplete, DistSq
    <2> QED
      BY <2>1, <2>2 DEF Stops
  <1> QED
    BY <1>1, <1>2 DEF BlastInv

LEMMA BlastInvStep ==
  ASSUME PoolInv, BlastInv, OnRaster, OnRaster', [FlightNext]_flightVars
  PROVE  BlastInv'
  <1>1. ASSUME UNCHANGED <<store, loop>> PROVE BlastInv'
    BY <1>1 DEF BlastInv, store, loop, BlastComplete, DistSq
  <1>2. ASSUME NEW u \in Users,
               \/ Spawn(u) \/ Restore(u) \/ Leave(u) \/ Disconnect(u)
               \/ \E m \in Moves : Move(u, m)
        PROVE  BlastInv'
    BY <1>1, <1>2 DEF Spawn, Restore, Leave, Disconnect, Move
  <1>3. ASSUME NEW u \in Users, NEW aim \in Aims, NEW weapon \in DOMAIN Arms,
               Shoot(u, aim, weapon)
        PROVE  BlastInv'
    <2>1. UNCHANGED <<phase, grid, current, blast>>
      BY <1>3 DEF Shoot, loop
    <2> QED
      BY <1>3, <2>1, ShootKeepsBodies DEF BlastInv, BlastComplete, DistSq
  <1>4. CASE TickStart
    BY <1>4 DEF TickStart, store, BlastInv, BlastComplete, DistSq
  <1>5. CASE UpdatePlayers
    <2>1. /\ UNCHANGED <<projectiles, bodies, current, blast>>
          /\ phase = "inputs" /\ phase' = "projectiles"
          /\ DOMAIN players' = DOMAIN players
          /\ grid' = [u \in DOMAIN players |-> Point(players'[u].x, players'[u].y)]
      BY <1>5 DEF UpdatePlayers, Steps, store
    <2>2. \A u \in DOMAIN players : players'[u].x \in Int /\ players'[u].y \in Int
      <3>1. \A u \in DOMAIN players' : players'[u] \in Places
        BY DEF OnRaster
      <3> QED
        BY <2>1, <3>1 DEF Places
    <2>3. grid' \in [DOMAIN grid' -> Points]
      <3>1. \A u \in DOMAIN players : Point(players'[u].x, players'[u].y) \in Points
        BY <2>2 DEF Point, Points
      <3> QED
        BY <2>1, <3>1
    <2>4. blast' = None
      BY <2>1 DEF BlastInv
    <2> QED
      BY <2>1, <2>3, <2>4 DEF BlastInv, BlastComplete
  <1>6. ASSUME NEW id \in Ids, Depart(id) PROVE BlastInv'
    <2>1. /\ UNCHANGED <<projectiles, bodies, grid, phase, blast>>
          /\ id \in DOMAIN projectiles
      BY <1>6 DEF Depart, store, PoolInv
    <2>2. bodies[projectiles[id]] \in Bodies
      BY <2>1 DEF BlastInv
    <2>3. current' \in Flights
      <3>1. /\ bodies[projectiles[id]].x \in Int /\ bodies[projectiles[id]].y \in Int
            /\ bodies[projectiles[id]].weapon \in DOMAIN Arms
        BY <2>2 DEF Bodies
      <3>2. SubSteps(bodies[projectiles[id]].weapon) \in Nat \ {0}
        BY <3>1, SubStepsPositive
      <3> QED
        BY <1>6, <3>1, <3>2 DEF Depart, Flights, Point, Points
    <2> QED
      BY <2>1, <2>3 DEF BlastInv, BlastComplete, DistSq
  <1>7. CASE HitsWall
    BY <1>7, StopsKeepsBlast DEF HitsWall
  <1>8. CASE HitsPlayer
    BY <1>8, StopsKeepsBlast DEF HitsPlayer
  <1>9. CASE FliesOn
    <2>1. /\ UNCHANGED <<projectiles, grid, phase, blast>> /\ Flying
          /\ bodies' = [bodies EXCEPT ![projectiles[current.id]].x = NextPoint.x,
                                      ![projectiles[current.id]].y = NextPoint.y]
          /\ current' = [current EXCEPT !.at = @ + 1]
      BY <1>9 DEF FliesOn
    <2>2. current' \in Flights
      BY <2>1 DEF Flying, BlastInv, Flights
    <2>3. DOMAIN bodies' = DOMAIN bodies /\ bodies' \in [DOMAIN bodies' -> Bodies]
      <3>1. NextPoint.x \in Int /\ NextPoint.y \in Int
        BY <2>1, NextPointOnRaster DEF Points
      <3> QED
        BY <2>1, <3>1, ZenonT(60) DEF BlastInv, Bodies
    <2> QED
      BY <2>1, <2>2, <2>3 DEF BlastInv, BlastComplete, DistSq
  <1>10. CASE Arrives
    BY <1>10 DEF Arrives, store, BlastInv, BlastComplete, DistSq
  <1>11. CASE TickEnd
    <2> DEFINE released == {projectiles[id] : id \in toRemoveIds}
    <2>1. /\ DOMAIN projectiles' = DOMAIN projectiles \ toRemoveIds
          /\ \A i \in DOMAIN projectiles' : projectiles'[i] = projectiles[i]
      BY <1>11 DEF TickEnd, RoomWithout, Restrict
    <2>2. /\ DOMAIN bodies' = DOMAIN bodies \ released
          /\ bodies' \in [DOMAIN bodies' -> Bodies]
      BY <1>11 DEF TickEnd, Restrict, BlastInv
    <2>3. {projectiles'[i] : i \in DOMAIN projectiles'} = DOMAIN bodies \ released
      BY <2>1 DEF BlastInv, PoolInv, PoolExact
    <2>4. grid' = <<>> /\ blast' = None /\ UNCHANGED current
      BY <1>11 DEF TickEnd
    <2>5. grid' \in [DOMAIN grid' -> Points]
      BY <2>4
    <2> QED
      BY <2>2, <2>3, <2>4, <2>5 DEF BlastInv, BlastComplete
  <1>12. CASE UNCHANGED flightVars
    BY <1>1, <1>12 DEF flightVars
  <1> QED
    BY <1>2, <1>3, <1>4, <1>5, <1>6, <1>7, <1>8, <1>9, <1>10, <1>11, <1>12
       DEF FlightNext, Inputs

(* Every explosion strikes exactly the players within its reach            *)
(* (shooter-engine.service.ts:465-477).                                    *)
THEOREM BlastCompleteAlways == FlightSpec => []BlastComplete
  <1>1. BlastInv => BlastComplete
    BY DEF BlastInv
  <1>2. PoolInv /\ BlastInv /\ OnRaster /\ OnRaster' /\ [FlightNext]_flightVars => BlastInv'
    BY BlastInvStep
  <1> QED
    BY <1>1, <1>2, PoolInvInit, PoolInvStep, BlastInvInit, OnRasterAlways, PTL DEF FlightSpec
-----------------------------------------------------------------------------
(* The way of a projectile.                                                *)

(* The product of two squared lengths (Lagrange).                          *)
LEMMA Lagrange ==
  ASSUME NEW a \in Int, NEW b \in Int, NEW c \in Int, NEW d \in Int
  PROVE  (Square(a) + Square(b)) * (Square(c) + Square(d))
           = Square(a * c + b * d) + Square(a * d - b * c)
  BY DEF Square

(* A step, the depth and the reach are the sides of a right triangle.      *)
LEMMA Triangle ==
  /\ 10 * Grain \in Nat \ {0} /\ Square(10 * Grain) \in Nat
  /\ Square(Depth) \in Nat /\ Square(Reach) \in Nat
  /\ Square(10 * Grain) + Square(Depth) = Square(Reach)
  <1>1. Depth = 24 * Grain /\ Reach = 26 * Grain /\ Depth \in Int /\ Reach \in Int
        /\ 10 * Grain \in Nat \ {0}
    BY Lengths, GrainPositive
  <1>2. /\ Square(10 * Grain) \in Nat /\ Square(Depth) \in Nat /\ Square(Reach) \in Nat
    BY <1>1, SquareNat
  <1>3. Square(10 * Grain) + Square(24 * Grain) = Square(26 * Grain)
    BY GrainPositive DEF Square
  <1> QED
    BY <1>1, <1>2, <1>3

(* w lies beside a straight way of n steps s from the origin, and one of   *)
(* these steps ends close to it.                                           *)
Beside(n, s, w) ==
  LET S == Square(s.x) + Square(s.y)
  IN  /\ 0 <= w.x * s.x + w.y * s.y
      /\ w.x * s.x + w.y * s.y <= n * S
      /\ Square(w.x * s.y - w.y * s.x) <= Square(Depth) * S

NearOne(n, s, w) ==
  \E i \in 1..n : Square(w.x - i * s.x) + Square(w.y - i * s.y) <= Square(Reach)

Short(s) ==
  Square(s.x) + Square(s.y) > 0 /\ Square(s.x) + Square(s.y) <= Square(10 * Grain)

(* The first step that ends beyond w, seen along the way, ends close to w. *)
LEMMA NearSample ==
  ASSUME NEW n \in Nat \ {0}, NEW s \in Points, NEW w \in Points, Short(s), Beside(n, s, w)
  PROVE  NearOne(n, s, w)
  <1> DEFINE sx == s.x
             sy == s.y
             wx == w.x
             wy == w.y
             D == Square(Depth)
             S == Square(sx) + Square(sy)
             along == wx * sx + wy * sy
             across == wx * sy - wy * sx
             T == {i \in 1..n : along <= i * S}
  <1>0. sx \in Int /\ sy \in Int /\ wx \in Int /\ wy \in Int
    BY DEF Points
  <1>a. /\ S > 0 /\ S <= Square(10 * Grain)
        /\ 0 <= along /\ along <= n * S /\ Square(across) <= D * S
    BY DEF Short, Beside
  <1>b. D \in Nat /\ D = Square(Depth)
    BY Triangle
  <1> HIDE DEF sx, sy, wx, wy, D
  <1>1. D \in Nat /\ S \in Nat /\ S > 0 /\ S <= Square(10 * Grain) /\ along \in Nat /\ across \in Int
    BY <1>0, <1>a, <1>b, SquareNat
  <1>2. along <= n * S /\ Square(across) <= D * S
    BY <1>a
  <1> HIDE DEF S, along, across
  <1>3. PICK i \in T : \A j \in T : i <= j
    <2>1. T # {} /\ T \in SUBSET Nat
      BY <1>2
    <2> HIDE DEF T
    <2> QED
      BY <2>1, LeastNumber
  <1>4. along >= (i - 1) * S
    <2>1. CASE i = 1
      BY <1>1, <2>1
    <2>2. CASE i # 1
      <3>1. i - 1 \in 1..n /\ i - 1 \notin T
        BY <1>3, <2>2
      <3>2. (i - 1) * S \in Int
        BY <1>1, <1>3
      <3> QED
        BY <1>1, <3>1, <3>2
    <2> QED
      BY <2>1, <2>2
  <1> DEFINE x == wx - i * sx
             y == wy - i * sy
  <1>5. i \in Int /\ x \in Int /\ y \in Int
    BY <1>0, <1>3
  <1>6. /\ x * sx + y * sy = along - i * S
        /\ x * sy - y * sx = across
    BY <1>0, <1>5 DEF along, across, S, Square
  <1>7. (Square(x) + Square(y)) * S = Square(along - i * S) + Square(across)
    <2> HIDE DEF x, y
    <2> QED
      BY <1>0, <1>5, <1>6, Lagrange DEF S
  <1> HIDE DEF x, y
  <1>8. Square(along - i * S) <= S * S
    <2> DEFINE short == along - i * S
    <2>1. short \in Int /\ short <= 0 /\ -S <= short
      <3>1. (i - 1) * S = i * S - S /\ i * S \in Int
        BY <1>1, <1>5
      <3> QED
        BY <1>1, <1>3, <1>4, <3>1
    <2> HIDE DEF short
    <2>2. (S - short) * (S + short) >= 0
      BY <1>1, <2>1
    <2>3. (S - short) * (S + short) = S * S - short * short
      BY <1>1, <2>1
    <2>4. S * S \in Int /\ short * short \in Int
      BY <1>1, <2>1
    <2> QED
      BY <2>2, <2>3, <2>4 DEF Square, short
  <1>9. (Square(x) + Square(y)) * S <= S * S + D * S
    <2>1. Square(along - i * S) \in Int /\ Square(across) \in Int /\ S * S \in Int
      BY <1>1, <1>5 DEF Square
    <2> QED
      BY <1>1, <1>2, <1>7, <1>8, <2>1
  <1>10. S * (Square(x) + Square(y)) <= S * (S + D)
    <2>1. S * S + D * S = S * (S + D)
      BY <1>1
    <2>2. Square(x) + Square(y) \in Int
      BY <1>5 DEF Square
    <2> HIDE DEF S
    <2>3. S * (Square(x) + Square(y)) = (Square(x) + Square(y)) * S
      BY <1>1, <2>2
    <2> QED
      BY <1>9, <2>1, <2>3
  <1>11. Square(x) + Square(y) <= S + D
    <2>1. Square(x) + Square(y) \in Int /\ S + D \in Int /\ S \in Nat \ {0}
      BY <1>1, <1>5 DEF Square
    <2> QED
      BY <1>10, <2>1, CancelFactor
  <1>12. Square(x) + Square(y) <= Square(Reach)
    <2>1. Square(x) + Square(y) \in Int
      BY <1>5 DEF Square
    <2> QED
      BY <1>1, <1>11, <1>b, <2>1, Triangle
  <1> QED
    BY <1>3, <1>12 DEF x, y, sx, sy, wx, wy, NearOne

(* Twice a division without a rest.                                        *)
LEMMA ExactDivision ==
  ASSUME NEW a \in Int, NEW c \in Nat \ {0}, NEW n \in Nat \ {0}, a % (c * n) = 0
  PROVE  /\ (a \div c) \div n \in Int
         /\ a = c * (n * ((a \div c) \div n))
  <1>1. c * n \in Nat \ {0}
    OBVIOUS
  <1>2. PICK k \in Int : a = (c * n) * k
    BY <1>1
  <1>3. a = c * (n * k) /\ n * k \in Int
    BY <1>2
  <1>4. a \div c = n * k
    BY <1>3
  <1>5. (n * k) \div n = k
    BY <1>2
  <1> QED
    BY <1>2, <1>3, <1>4, <1>5

(* A shot along <<a, b>>, a vector of length c, in n steps by <<k, l>>.    *)
ShotInSteps(a, b, c, speed, n, k, l) ==
  /\ a \in Int /\ b \in Int /\ c \in Nat \ {0} /\ Square(a) + Square(b) = Square(c)
  /\ speed \in Nat \ {0} /\ n \in Nat \ {0} /\ speed <= (10 * Grain) * n
  /\ k \in Int /\ l \in Int /\ speed * a = c * (n * k) /\ speed * b = c * (n * l)

(* A step of a shot: not longer than 10 pixels, and not of length 0.       *)
LEMMA ShotSteps ==
  ASSUME NEW a, NEW b, NEW c, NEW speed, NEW n, NEW k, NEW l,
         ShotInSteps(a, b, c, speed, n, k, l)
  PROVE  Square(k) + Square(l) > 0 /\ Square(k) + Square(l) <= Square(10 * Grain)
  <1>0. /\ a \in Int /\ b \in Int /\ c \in Nat \ {0} /\ Square(a) + Square(b) = Square(c)
        /\ speed \in Nat \ {0} /\ n \in Nat \ {0} /\ speed <= (10 * Grain) * n
        /\ k \in Int /\ l \in Int /\ speed * a = c * (n * k) /\ speed * b = c * (n * l)
    BY DEF ShotInSteps
  <1> USE <1>0
  <1> DEFINE S == Square(k) + Square(l)
  <1>1. S \in Nat
    BY SquareNat DEF Square
  <1>2. Square(speed * a) + Square(speed * b) = Square(speed) * Square(c)
    <2>1. Square(speed * a) + Square(speed * b) = Square(speed) * (Square(a) + Square(b))
      BY DEF Square
    <2> QED
      BY <2>1
  <1>3. Square(c * (n * k)) + Square(c * (n * l)) = Square(c) * (Square(n) * S)
    BY DEF Square
  <1> HIDE DEF S
  <1>4. Square(speed) \in Nat \ {0} /\ Square(c) \in Nat \ {0} /\ Square(n) \in Nat \ {0}
    BY DEF Square
  <1>5. Square(c) * Square(speed) = Square(c) * (Square(n) * S)
    <2>1. Square(speed) * Square(c) = Square(c) * Square(speed)
      BY <1>4
    <2> QED
      BY <1>2, <1>3, <2>1
  <1>6. Square(speed) = Square(n) * S
    <2>1. Square(n) * S \in Int
      BY <1>1, <1>4, SMT
    <2>2. Square(speed) <= Square(n) * S /\ Square(n) * S <= Square(speed)
      BY <1>4, <1>5, <2>1, CancelFactor
    <2> QED
      BY <1>4, <2>1, <2>2
  <1>7. S # 0
    BY <1>4, <1>6
  <1>8. Square(speed) <= Square(n) * Square(10 * Grain)
    <2> DEFINE t == 10 * Grain
    <2>1. t \in Nat \ {0} /\ speed <= t * n
      BY GrainPositive
    <2> HIDE DEF t
    <2>2. t * n \in Nat
      BY <2>1
    <2>3. Square(speed) <= Square(t * n)
      BY <2>1, <2>2, SquareMonotonic
    <2>4. Square(t * n) = Square(n) * Square(t)
      BY <2>1 DEF Square
    <2> QED
      BY <2>3, <2>4 DEF t
  <1>9. S <= Square(10 * Grain)
    <2>1. Square(10 * Grain) \in Int
      BY Triangle
    <2> QED
      BY <1>1, <1>4, <1>6, <1>8, <2>1, CancelFactor
  <1> QED
    BY <1>1, <1>7, <1>9 DEF S

(* A point within the depth of a straight flight of n steps is in reach of *)
(* the end of one of them.                                                 *)
LEMMA CrossingIsSampled ==
  ASSUME NEW a \in Points, NEW b \in Points, NEW p \in Points, NEW s \in Points,
         NEW n \in Nat \ {0},
         b.x = a.x + n * s.x, b.y = a.y + n * s.y, Short(s),
         Crosses(a, b, p)
  PROVE  \E i \in 1..n :
           DistSq(Point(a.x + i * s.x, a.y + i * s.y), p) <= Square(Reach)
  <1> DEFINE wx == p.x - a.x
             wy == p.y - a.y
             D == Square(Depth)
             S == Square(s.x) + Square(s.y)
             along == wx * s.x + wy * s.y
             across == wx * s.y - wy * s.x
  <1>1. /\ a.x \in Int /\ a.y \in Int /\ s.x \in Int /\ s.y \in Int
        /\ p.x \in Int /\ p.y \in Int /\ wx \in Int /\ wy \in Int
    BY DEF Points
  <1>2. b.x - a.x = n * s.x /\ b.y - a.y = n * s.y /\ n * s.x \in Int /\ n * s.y \in Int
    BY <1>1
  <1>3. DistSq(a, b) = n * (n * S)
    <2>1. DistSq(a, b) = Square(n * s.x) + Square(n * s.y)
      <3>1. a.x - b.x = -(n * s.x) /\ a.y - b.y = -(n * s.y)
        BY <1>1, <1>2
      <3>2. \A z \in Int : Square(-z) = Square(z)
        BY DEF Square
      <3> QED
        BY <1>2, <3>1, <3>2 DEF DistSq
    <2>2. Square(n * s.x) + Square(n * s.y) = n * (n * S)
      BY <1>1 DEF Square
    <2> QED
      BY <2>1, <2>2
  <1>4. /\ 0 <= wx * (n * s.x) + wy * (n * s.y)
        /\ wx * (n * s.x) + wy * (n * s.y) <= n * (n * S)
        /\ Square(wx * (n * s.y) - wy * (n * s.x)) <= Square(Depth) * (n * (n * S))
    BY <1>2, <1>3 DEF Crosses
  <1>5. /\ wx * (n * s.x) + wy * (n * s.y) = n * along
        /\ wx * (n * s.y) - wy * (n * s.x) = n * across
    BY <1>1
  <1>6. along \in Int /\ across \in Int /\ S \in Int
    BY <1>1 DEF Square
  <1> HIDE DEF along, across, S, D
  <1>7. 0 <= along
    <2>1. n * 0 <= n * along
      BY <1>4, <1>5
    <2> QED
      BY <1>6, <2>1, CancelFactor
  <1>8. along <= n * S
    <2>1. n * along <= n * (n * S) /\ n * S \in Int
      BY <1>4, <1>5, <1>6
    <2> QED
      BY <1>6, <2>1, CancelFactor
  <1>9. Square(across) <= D * S
    <2>1. Square(n * across) = n * (n * Square(across)) /\ Square(across) \in Int
      BY <1>6 DEF Square
    <2>0. D \in Nat /\ D = Square(Depth)
      BY Triangle DEF D
    <2>2. D * (n * (n * S)) = n * (n * (D * S)) /\ D * S \in Int
      BY <1>6, <2>0
    <2>3. n * (n * Square(across)) <= n * (n * (D * S))
      BY <1>4, <1>5, <2>0, <2>1, <2>2
    <2>4. n * Square(across) \in Int /\ n * (D * S) \in Int
      BY <2>1, <2>2
    <2>5. n * Square(across) <= n * (D * S)
      BY <2>3, <2>4, CancelFactor
    <2> QED
      BY <2>1, <2>2, <2>5, CancelFactor
  <1> DEFINE w == Point(wx, wy)
  <1>10. NearOne(n, s, w)
    <2>1. w \in Points /\ w.x = wx /\ w.y = wy
      BY <1>1 DEF Point, Points
    <2> HIDE DEF w
    <2>2. Beside(n, s, w)
      BY <1>7, <1>8, <1>9, <2>1 DEF Beside, along, across, S, D
    <2> QED
      BY <2>1, <2>2, NearSample
  <1> HIDE DEF wx, wy
  <1>14. PICK i \in 1..n : Square(wx - i * s.x) + Square(wy - i * s.y) <= Square(Reach)
    BY <1>10 DEF NearOne, Point
  <1>11. /\ (a.x + i * s.x) - p.x = -(wx - i * s.x) /\ wx - i * s.x \in Int
         /\ (a.y + i * s.y) - p.y = -(wy - i * s.y) /\ wy - i * s.y \in Int
    BY <1>1 DEF wx, wy
  <1>12. \A z \in Int : Square(-z) = Square(z)
    BY DEF Square
  <1>13. DistSq(Point(a.x + i * s.x, a.y + i * s.y), p)
           = Square(wx - i * s.x) + Square(wy - i * s.y)
    BY <1>11, <1>12 DEF DistSq, Point
  <1> QED
    BY <1>14, <1>13

(* The step of a projectile, and where it is after i of them.              *)
Step(body) == Point(body.vx \div SubSteps(body.weapon), body.vy \div SubSteps(body.weapon))

Sample(i) == Point(current.from.x + i * Step(Body).x, current.from.y + i * Step(Body).y)

ShortSteps == \A o \in DOMAIN bodies : Short(Step(bodies[o]))

(* A projectile in flight is at its last sample, and none of the samples   *)
(* of this tick was in reach of anybody but its owner.                     *)
SamplesClear ==
  Flying =>
    /\ current.steps = SubSteps(Body.weapon)
    /\ Body.x = Sample(current.at).x /\ Body.y = Sample(current.at).y
    /\ \A i \in 1..current.at, u \in DOMAIN grid \ {Body.owner} :
         DistSq(Sample(i), grid[u]) > Square(Reach)

(* Every shot is fired with short steps, whatever its weapon and aim.      *)
LEMMA ShortStepsShoot ==
  ASSUME BlastInv, ShortSteps, NEW u \in Users, NEW aim \in Aims, NEW weapon \in DOMAIN Arms,
         Shoot(u, aim, weapon)
  PROVE  ShortSteps'
  <1> DEFINE speed == Speed(weapon)
             n == SubSteps(weapon)
             vx == (speed * aim[1]) \div aim[3]
             vy == (speed * aim[2]) \div aim[3]
             new == [owner |-> u, weapon |-> weapon, x |-> players[u].x, y |-> players[u].y,
                     vx |-> vx, vy |-> vy]
  <1>1. PICK o \in Objects : bodies' = With(bodies, o, new)
    BY DEF Shoot
  <1>2. /\ speed \in Nat \ {0} /\ n \in Nat \ {0} /\ speed <= (10 * Grain) * n
        /\ aim[1] \in Int /\ aim[2] \in Int /\ aim[3] \in Nat \ {0}
        /\ Square(aim[1]) + Square(aim[2]) = Square(aim[3])
    BY FlightAssumption, EnoughSubSteps, SubStepsPositive DEF FlightAssumption
  <1>3. (speed * aim[1]) % (aim[3] * n) = 0 /\ (speed * aim[2]) % (aim[3] * n) = 0
    BY DEF Shoot, Whole
  <1> HIDE DEF speed, n
  <1>4. speed * aim[1] \in Int /\ speed * aim[2] \in Int
    BY <1>2
  <1>5. /\ vx \div n \in Int /\ vy \div n \in Int
        /\ speed * aim[1] = aim[3] * (n * (vx \div n))
        /\ speed * aim[2] = aim[3] * (n * (vy \div n))
    BY <1>2, <1>3, <1>4, ExactDivision
  <1> DEFINE k == vx \div n
             l == vy \div n
  <1> HIDE DEF vx, vy, k, l
  <1>6. /\ Square(vx \div n) + Square(vy \div n) > 0
        /\ Square(vx \div n) + Square(vy \div n) <= Square(10 * Grain)
    <2>1. ShotInSteps(aim[1], aim[2], aim[3], speed, n, k, l)
      BY <1>2, <1>5 DEF ShotInSteps, k, l
    <2>2. Square(k) + Square(l) > 0 /\ Square(k) + Square(l) <= Square(10 * Grain)
      BY <2>1, ShotSteps
    <2> QED
      BY <2>2 DEF k, l
  <1>7. Step(new).x = vx \div n /\ Step(new).y = vy \div n
    BY DEF Step, Point, n
  <1> HIDE DEF new
  <1>8. ASSUME NEW q \in DOMAIN bodies'
        PROVE  bodies'[q] = new \/ (q \in DOMAIN bodies /\ bodies'[q] = bodies[q])
    BY <1>1 DEF With
  <1>9. ASSUME NEW q \in DOMAIN bodies'
        PROVE  Short(Step(bodies'[q]))
    <2>1. CASE bodies'[q] = new
      BY <1>6, <1>7, <2>1 DEF Short
    <2>2. CASE q \in DOMAIN bodies /\ bodies'[q] = bodies[q]
      BY <2>2 DEF ShortSteps
    <2> QED
      BY <1>8, <2>1, <2>2
  <1> QED
    BY <1>9 DEF ShortSteps

(* The invariant of the flight.  Without the first half a step could be    *)
(* longer than the circle it has to hit; without the second nothing is     *)
(* known of the samples that came before the last.                         *)
WayInv == ShortSteps /\ SamplesClear

(* Bodies are only taken away.                                             *)
LEMMA FewerBodies ==
  ASSUME WayInv, NEW S, S \subseteq DOMAIN bodies, bodies' = Restrict(bodies, S)
  PROVE  ShortSteps'
  BY DEF WayInv, ShortSteps, Restrict, Step, Short, Point

(* One sub-step on: nobody was in reach of the point it has come to.       *)
LEMMA FliesOnKeepsWay ==
  ASSUME PoolInv, BlastInv, WayInv, FliesOn
  PROVE  WayInv'
  <1> DEFINE o == projectiles[current.id]
             b == bodies[o]
             s == Step(b)
  <1>1. /\ UNCHANGED <<projectiles, phase, grid>> /\ Flying
        /\ bodies' = [bodies EXCEPT ![o].x = NextPoint.x, ![o].y = NextPoint.y]
        /\ current' = [current EXCEPT !.at = @ + 1]
        /\ Targets(NextPoint) = {}
    BY DEF FliesOn
  <1>2. o \in DOMAIN bodies /\ b \in Bodies /\ NextPoint \in Points /\ Body = b
    BY <1>1, NextPointOnRaster DEF Body
  <1>3. current \in Flights
    BY <1>1 DEF BlastInv, Flying
  <1>4. current'.id = current.id /\ current'.from = current.from
        /\ current'.at = current.at + 1 /\ current'.steps = current.steps
    BY <1>1, <1>3 DEF Flights
  <1>5. /\ bodies'[o].x = NextPoint.x /\ bodies'[o].y = NextPoint.y
        /\ bodies'[o].vx = b.vx /\ bodies'[o].vy = b.vy
        /\ bodies'[o].weapon = b.weapon /\ bodies'[o].owner = b.owner
        /\ DOMAIN bodies' = DOMAIN bodies
        /\ \A q \in DOMAIN bodies \ {o} : bodies'[q] = bodies[q]
    BY <1>1, <1>2 DEF BlastInv, Bodies
  <1>6. Step(bodies'[o]) = s
    BY <1>5 DEF Step
  <1>7. ShortSteps'
    <2>1. ASSUME NEW q \in DOMAIN bodies' PROVE Short(Step(bodies'[q]))
      BY <1>2, <1>5, <1>6 DEF WayInv, ShortSteps
    <2> QED
      BY <2>1 DEF ShortSteps
  <1>8. Body' = bodies'[o] /\ Step(Body)' = s /\ Step(Body) = s
    BY <1>1, <1>2, <1>4, <1>6 DEF Body, Step, Point
  <1>9. \A i : Sample(i)' = Sample(i)
    BY <1>4, <1>8 DEF Sample, Point
  <1>10. /\ current.steps = SubSteps(b.weapon)
         /\ b.x = Sample(current.at).x /\ b.y = Sample(current.at).y
         /\ \A i \in 1..current.at, u \in DOMAIN grid \ {b.owner} :
              DistSq(Sample(i), grid[u]) > Square(Reach)
    BY <1>1, <1>2 DEF WayInv, SamplesClear
  <1>11. NextPoint = Sample(current.at + 1)
    <2>1. s.x \in Int /\ s.y \in Int /\ current.at \in Int
          /\ current.from.x \in Int /\ current.from.y \in Int
      <3>1. b.vx \in Int /\ b.vy \in Int /\ SubSteps(b.weapon) \in Nat \ {0}
        BY <1>2, SubStepsPositive DEF Bodies
      <3> QED
        BY <1>3, <3>1 DEF Step, Point, Flights, Points
    <2>2. NextPoint = Point(b.x + s.x, b.y + s.y)
      BY <1>2, <1>10 DEF NextPoint, Step, Point
    <2>3. /\ b.x = current.from.x + current.at * s.x
          /\ b.y = current.from.y + current.at * s.y
      BY <1>8, <1>10 DEF Sample, Point
    <2> HIDE DEF s, b
    <2>4. /\ b.x + s.x = current.from.x + (current.at + 1) * s.x
          /\ b.y + s.y = current.from.y + (current.at + 1) * s.y
      BY <2>1, <2>3
    <2> QED
      BY <1>8, <2>2, <2>4 DEF Sample
  <1>12. ASSUME NEW u \in DOMAIN grid \ {b.owner}
         PROVE  DistSq(NextPoint, grid[u]) > Square(Reach)
    <2>1. Reach \in Nat
      BY Lengths
    <2>2. u \notin Struck(NextPoint, Reach)
      BY <1>1, <1>2 DEF Targets
    <2>3. ~(DistSq(NextPoint, grid[u]) <= Square(Reach))
      BY <1>2, <2>1, <2>2, StruckExact DEF BlastInv
    <2>4. DistSq(NextPoint, grid[u]) \in Int /\ Square(Reach) \in Int
      BY <1>2, <2>1 DEF BlastInv, DistSq, Square, Points
    <2> QED
      BY <2>3, <2>4
  <1>13. SamplesClear'
    <2>1. current'.steps = SubSteps(Body.weapon)'
      BY <1>4, <1>5, <1>8, <1>10 DEF SubSteps
    <2>2. Body'.x = Sample(current.at)'.x /\ Body'.y = Sample(current.at)'.y
      <3>1. Sample(current.at)' = Sample(current.at + 1)
        BY <1>4, <1>8 DEF Sample, Point
      <3> QED
        BY <1>5, <1>8, <1>11, <3>1
    <2>3. ASSUME NEW i \in 1..current'.at, NEW u \in DOMAIN grid' \ {Body'.owner}
          PROVE  DistSq(Sample(i), grid[u])' > Square(Reach)
      <3>1. i \in 1..current.at \/ i = current.at + 1
        BY <1>3, <1>4 DEF Flights
      <3>2. u \in DOMAIN grid \ {b.owner} /\ grid'[u] = grid[u]
        BY <1>1, <1>5, <1>8
      <3>3. DistSq(Sample(i), grid[u]) > Square(Reach)
        BY <1>10, <1>11, <1>12, <3>1, <3>2
      <3> QED
        BY <1>9, <3>2, <3>3 DEF DistSq
    <2> QED
      BY <2>1, <2>2, <2>3 DEF SamplesClear
  <1> QED
    BY <1>7, <1>13 DEF WayInv

LEMMA WayInvStep ==
  ASSUME PoolInv, BlastInv, WayInv, [FlightNext]_flightVars
  PROVE  WayInv'
  <1>1. ASSUME UNCHANGED <<store, loop>> PROVE WayInv'
    BY <1>1 DEF WayInv, ShortSteps, SamplesClear, Flying, Body, Sample, Step, Short, Point,
                DistSq, store, loop
  <1>2. ASSUME UNCHANGED bodies PROVE ShortSteps'
    BY <1>2 DEF WayInv, ShortSteps, Step, Short, Point
  <1>3. ASSUME NEW u \in Users,
               \/ Spawn(u) \/ Restore(u) \/ Leave(u) \/ Disconnect(u)
               \/ \E m \in Moves : Move(u, m)
        PROVE  WayInv'
    BY <1>1, <1>3 DEF Spawn, Restore, Leave, Disconnect, Move
  <1>4. ASSUME NEW u \in Users, NEW aim \in Aims, NEW weapon \in DOMAIN Arms,
               Shoot(u, aim, weapon)
        PROVE  WayInv'
    <2>1. phase' # "projectiles"
      BY <1>4 DEF Shoot, NextInput, loop
    <2>2. ShortSteps'
      BY <1>4, ShortStepsShoot DEF WayInv
    <2> QED
      BY <2>1, <2>2 DEF WayInv, SamplesClear, Flying
  <1>5. CASE TickStart
    BY <1>2, <1>5 DEF TickStart, store, WayInv, SamplesClear, Flying
  <1>6. CASE UpdatePlayers
    <2>1. current' = None
      BY <1>6 DEF UpdatePlayers, PoolInv
    <2> QED
      BY <1>2, <1>6, <2>1 DEF UpdatePlayers, store, WayInv, SamplesClear, Flying
  <1>7. ASSUME NEW id \in Ids, Depart(id) PROVE WayInv'
    <2> DEFINE b == bodies[projectiles[id]]
    <2>1. /\ UNCHANGED <<projectiles, bodies, grid>>
          /\ id \in DOMAIN projectiles
          /\ current' = [id |-> id, from |-> Point(b.x, b.y), at |-> 0, steps |-> SubSteps(b.weapon)]
      BY <1>7 DEF Depart, store, PoolInv
    <2>2. b \in Bodies
      BY <2>1 DEF BlastInv
    <2>3. Body' = b
      BY <2>1 DEF Body
    <2>4. Step(Body)'.x \in Int /\ Step(Body)'.y \in Int
      <3>1. b.vx \in Int /\ b.vy \in Int /\ SubSteps(b.weapon) \in Nat \ {0}
        BY <2>2, SubStepsPositive DEF Bodies
      <3> QED
        BY <2>3, <3>1 DEF Step, Point
    <2>5. Sample(0)'.x = b.x /\ Sample(0)'.y = b.y
      <3>1. b.x \in Int /\ b.y \in Int
        BY <2>2 DEF Bodies
      <3> QED
        BY <2>1, <2>4, <3>1 DEF Sample, Point
    <2>6. current'.at = 0 /\ current'.steps = SubSteps(Body.weapon)'
      BY <2>1, <2>3 DEF SubSteps
    <2>7. SamplesClear'
      BY <2>3, <2>5, <2>6 DEF SamplesClear
    <2> QED
      BY <1>2, <2>1, <2>7 DEF WayInv
  <1>8. ASSUME NEW p, NEW victims, Stops(p, victims) PROVE WayInv'
    BY <1>2, <1>8 DEF Stops, store, WayInv, SamplesClear, Flying
  <1>9. CASE HitsWall \/ HitsPlayer
    BY <1>8, <1>9 DEF HitsWall, HitsPlayer
  <1>10. CASE FliesOn
    BY <1>10, FliesOnKeepsWay
  <1>11. CASE Arrives
    BY <1>2, <1>11 DEF Arrives, store, WayInv, SamplesClear, Flying
  <1>12. CASE TickEnd
    <2>1. ShortSteps'
      BY <1>12, FewerBodies DEF TickEnd
    <2> QED
      BY <1>12, <2>1 DEF TickEnd, WayInv, SamplesClear, Flying
  <1>13. CASE UNCHANGED flightVars
    BY <1>1, <1>13 DEF flightVars
  <1> QED
    BY <1>3, <1>4, <1>5, <1>6, <1>7, <1>9, <1>10, <1>11, <1>12, <1>13
       DEF FlightNext, Inputs

(* Whoever was crossed would have been in reach of a sample.               *)
LEMMA WayIsClear ==
  ASSUME PoolInv, BlastInv, WayInv
  PROVE  NoTunnelling
  <1> SUFFICES ASSUME Flying, current.at > 0, NEW u \in DOMAIN grid \ {Body.owner},
                      Crosses(current.from, Body, grid[u])
               PROVE  FALSE
    BY DEF NoTunnelling
  <1> DEFINE a == current.from
             b == Point(Body.x, Body.y)
             s == Step(Body)
             n == current.at
             p == grid[u]
  <1>1. Body \in Bodies /\ projectiles[current.id] \in DOMAIN bodies
    BY NextPointOnRaster
  <1>2. a \in Points /\ n \in Nat \ {0} /\ p \in Points
    BY DEF BlastInv, Flying, Flights
  <1>3. s \in Points
    <2>1. Body.vx \in Int /\ Body.vy \in Int /\ SubSteps(Body.weapon) \in Nat \ {0}
      BY <1>1, SubStepsPositive DEF Bodies
    <2> QED
      BY <2>1 DEF Step, Point, Points
  <1>4. b \in Points
    BY <1>1 DEF Bodies, Point, Points
  <1>5. Short(s)
    BY <1>1 DEF WayInv, ShortSteps, Body
  <1>6. b.x = a.x + n * s.x /\ b.y = a.y + n * s.y
    BY DEF WayInv, SamplesClear, Sample, Point
  <1>7. Crosses(a, b, p)
    BY DEF Crosses, DistSq, Point
  <1>8. \A i \in 1..n : DistSq(Point(a.x + i * s.x, a.y + i * s.y), p) > Square(Reach)
    BY DEF WayInv, SamplesClear, Sample
  <1> HIDE DEF a, b, s, n, p
  <1>9. PICK i \in 1..n : DistSq(Point(a.x + i * s.x, a.y + i * s.y), p) <= Square(Reach)
    BY <1>2, <1>3, <1>4, <1>5, <1>6, <1>7, CrossingIsSampled
  <1>10. DistSq(Point(a.x + i * s.x, a.y + i * s.y), p) \in Int /\ Square(Reach) \in Int
    <2>1. /\ a.x + i * s.x \in Int /\ a.y + i * s.y \in Int /\ p.x \in Int /\ p.y \in Int
      BY <1>2, <1>3 DEF Points
    <2> QED
      BY <2>1, Triangle DEF DistSq, Point, Square
  <1> QED
    BY <1>8, <1>9, <1>10

(* No projectile passes within 24 pixels of a player of the grid, its      *)
(* owner excepted, and flies on, whatever the speed of its weapon          *)
(* (shooter-engine.service.ts:380-441).                                    *)
THEOREM NoTunnellingAlways == FlightSpec => []NoTunnelling
  <1>1. FlightInit => WayInv
    BY DEF FlightInit, WayInv, ShortSteps, SamplesClear, Flying
  <1>2. PoolInv /\ BlastInv /\ WayInv /\ [FlightNext]_flightVars => WayInv'
    BY WayInvStep
  <1>3. PoolInv /\ BlastInv /\ WayInv => NoTunnelling
    BY WayIsClear
  <1>4. PoolInv /\ BlastInv /\ OnRaster /\ OnRaster' /\ [FlightNext]_flightVars => BlastInv'
    BY BlastInvStep
  <1> QED
    BY <1>1, <1>2, <1>3, <1>4, PoolInvInit, PoolInvStep, BlastInvInit, OnRasterAlways, PTL
       DEF FlightSpec
-----------------------------------------------------------------------------
(* Types.                                                                  *)

(* What the invariants above leave of FlightTypeOK.                        *)
KnownNames ==
  /\ DOMAIN players \subseteq Users /\ DOMAIN away \subseteq Users
  /\ DOMAIN players \cap DOMAIN away = {} /\ DOMAIN projectiles \subseteq Ids
  /\ DOMAIN grid \subseteq Users
  /\ phase \in {"idle", "inputs", "projectiles"}
  /\ inputs \in 0..InputBound /\ ticks \in 0..TickBound

LEMMA KnownNamesStep ==
  ASSUME KnownNames, [FlightNext]_flightVars
  PROVE  KnownNames'
  <1> USE DEF KnownNames
  <1>0. InputBound \in Nat /\ TickBound \in Nat
    BY FlightAssumption DEF FlightAssumption
  <1>1. ASSUME NEW u \in Users, Spawn(u) PROVE KnownNames'
    <2>1. /\ DOMAIN players' = DOMAIN players \cup {u}
          /\ DOMAIN away' = DOMAIN away \ {u}
      BY <1>1 DEF Spawn, With, Without, Restrict
    <2> QED
      BY <1>1, <2>1 DEF Spawn, store, loop
  <1>13. ASSUME NEW u \in Users, Restore(u) PROVE KnownNames'
    <2>1. /\ DOMAIN players' = DOMAIN players \cup {u}
          /\ DOMAIN away' = DOMAIN away \ {u}
      BY <1>13 DEF Restore, With, Without, Restrict
    <2> QED
      BY <1>13, <2>1 DEF Restore, store, loop
  <1>2. ASSUME NEW u \in Users, Leave(u) PROVE KnownNames'
    BY <1>2 DEF Leave, Without, Restrict, store, loop
  <1>14. ASSUME NEW u \in Users, Disconnect(u) PROVE KnownNames'
    <2>1. /\ DOMAIN players' = DOMAIN players \ {u}
          /\ DOMAIN away' = DOMAIN away \cup {u}
      BY <1>14 DEF Disconnect, With, Without, Restrict
    <2> QED
      BY <1>0, <1>14, <2>1 DEF Disconnect, Counted, store, loop
  <1>3. ASSUME NEW u \in Users, NEW m \in Moves, Move(u, m) PROVE KnownNames'
    BY <1>0, <1>3 DEF Move, NextInput, Counted, store, loop
  <1>4. ASSUME NEW u \in Users, NEW aim \in Aims, NEW weapon \in DOMAIN Arms,
               Shoot(u, aim, weapon)
        PROVE  KnownNames'
    <2>1. PICK id \in Ids, o \in Objects : projectiles' = With(projectiles, id, o)
      BY <1>4 DEF Shoot
    <2>2. /\ UNCHANGED <<players, away, loop, ticks>>
          /\ inputs < InputBound /\ inputs' = inputs + 1
      BY <1>4 DEF Shoot, NextInput, Counted
    <2> QED
      BY <1>0, <2>1, <2>2 DEF With, loop
  <1>5. CASE TickStart
    BY <1>0, <1>5 DEF TickStart, store
  <1>6. CASE UpdatePlayers
    BY <1>6 DEF UpdatePlayers, Steps, store
  <1>7. ASSUME NEW id \in Ids, Depart(id) PROVE KnownNames'
    BY <1>7 DEF Depart, store
  <1>8. ASSUME NEW p, NEW victims, Stops(p, victims) PROVE KnownNames'
    <2>1. PICK dead : players' = Restrict(players, DOMAIN players \ dead)
      BY <1>8 DEF Stops
    <2> QED
      BY <1>8, <2>1 DEF Stops, Restrict, store
  <1>9. CASE HitsWall \/ HitsPlayer
    BY <1>8, <1>9 DEF HitsWall, HitsPlayer
  <1>10. CASE FliesOn \/ Arrives
    BY <1>10 DEF FliesOn, Arrives, store
  <1>11. CASE TickEnd
    BY <1>11 DEF TickEnd, RoomWithout, Restrict
  <1>12. CASE UNCHANGED flightVars
    BY <1>12 DEF flightVars, store, loop
  <1> QED
    BY <1>1, <1>2, <1>3, <1>4, <1>5, <1>6, <1>7, <1>9, <1>10, <1>11, <1>12,
       <1>13, <1>14 DEF FlightNext, Inputs

(* The state of players, projectiles, grid and pool is well typed.         *)
THEOREM FlightTypeCorrect == FlightSpec => []FlightTypeOK
  <1>1. FlightInit => KnownNames
    BY FlightAssumption DEF FlightInit, KnownNames, FlightAssumption
  <1>2. KnownNames /\ OnRaster /\ PoolInv /\ BlastInv => FlightTypeOK
    BY DEF KnownNames, PoolInv, BlastInv, FlightTypeOK
  <1>3. PoolInv /\ BlastInv /\ OnRaster /\ OnRaster' /\ [FlightNext]_flightVars => BlastInv'
    BY BlastInvStep
  <1> QED
    BY <1>1, <1>2, <1>3, KnownNamesStep, PoolInvInit, PoolInvStep, BlastInvInit,
       OnRasterAlways, PTL DEF FlightSpec
=============================================================================
