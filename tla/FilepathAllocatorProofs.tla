------------------------ MODULE FilepathAllocatorProofs ------------------------
(****************************************************************************)
(* Proofs about FilepathAllocator, over the proofs about LinearAllocator:   *)
(* what they need of their constants is proved of the sizes this code gives *)
(* it, and of libd_memory_align_up as it computes bit by bit.               *)
(****************************************************************************)
EXTENDS FilepathAllocator, MCAlignmentBits, SequenceTheorems, WellFoundedInduction, TLAPS

LAP == INSTANCE LinearAllocatorProofs WITH
    ReservationArgs <- {Reservation},
    CapacityArgs    <- {KiB},
    MaxSavepoints   <- 0,
    GrowthMayFail   <- FALSE

\* What LinearAllocator assumes of libd_memory_align_up.
RoundsUp ==
    /\ \A v \in 0 .. MaxAddress, al \in 1 .. MaxAddress :
           RoundUp(v, al) \in v .. v + al - 1
    /\ \A v \in 0 .. MaxAddress, al \in LAP!PowersOfTwo \cup {PageSize} :
           RoundUp(v, al) = LAP!AlignUp(v, al)

\* The first kibibyte needs no page the reservation does not have; the configuration
\* FilepathLargePages shows what happens otherwise.
PagesFit == PageSize <= Reservation

(****************************************************************************)
(* The inductive invariant: the arena's, and that the handle is set exactly *)
(* while there is an arena, in particular after calls whose failure it      *)
(* hides.                                                                   *)
(****************************************************************************)
IInv ==
    /\ LAP!IInv
    /\ a \in {NULL, ARENA}
    /\ a # NULL <=> mapped > 0
    /\ methods \in BOOLEAN
    /\ returned \in {"none", "ok", "no_memory", "pointer", "null"}
-----------------------------------------------------------------------------
LEMMA DivisionRemainder ==
    ASSUME NEW v \in Nat, NEW p \in Nat \ {0}
    PROVE  /\ v = p * (v \div p) + (v % p)
           /\ v % p \in 0 .. p - 1
           /\ v \div p \in Nat
  OBVIOUS

\* Multiples keep the order of their quotients, and lie p apart.
LEMMA MultiplesApart ==
    ASSUME NEW p \in Nat \ {0}, NEW q \in Nat, NEW r \in Nat, q < r
    PROVE  p * q \in Nat /\ p * r \in Nat /\ p * q + p <= p * r
<1>1. PICK d \in Nat : r = q + 1 + d
  <2>1. r - q - 1 \in Nat /\ r = q + 1 + (r - q - 1)
    OBVIOUS
  <2> QED
    BY <2>1
<1>2. p * r = p * q + p + p * d /\ p * q \in Nat /\ p * d \in Nat
  BY <1>1
<1> QED
  BY <1>2

\* AlignUp is the multiple of p less than p above v.
LEMMA AlignUpBetween ==
    ASSUME NEW v \in Nat, NEW p \in Nat \ {0}
    PROVE  \E q \in Nat : /\ LAP!AlignUp(v, p) = p * q
                          /\ v <= p * q /\ p * q < v + p
<1>1. PICK w \in Nat : w = v + p - 1
  OBVIOUS
<1>2. PICK q \in Nat, r \in 0 .. p - 1 : q = w \div p /\ w = p * q + r
  BY DivisionRemainder
<1>3. p * q \in Nat
  OBVIOUS
<1>4. PICK pq \in Nat : pq = p * q
  BY <1>3
<1>5. v <= pq /\ pq < v + p
  BY <1>1, <1>2, <1>4
<1>6. LAP!AlignUp(v, p) = p * q
  BY <1>1, <1>2 DEF LAP!AlignUp
<1> QED
  BY <1>4, <1>5, <1>6

LEMMA AlignUpBelow ==
    ASSUME NEW v \in Nat, NEW p \in Nat \ {0}
    PROVE  LAP!AlignUp(v, p) \in Nat /\ LAP!AlignUp(v, p) < v + p
<1>1. PICK q \in Nat : LAP!AlignUp(v, p) = p * q /\ v <= p * q /\ p * q < v + p
  BY AlignUpBetween
<1>2. p * q \in Nat
  OBVIOUS
<1> QED
  BY <1>1, <1>2

LEMMA AlignUpMonotone ==
    ASSUME NEW v \in Nat, NEW w \in Nat, v <= w, NEW p \in Nat \ {0}
    PROVE  LAP!AlignUp(v, p) <= LAP!AlignUp(w, p)
<1>1. PICK q \in Nat : LAP!AlignUp(v, p) = p * q /\ v <= p * q /\ p * q < v + p
  BY AlignUpBetween
<1>2. PICK r \in Nat : LAP!AlignUp(w, p) = p * r /\ w <= p * r /\ p * r < w + p
  BY AlignUpBetween
<1>3. PICK x \in Nat, y \in Nat : x = p * q /\ y = p * r
  OBVIOUS
<1>4. ~(r < q)
  <2> SUFFICES ASSUME r < q PROVE FALSE
    OBVIOUS
  <2>1. y + p <= x
    BY <1>3, MultiplesApart
  <2> QED
    BY <1>1, <1>2, <1>3, <2>1
<1>5. q = r \/ q < r
  BY <1>4
<1>6. x <= y
  BY <1>3, <1>5, MultiplesApart
<1> QED
  BY <1>1, <1>2, <1>3, <1>6

\* A part of a page rounds up to the page.
LEMMA AlignUpWithinPage ==
    ASSUME NEW v \in Nat \ {0}, NEW p \in Nat \ {0}, v <= p
    PROVE  LAP!AlignUp(v, p) = p
<1>1. PICK q \in Nat : LAP!AlignUp(v, p) = p * q /\ v <= p * q /\ p * q < v + p
  BY AlignUpBetween
<1>2. p * 0 = 0 /\ p * 1 = p /\ p * 2 = 2 * p
  OBVIOUS
<1>3. q # 0
  BY <1>1, <1>2
<1>4. ~(1 < q)
  <2> SUFFICES ASSUME 1 < q PROVE FALSE
    OBVIOUS
  <2>1. p * 1 + p <= p * q /\ p * q \in Nat
    BY MultiplesApart
  <2>2. PICK x \in Nat : x = p * q
    BY <2>1
  <2> QED
    BY <1>1, <1>2, <2>1, <2>2
<1>5. q = 1
  BY <1>3, <1>4
<1> QED
  BY <1>1, <1>2, <1>5
-----------------------------------------------------------------------------
\* libd_memory_align_up and the helper that validates alignments, bit by bit: what
\* AlignmentBits computes, for words of any length.

LEMMA LeastNatural ==
    ASSUME NEW T \in SUBSET Nat, T # {}
    PROVE  \E x \in T : \A y \in T : x <= y
<1>1. PICK R : R = OpToRel(<, Nat) /\ IsWellFoundedOn(R, Nat)
  BY NatLessThanWellFounded
<1>2. PICK x \in T : \A y \in T : ~ (<<y, x>> \in R)
  BY <1>1, WFMin
<1>3. \A i, j \in Nat : i < j => <<i, j>> \in R
  BY <1>1 DEF OpToRel
<1>4. ASSUME NEW y \in T PROVE x <= y
  <2>1. x \in Nat /\ y \in Nat
    OBVIOUS
  <2>2. ~(y < x)
    BY <1>2, <1>3, <2>1
  <2> QED
    BY <2>1, <2>2
<1> QED
  BY <1>4

\* Induction by halving.
LEMMA Halving ==
    ASSUME NEW T, 0 \in T, \A n \in Nat \ {0} : n \div 2 \in T => n \in T
    PROVE  Nat \subseteq T
<1> SUFFICES ASSUME Nat \ T # {} PROVE FALSE
  OBVIOUS
<1>1. PICK x \in Nat \ T : \A y \in Nat \ T : x <= y
  BY LeastNatural
<1>2. x \in Nat \ {0} /\ x \div 2 \in Nat /\ x \div 2 < x
  BY <1>1
<1> QED
  BY <1>1, <1>2

LEMMA Successors ==
    ASSUME NEW T, 0 \in T, \A n \in Nat : n \in T => n + 1 \in T
    PROVE  Nat \subseteq T
<1> SUFFICES ASSUME Nat \ T # {} PROVE FALSE
  OBVIOUS
<1>1. PICK x \in Nat \ T : \A y \in Nat \ T : x <= y
  BY LeastNatural
<1>2. x # 0 /\ x - 1 \in Nat
  BY <1>1
<1>3. x - 1 \in T
  BY <1>1, <1>2
<1> QED
  BY <1>2, <1>3, (x - 1) + 1 = x

\* Row x of f is what x has in common with each word, last bit first.
BitByBit(f, x) ==
    /\ \A y \in Nat : And(x, y) = f[x][y]
    /\ \A m \in Nat : f[0][m] = 0
    /\ \A n \in 1 .. x, m \in Nat :
          f[n][m] = 2 * f[n \div 2][m \div 2] + (n % 2) * (m % 2)

LEMMA AndUnfolds ==
    ASSUME NEW x \in Nat
    PROVE  \E f : BitByBit(f, x)
<1> DEFINE Row(f, n) == [m \in Nat |-> IF n = 0 THEN 0
                                       ELSE 2 * f[n \div 2][m \div 2] + (n % 2) * (m % 2)]
           Ands(f, k) == f = [n \in 0 .. k |-> Row(f, n)]
           T == {k \in Nat : \E f : Ands(f, k)}
<1>1. 0 \in T
  <2> DEFINE zero == [m \in Nat |-> 0]
  <2>1. \A n \in 0 .. 0 : \A f : Row(f, n) = zero
    OBVIOUS
  <2>2. Ands([n \in 0 .. 0 |-> zero], 0)
    BY <2>1
  <2> QED
    BY <2>2
<1>2. ASSUME NEW k \in Nat, k \in T PROVE k + 1 \in T
  <2>1. PICK f : Ands(f, k)
    BY <1>2
  <2> DEFINE g == [n \in 0 .. k + 1 |-> IF n = k + 1 THEN Row(f, k + 1) ELSE f[n]]
  <2>2. \A n \in 0 .. k : f[n] = Row(f, n)
    BY <2>1
  <2>3. \A n \in 0 .. k : g[n] = f[n]
    OBVIOUS
  <2>4. g[k + 1] = Row(f, k + 1) /\ g = [n \in 0 .. k + 1 |-> g[n]]
    OBVIOUS
  <2> HIDE DEF g
  <2>5. ASSUME NEW n \in 0 .. k + 1 PROVE Row(g, n) = Row(f, n)
    <3>1. CASE n = 0
      BY <3>1
    <3>2. CASE n # 0
      <4>1. n \div 2 \in 0 .. k
        BY <3>2
      <4>2. g[n \div 2] = f[n \div 2]
        BY <2>3, <4>1
      <4> QED
        BY <4>2
    <3> QED
      BY <3>1, <3>2
  <2>6. ASSUME NEW n \in 0 .. k + 1 PROVE g[n] = Row(f, n)
    <3>1. n \in 0 .. k \/ n = k + 1
      OBVIOUS
    <3> HIDE DEF Row
    <3> QED
      BY <2>2, <2>3, <2>4, <3>1
  <2>7. Ands(g, k + 1)
    <3> HIDE DEF Row
    <3>1. \A n \in 0 .. k + 1 : g[n] = Row(g, n)
      BY <2>5, <2>6
    <3> QED
      BY <2>4, <3>1
  <2> HIDE DEF Ands
  <2> QED
    BY <2>7
<1>3. \E f : Ands(f, x)
  <2> HIDE DEF T
  <2>1. Nat \subseteq T
    BY <1>1, <1>2, Successors
  <2> USE DEF T
  <2> HIDE DEF Ands
  <2> QED
    BY <2>1
<1>4. PICK f : Ands(f, x) /\ f = CHOOSE h : Ands(h, x)
  <2> HIDE DEF Ands
  <2> QED
    BY <1>3
<1>5. \A y \in Nat : And(x, y) = f[x][y]
  BY <1>4 DEF And
<1>6. \A n \in 0 .. x : f[n] = Row(f, n)
  BY <1>4
<1>7. ASSUME NEW m \in Nat PROVE f[0][m] = 0
  <2>1. f[0] = Row(f, 0)
    BY <1>6
  <2>2. Row(f, 0)[m] = 0
    OBVIOUS
  <2> QED
    BY <2>1, <2>2
<1>8. ASSUME NEW n \in 1 .. x, NEW m \in Nat
      PROVE  f[n][m] = 2 * f[n \div 2][m \div 2] + (n % 2) * (m % 2)
  <2>1. n \in 0 .. x /\ n # 0
    OBVIOUS
  <2>2. f[n] = Row(f, n)
    BY <1>6, <2>1
  <2>3. Row(f, n)[m] = 2 * f[n \div 2][m \div 2] + (n % 2) * (m % 2)
    BY <2>1
  <2> QED
    BY <2>2, <2>3
<1> QED
  BY <1>5, <1>7, <1>8 DEF BitByBit

\* What two words have in common is not more than either of them.
LEMMA RowsBounded ==
    ASSUME NEW x \in Nat, NEW f, BitByBit(f, x)
    PROVE  \A n \in 0 .. x, m \in Nat : f[n][m] \in 0 .. m
<1> DEFINE T == {n \in Nat : n <= x => \A m \in Nat : f[n][m] \in 0 .. m}
<1>1. 0 \in T
  BY DEF BitByBit
<1>2. ASSUME NEW n \in Nat \ {0}, n \div 2 \in T PROVE n \in T
  <2> SUFFICES ASSUME n <= x, NEW m \in Nat PROVE f[n][m] \in 0 .. m
    OBVIOUS
  <2>1. PICK h \in Nat, b \in {0, 1} : h = m \div 2 /\ b = m % 2 /\ m = 2 * h + b
    OBVIOUS
  <2>2. n \div 2 <= x
    OBVIOUS
  <2>3. PICK g \in 0 .. h : g = f[n \div 2][h]
    BY <1>2, <2>2
  <2>4. PICK c \in {0, b} : c = (n % 2) * b
    <3>1. n % 2 \in {0, 1}
      OBVIOUS
    <3>2. 0 * b = 0 /\ 1 * b = b
      BY <2>1
    <3> QED
      BY <3>1, <3>2
  <2>5. f[n][m] = 2 * g + c
    <3>1. n \in 1 .. x
      OBVIOUS
    <3> QED
      BY <2>1, <2>3, <2>4, <3>1 DEF BitByBit
  <2>6. 2 * g + c \in 0 .. 2 * h + b
    BY <2>4
  <2> QED
    BY <2>1, <2>5, <2>6
<1>3. Nat \subseteq T
  <2> HIDE DEF T
  <2> QED
    BY <1>1, <1>2, Halving
<1> QED
  BY <1>3

LEMMA AndBounded ==
    ASSUME NEW x \in Nat, NEW y \in Nat
    PROVE  And(x, y) \in 0 .. y
<1>1. PICK f : BitByBit(f, x)
  BY AndUnfolds
<1>2. f[x][y] \in 0 .. y
  BY <1>1, RowsBounded
<1> QED
  BY <1>1, <1>2 DEF BitByBit

\* A number that halves down to 1.
PowersOf(P) == \A q \in P : q = 1 \/ (q % 2 = 0 /\ q \div 2 \in P)

IsPowerOfTwo(p) == \E P \in SUBSET (Nat \ {0}) : p \in P /\ PowersOf(P)

LEMMA RemainderIs ==
    ASSUME NEW p \in Nat \ {0}, NEW c \in Nat, NEW r \in 0 .. p - 1
    PROVE  (p * c + r) % p = r
<1>1. PICK n \in Nat : n = p * c + r
  <2>1. p * c + r \in Nat
    OBVIOUS
  <2> QED
    BY <2>1
<1>2. PICK d \in Nat, s \in Nat : s < p /\ d = n \div p /\ s = n % p /\ n = p * d + s
  BY DivisionRemainder
<1>3. PICK u \in Nat, v \in Nat : u = p * c /\ v = p * d /\ n = u + r /\ n = v + s /\ s < p
  BY <1>1, <1>2
<1>4. ~(c < d)
  <2> SUFFICES ASSUME c < d PROVE FALSE
    OBVIOUS
  <2>1. u + p <= v
    BY <1>3, MultiplesApart
  <2> QED
    BY <1>3, <2>1
<1>5. ~(d < c)
  <2> SUFFICES ASSUME d < c PROVE FALSE
    OBVIOUS
  <2>1. v + p <= u
    BY <1>3, MultiplesApart
  <2> QED
    BY <1>3, <2>1
<1>6. c = d
  BY <1>4, <1>5
<1>7. u = v
  BY <1>3, <1>6
<1>8. r = s
  BY <1>3, <1>7
<1> QED
  BY <1>1, <1>2, <1>8

\* The last bit and the others.
LEMMA RemainderHalves ==
    ASSUME NEW n \in Nat, NEW h \in Nat \ {0}
    PROVE  2 * ((n \div 2) % h) + (n % 2) = n % (2 * h)
<1>1. PICK k \in Nat, b \in {0, 1} : k = n \div 2 /\ b = n % 2 /\ n = 2 * k + b
  OBVIOUS
<1>2. PICK c \in Nat, r \in 0 .. h - 1 : c = k \div h /\ r = k % h /\ k = h * c + r
  BY DivisionRemainder
<1>3. PICK p \in Nat \ {0}, s \in Nat : p = 2 * h /\ s = 2 * r + b /\ s < p
  BY <1>1, <1>2
<1>4. n = p * c + s
  <2>1. PICK u \in Nat : u = h * c
    <3>1. h * c \in Nat
      OBVIOUS
    <3> QED
      BY <3>1
  <2>2. p * c = 2 * u
    BY <1>3, <2>1
  <2> QED
    BY <1>1, <1>2, <1>3, <2>1, <2>2
<1>5. (p * c + s) % p = s
  <2>1. s \in 0 .. p - 1
    BY <1>3
  <2> QED
    BY <2>1, RemainderIs
<1> QED
  BY <1>1, <1>2, <1>3, <1>4, <1>5

\* Masks take remainders.
LEMMA AndMask ==
    ASSUME NEW x \in Nat, NEW p, IsPowerOfTwo(p)
    PROVE  And(x, p - 1) = x % p
<1>1. PICK P \in SUBSET (Nat \ {0}) : p \in P /\ PowersOf(P)
  BY DEF IsPowerOfTwo
<1>2. p - 1 \in Nat
  BY <1>1
<1>3. PICK f : BitByBit(f, x)
  BY AndUnfolds
<1> DEFINE T == {n \in Nat : n <= x => \A q \in P : f[n][q - 1] = n % q}
<1>4. 0 \in T
  <2> SUFFICES ASSUME NEW q \in P PROVE f[0][q - 1] = 0 % q
    OBVIOUS
  <2>1. q \in Nat \ {0} /\ q - 1 \in Nat
    OBVIOUS
  <2>2. 0 % q = 0
    BY <2>1
  <2> QED
    BY <1>3, <2>1, <2>2 DEF BitByBit
<1>5. ASSUME NEW n \in Nat \ {0}, n \div 2 \in T PROVE n \in T
  <2> SUFFICES ASSUME n <= x, NEW q \in P PROVE f[n][q - 1] = n % q
    OBVIOUS
  <2>1. q \in Nat \ {0} /\ q - 1 \in Nat /\ n \in 1 .. x /\ n \div 2 \in Nat /\ n \div 2 <= x
    OBVIOUS
  <2>2. f[n][q - 1] = 2 * f[n \div 2][(q - 1) \div 2] + (n % 2) * ((q - 1) % 2)
    BY <1>3, <2>1 DEF BitByBit
  <2>3. n % 2 \in {0, 1}
    BY <2>1
  <2>4. CASE q = 1
    <3>1. (q - 1) \div 2 = q - 1 /\ (q - 1) % 2 = 0 /\ (n % 2) * 0 = 0
      BY <2>3, <2>4
    <3>2. f[n \div 2][q - 1] = (n \div 2) % q
      BY <1>5, <2>1
    <3>3. (n \div 2) % q = 0 /\ n % q = 0
      BY <2>1, <2>4
    <3> QED
      BY <2>2, <3>1, <3>2, <3>3
  <2>5. CASE q % 2 = 0 /\ q \div 2 \in P
    <3>1. PICK h \in Nat \ {0} : h = q \div 2 /\ q = 2 * h /\ h \in P
      BY <2>1, <2>5
    <3>2. (q - 1) \div 2 = h - 1 /\ (q - 1) % 2 = 1
      BY <3>1
    <3>3. f[n \div 2][h - 1] = (n \div 2) % h
      BY <1>5, <2>1, <3>1
    <3>4. (n % 2) * 1 = n % 2
      BY <2>3
    <3>5. f[n][q - 1] = 2 * ((n \div 2) % h) + (n % 2)
      BY <2>2, <3>2, <3>3, <3>4
    <3> QED
      BY <3>1, <3>5, RemainderHalves
  <2> QED
    BY <1>1, <2>4, <2>5 DEF PowersOf
<1>6. x \in T
  <2> HIDE DEF T
  <2> QED
    BY <1>4, <1>5, Halving
<1>7. And(x, p - 1) = f[x][p - 1]
  BY <1>2, <1>3 DEF BitByBit
<1>8. f[x][p - 1] = x % p
  <2>1. \A q \in P : f[x][q - 1] = x % q
    BY <1>6
  <2>2. p \in P
    BY <1>1
  <2> HIDE DEF T
  <2> QED
    BY <2>1, <2>2, Zenon
<1> QED
  BY <1>7, <1>8

\* A word has all its bits in common with itself, and none with the number before it
\* only when it is a power of two.
LEMMA RowsOfNeighbours ==
    ASSUME NEW x \in Nat, NEW f, BitByBit(f, x), NEW P,
           \A n \in 1 .. x : n \in P <=> n = 1 \/ (n % 2 = 0 /\ n \div 2 \in P)
    PROVE  \A n \in 1 .. x : f[n][n] = n /\ (f[n][n - 1] = 0 <=> n \in P)
<1> DEFINE T == {n \in Nat : n <= x => /\ f[n][n] = n
                                       /\ n # 0 => (f[n][n - 1] = 0 <=> n \in P)}
<1>1. 0 \in T
  BY DEF BitByBit
<1>2. ASSUME NEW n \in Nat \ {0}, n \div 2 \in T PROVE n \in T
  <2> SUFFICES ASSUME n <= x PROVE f[n][n] = n /\ (f[n][n - 1] = 0 <=> n \in P)
    OBVIOUS
  <2>1. PICK h \in Nat, b \in {0, 1} : h = n \div 2 /\ b = n % 2 /\ n = 2 * h + b
    OBVIOUS
  <2>2. n \in 1 .. x /\ h <= x /\ n - 1 \in Nat
    BY <2>1
  <2>3. f[h][h] = h /\ (h # 0 => (f[h][h - 1] = 0 <=> h \in P))
    BY <1>2, <2>1, <2>2
  <2>4. /\ f[n][n] = 2 * f[h][h] + b * b
        /\ f[n][n - 1] = 2 * f[h][(n - 1) \div 2] + b * ((n - 1) % 2)
    BY <2>1, <2>2 DEF BitByBit
  <2>5. f[n][n] = n
    <3>1. b * b = b
      OBVIOUS
    <3> QED
      BY <2>1, <2>3, <2>4, <3>1
  <2>6. n \in P <=> n = 1 \/ (b = 0 /\ h \in P)
    BY <2>1, <2>2
  <2>7. CASE b = 1
    <3>1. (n - 1) \div 2 = h /\ (n - 1) % 2 = 0 /\ b * 0 = 0
      BY <2>1, <2>7
    <3>2. f[n][n - 1] = 2 * h
      BY <2>3, <2>4, <3>1
    <3>3. n = 1 <=> h = 0
      BY <2>1, <2>7
    <3>4. 2 * h = 0 <=> h = 0
      OBVIOUS
    <3> QED
      BY <2>5, <2>6, <2>7, <3>2, <3>3, <3>4
  <2>8. CASE b = 0
    <3>1. h # 0 /\ n # 1 /\ (n - 1) \div 2 = h - 1 /\ h - 1 \in Nat
      BY <2>1, <2>8
    <3>2. (n - 1) % 2 \in Nat /\ b * ((n - 1) % 2) = 0
      BY <2>2, <2>8
    <3>3. PICK g \in Nat : g = f[h][h - 1]
      <4>1. h \in 0 .. x
        BY <2>2
      <4> QED
        BY <3>1, <4>1, RowsBounded
    <3>4. f[n][n - 1] = 2 * g
      BY <2>4, <3>1, <3>2, <3>3
    <3>5. 2 * g = 0 <=> g = 0
      OBVIOUS
    <3> QED
      BY <2>3, <2>5, <2>6, <2>8, <3>1, <3>3, <3>4, <3>5
  <2> QED
    BY <2>7, <2>8
<1>3. Nat \subseteq T
  <2> HIDE DEF T
  <2> QED
    BY <1>1, <1>2, Halving
<1> QED
  BY <1>3

\* The test for powers of two accepts, of the numbers a u8 holds, zero besides.
LEMMA PowerOfTwoTest ==
    ASSUME NEW n \in 0 .. 255
    PROVE  is_power_of_two(n) <=> n = 0 \/ n \in PowersOfTwo
<1>1. CASE n = 0
  BY <1>1 DEF is_power_of_two
<1>2. CASE n # 0
  <2>1. n \in Nat /\ n - 1 \in Nat /\ n \in 1 .. n
    BY <1>2
  <2>2. PICK f : BitByBit(f, n)
    BY <2>1, AndUnfolds
  <2>3. ASSUME NEW k \in 1 .. n
        PROVE  k \in PowersOfTwo
                  <=> k = 1 \/ (k % 2 = 0 /\ k \div 2 \in PowersOfTwo)
    <3>1. PICK h \in Nat, b \in {0, 1} : h = k \div 2 /\ b = k % 2 /\ k = 2 * h + b /\ k <= 255
      OBVIOUS
    <3>2. k \in {1, 2, 4, 8, 16, 32, 64, 128}
             <=> k = 1 \/ (b = 0 /\ h \in {1, 2, 4, 8, 16, 32, 64, 128})
      BY <3>1
    <3> QED
      BY <3>1, <3>2 DEF PowersOfTwo
  <2>4. f[n][n - 1] = 0 <=> n \in PowersOfTwo
    BY <2>1, <2>2, <2>3, RowsOfNeighbours
  <2>5. And(n, n - 1) = f[n][n - 1]
    BY <2>1, <2>2 DEF BitByBit
  <2> QED
    BY <1>2, <2>4, <2>5 DEF is_power_of_two
<1> QED
  BY <1>1, <1>2

\* Rounding up, to any alignment and to powers of two.
LEMMA AlignUpBits ==
    ASSUME NEW v \in Nat, NEW al \in Nat \ {0}
    PROVE  /\ align_up(v, al) \in v .. v + al - 1
           /\ IsPowerOfTwo(al) => align_up(v, al) = AlignUp(v, al)
<1>1. PICK s \in Nat, m \in Nat : s = v + al - 1 /\ m = al - 1 /\ v = s - m
  OBVIOUS
<1>2. align_up(v, al) = s - And(s, m)
  BY <1>1 DEF align_up
<1>3. And(s, m) \in 0 .. m
  BY AndBounded
<1>4. align_up(v, al) \in v .. v + al - 1
  BY <1>1, <1>2, <1>3
<1>5. ASSUME IsPowerOfTwo(al) PROVE align_up(v, al) = AlignUp(v, al)
  <2>1. And(s, m) = s % al
    BY <1>1, <1>5, AndMask
  <2>2. PICK q \in Nat, r \in Nat : q = s \div al /\ r = s % al /\ s = al * q + r
    BY DivisionRemainder
  <2>3. PICK u \in Nat : u = al * q
    <3>1. al * q \in Nat
      OBVIOUS
    <3> QED
      BY <3>1
  <2>4. s - r = u
    BY <2>2, <2>3
  <2>5. AlignUp(v, al) = u
    BY <1>1, <2>2, <2>3 DEF AlignUp
  <2> QED
    BY <1>2, <2>1, <2>2, <2>4, <2>5
<1> QED
  BY <1>4, <1>5

LEMMA SmallPowers == \A p \in PowersOfTwo : IsPowerOfTwo(p)
<1>1. PowersOfTwo \in SUBSET (Nat \ {0})
  BY DEF PowersOfTwo
<1>2. PowersOf(PowersOfTwo)
  BY DEF PowersOf, PowersOfTwo
<1> QED
  BY <1>1, <1>2 DEF IsPowerOfTwo

\* What FilepathAllocator is given as RoundUp in the runs, and the code calls, is as the
\* theorems need it on pages that are a power of two.
THEOREM BitsRoundUp ==
    ASSUME \A v \in 0 .. MaxAddress, al \in 1 .. MaxAddress :
               RoundUp(v, al) = align_up(v, al),
           IsPowerOfTwo(PageSize)
    PROVE  RoundsUp
<1>1. /\ MaxAddress \in Nat /\ MaxAddress >= 128
      /\ PageSize \in Nat /\ PageSize >= 1 /\ PageSize <= MaxAddress
  BY ConstantsAssumption DEF ConstantsAssumption, Reservation, KiB
<1>2. ASSUME NEW v \in 0 .. MaxAddress, NEW al \in 1 .. MaxAddress
      PROVE  RoundUp(v, al) \in v .. v + al - 1
  <2>1. v \in Nat /\ al \in Nat \ {0}
    BY <1>1
  <2> QED
    BY <2>1, AlignUpBits
<1>3. ASSUME NEW v \in 0 .. MaxAddress, NEW al \in LAP!PowersOfTwo \cup {PageSize}
      PROVE  RoundUp(v, al) = LAP!AlignUp(v, al)
  <2>1. v \in Nat /\ al \in Nat \ {0} /\ al \in 1 .. MaxAddress
    BY <1>1 DEF LAP!PowersOfTwo
  <2>2. IsPowerOfTwo(al)
    BY SmallPowers DEF LAP!PowersOfTwo, PowersOfTwo
  <2>3. RoundUp(v, al) = AlignUp(v, al)
    BY <2>1, <2>2, AlignUpBits
  <2> QED
    BY <2>3 DEF AlignUp, LAP!AlignUp
<1> QED
  BY <1>2, <1>3 DEF RoundsUp

\* The arguments the helpers are called with stay in their ranges.
LEMMA HelperArguments == HelperCalls => [](value \in Nat /\ unit \in 0 .. 255)
<1> DEFINE Inputs == value \in Nat /\ unit \in 0 .. 255
<1>1. FirstCall => Inputs
  BY DEF FirstCall
<1>2. Inputs /\ [NextCall]_arguments => Inputs'
  <2> SUFFICES ASSUME Inputs, [NextCall]_arguments PROVE Inputs'
    OBVIOUS
  <2>1. (value + 1) % (MaxValue + 1) \in Nat
    BY BoundsAssumption
  <2>2. (unit + 1) % (MaxAlignment + 1) \in 0 .. 255
    BY BoundsAssumption
  <2> QED
    BY <2>1, <2>2 DEF NextCall, NextValue, NextUnit, arguments
<1> QED
  BY <1>1, <1>2, PTL DEF HelperCalls

\* The bit test accepts exactly the powers of two up to alignof(max_align_t)
\* (helpers.c, libd_memory_is_valid_alignment).
THEOREM ValidityAlwaysAgrees == HelperCalls => []ValidityAgrees
<1>1. unit \in 0 .. 255 => ValidityAgrees
  <2> SUFFICES ASSUME unit \in 0 .. 255 PROVE ValidityAgrees
    OBVIOUS
  <2>1. is_power_of_two(unit) <=> unit = 0 \/ unit \in PowersOfTwo
    BY PowerOfTwoTest
  <2>2. 0 \notin PowersOfTwo
    BY DEF PowersOfTwo
  <2> QED
    BY <2>1, <2>2
    DEF ValidityAgrees, is_valid_alignment, ValidAlignment
<1> QED
  BY <1>1, HelperArguments, PTL

\* For a power of two, clearing the low bits gives the least multiple that is not below
\* the value (helpers.c, libd_memory_align_up).
THEOREM AlignUpAlwaysAgrees == HelperCalls => []AlignUpAgrees
<1>1. value \in Nat => AlignUpAgrees
  <2> SUFFICES ASSUME value \in Nat, unit \in PowersOfTwo
               PROVE  align_up(value, unit) = AlignUp(value, unit)
    BY DEF AlignUpAgrees
  <2>1. unit \in Nat \ {0}
    BY DEF PowersOfTwo
  <2> QED
    BY <2>1, AlignUpBits, SmallPowers
<1> QED
  BY <1>1, HelperArguments, PTL

\* For any alignment the result is never below the value and less than one alignment
\* above it (helpers.c, libd_memory_align_up; linear_allocator.c:118).
THEOREM AlignUpAlwaysBounded == HelperCalls => []AlignUpBounded
<1>1. value \in Nat /\ unit \in 0 .. 255 => AlignUpBounded
  <2> SUFFICES ASSUME value \in Nat, unit \in Nat \ {0}
               PROVE  align_up(value, unit) \in value .. value + unit - 1
    BY DEF AlignUpBounded
  <2> QED
    BY AlignUpBits
<1> QED
  BY <1>1, HelperArguments, PTL
-----------------------------------------------------------------------------
\* The assumptions of LinearAllocator, and the hypotheses of its proofs, hold of the
\* sizes of this allocator.

LEMMA LinearConstants ==
    /\ U32 \in Nat /\ U32 > PageSize /\ MaxAddress \in Nat
    /\ PageSize \in Nat \ {0} /\ HeaderSize \in Nat \ {0}
    /\ HeaderSize % LAP!MaxAlign = 0 /\ PageSize % HeaderSize = 0
    /\ HeaderSize < PageSize
    /\ {Reservation} \subseteq 0 .. U32 - 1
    /\ {KiB} \subseteq 0 .. U32 - 1
    /\ AlignmentArgs \subseteq 0 .. 255
    /\ SizeArgs \subseteq 0 .. U32 - 1
    /\ 0 \in Nat
    /\ FALSE \in BOOLEAN
  BY ConstantsAssumption DEF ConstantsAssumption, LAP!MaxAlign, Reservation, KiB

LEMMA SizesFit ==
    ASSUME RoundsUp, PagesFit
    PROVE  LAP!ArgumentsFit
<1>1. /\ PageSize \in Nat \ {0} /\ HeaderSize \in Nat \ {0} /\ PageSize <= 8192
      /\ MaxAddress \in Nat /\ HeaderSize + 24576 + PageSize <= MaxAddress
  BY ConstantsAssumption DEF ConstantsAssumption, PagesFit, Reservation, KiB
<1>2. \A v \in 0 .. MaxAddress : RoundUp(v, PageSize) = LAP!AlignUp(v, PageSize)
  BY DEF RoundsUp
<1>3. LAP!AlignUp(1024, PageSize) \in Nat /\ LAP!AlignUp(1024, PageSize) <= 8192
  <2>1. CASE 1024 <= PageSize
    BY <1>1, <2>1, AlignUpWithinPage
  <2>2. CASE PageSize < 1024
    <3>1. LAP!AlignUp(1024, PageSize) \in Nat /\ LAP!AlignUp(1024, PageSize) < 1024 + PageSize
      BY <1>1, AlignUpBelow
    <3> QED
      BY <1>1, <2>2, <3>1
  <2> QED
    BY <1>1, <2>1, <2>2
<1>4. PICK first \in Nat : first = RoundUp(1024, PageSize) /\ first <= 8192
  BY <1>1, <1>2, <1>3
<1>5. RoundUp(HeaderSize + first, PageSize) <= RoundUp(HeaderSize + 8192, PageSize)
  <2>1. HeaderSize + first \in 0 .. MaxAddress /\ HeaderSize + 8192 \in 0 .. MaxAddress
    BY <1>1, <1>4
  <2>2. LAP!AlignUp(HeaderSize + first, PageSize) <= LAP!AlignUp(HeaderSize + 8192, PageSize)
    BY <1>1, <1>4, AlignUpMonotone
  <2> QED
    BY <1>2, <2>1, <2>2
<1>6. LAP!CapacitiesFit
  BY <1>4, <1>5 DEF LAP!CapacitiesFit, Reservation, KiB
<1>7. LAP!ReservationsFit
  BY ConstantsAssumption DEF ConstantsAssumption, LAP!ReservationsFit
<1>8. LAP!AddressesFit
  BY <1>1 DEF LAP!AddressesFit, Reservation, KiB
<1> QED
  BY <1>6, <1>7, <1>8 DEF LAP!ArgumentsFit

-----------------------------------------------------------------------------
\* The calls this code makes are calls of the linear allocator.

LEMMA CallsOfLinear ==
    /\ LA!Init => LAP!Init
    /\ \A align \in AlignmentArgs : LA!Create(FALSE, Reservation, KiB, align) => LAP!Next
    /\ LA!Destroy(FALSE) => LAP!Next
    /\ \A bytes \in SizeArgs : LA!Alloc(FALSE, bytes) => LAP!Next
    /\ LA!Reset(FALSE) => LAP!Next
    /\ \A error : LA!Refuse(error) => LAP!Refuse(error)
    /\ LA!NoArena => LAP!NoArena
<1> USE DEF LA!created, LAP!created, LA!fields, LAP!fields, LA!NoValue, LAP!NoValue,
        LA!Succeed, LAP!Succeed, LA!Refuse, LAP!Refuse, LA!NoArena, LAP!NoArena
<1>1. LA!Init => LAP!Init
  BY DEF LA!Init, LAP!Init
<1>2. ASSUME NEW align \in AlignmentArgs, LA!Create(FALSE, Reservation, KiB, align)
      PROVE  LAP!Next
  <2>1. LAP!Create(FALSE, Reservation, KiB, align)
    BY <1>2 DEF LA!Create, LAP!Create, LA!CreateArena, LAP!CreateArena, LA!MappingSize,
       LAP!MappingSize, LA!ValidAlignment, LAP!ValidAlignment, LA!PowersOfTwo,
       LAP!PowersOfTwo, LA!MaxAlign, LAP!MaxAlign
  <2> QED
    BY <2>1 DEF LAP!Next
<1>3. LA!Destroy(FALSE) => LAP!Next
  <2>1. LA!Destroy(FALSE) => LAP!Destroy(FALSE)
    BY DEF LA!Destroy, LAP!Destroy
  <2> QED
    BY <2>1 DEF LAP!Next
<1>4. ASSUME NEW bytes \in SizeArgs, LA!Alloc(FALSE, bytes)
      PROVE  LAP!Next
  <2>1. LAP!Alloc(FALSE, bytes)
    BY <1>4 DEF LA!Alloc, LAP!Alloc, LA!Grow, LAP!Grow, LA!Carve, LAP!Carve,
       LA!NewTotalSize, LAP!NewTotalSize, LA!total_reservation_size,
       LAP!total_reservation_size
  <2> QED
    BY <2>1 DEF LAP!Next
<1>5. LA!Reset(FALSE) => LAP!Next
  <2>1. LA!Reset(FALSE) => LAP!Reset(FALSE)
    BY DEF LA!Reset, LAP!Reset
  <2> QED
    BY <2>1 DEF LAP!Next
<1>6. \A error : LA!Refuse(error) => LAP!Refuse(error)
  OBVIOUS
<1>7. LA!NoArena => LAP!NoArena
  OBVIOUS
<1> QED
  BY <1>1, <1>2, <1>3, <1>4, <1>5, <1>6, <1>7

LEMMA LinearStep ==
    ASSUME RoundsUp, PagesFit, LAP!IInv, LAP!Next
    PROVE  LAP!IInv'
  BY LAP!NextKeepsInv, LinearConstants, SizesFit DEF RoundsUp

LEMMA RefuseStep ==
    ASSUME RoundsUp, LAP!IInv, LA!Refuse("invalid_parameter")
    PROVE  LAP!IInv'
<1>1. LAP!Refuse("invalid_parameter")
  BY CallsOfLinear
<1> QED
  BY <1>1, LAP!RefuseKeepsInv, LinearConstants DEF RoundsUp

LEMMA CreateKeepsInv ==
    ASSUME RoundsUp, PagesFit, IInv, NEW align \in AlignmentArgs, Create(align)
    PROVE  IInv'
<1>1. LAP!IInv'
  BY CallsOfLinear, LinearStep DEF IInv, Create
<1>2. mapped' > 0 <=> result' = "ok"
  BY DEF Create, IInv, LA!Create, LA!created, LA!Refuse, LA!CreateArena, LA!Succeed
<1>3. /\ a' = (IF result' = "ok" THEN ARENA ELSE a) /\ methods' \in BOOLEAN
      /\ returned' \in {"ok", "no_memory"}
  BY DEF Create, IInv, Code
<1>4. a' # NULL <=> mapped' > 0
  BY <1>2, <1>3, ConstantsAssumption DEF IInv, Create, ConstantsAssumption
<1> QED
  BY <1>1, <1>3, <1>4 DEF IInv

LEMMA AllocKeepsInv ==
    ASSUME RoundsUp, PagesFit, IInv, NEW bytes \in SizeArgs, Alloc(bytes)
    PROVE  IInv'
<1>1. LAP!IInv'
  BY CallsOfLinear, LinearStep, RefuseStep DEF IInv, Alloc
<1>2. mapped' = mapped
  BY DEF Alloc, LA!Alloc, LA!Refuse
<1> QED
  BY <1>1, <1>2 DEF IInv, Alloc

LEMMA ResetKeepsInv ==
    ASSUME RoundsUp, PagesFit, IInv, Reset
    PROVE  IInv'
<1>1. LAP!IInv'
  BY CallsOfLinear, LinearStep, RefuseStep DEF IInv, Reset
<1>2. mapped' = mapped
  BY DEF Reset, LA!Reset, LA!Refuse
<1> QED
  BY <1>1, <1>2 DEF IInv, Reset

LEMMA DestroyKeepsInv ==
    ASSUME RoundsUp, PagesFit, IInv, Destroy
    PROVE  IInv'
<1>1. LAP!IInv'
  <2>1. CASE LA!Refuse("invalid_parameter")
    BY <2>1, RefuseStep DEF IInv
  <2>2. CASE LA!Destroy(FALSE)
    BY <2>2, CallsOfLinear, LinearStep DEF IInv
  <2>3. CASE LA!NoArena /\ result' = "err" /\ out' = LA!NoValue
    BY <2>3, CallsOfLinear, LAP!NoArenaKeepsInv, LinearConstants
       DEF IInv, RoundsUp, LA!NoValue, LAP!NoValue
  <2> QED
    BY <2>1, <2>2, <2>3 DEF Destroy
<1>2. ~(mapped' > 0)
  BY DEF Destroy, IInv, LA!Destroy, LA!NoArena, LA!Refuse
<1> QED
  BY <1>1, <1>2 DEF IInv, Destroy

LEMMA InvariantHolds ==
    ASSUME RoundsUp, PagesFit
    PROVE  Spec => []IInv
<1>1. Init => IInv
  <2> SUFFICES ASSUME Init PROVE IInv
    OBVIOUS
  <2>1. LAP!IInv
    BY CallsOfLinear, LAP!InitInv, LinearConstants DEF Init, RoundsUp
  <2>2. a = NULL /\ methods = FALSE /\ returned = "none" /\ mapped = 0
    BY DEF Init, LA!Init
  <2>3. ~(mapped > 0)
    BY <2>2
  <2> QED
    BY <2>1, <2>2, <2>3 DEF IInv
<1>2. IInv /\ [Next]_vars => IInv'
  <2> SUFFICES ASSUME IInv, [Next]_vars PROVE IInv'
    OBVIOUS
  <2>1. CASE Next
    BY <2>1, CreateKeepsInv, AllocKeepsInv, ResetKeepsInv, DestroyKeepsInv DEF Next
  <2>2. CASE UNCHANGED vars
    <3>1. LAP!IInv'
      BY <2>2, LAP!NextKeepsInv, LinearConstants, SizesFit
         DEF IInv, RoundsUp, vars, arena, LAP!vars, LAP!fields
    <3> QED
      BY <2>2, <3>1 DEF IInv, vars, arena
  <2> QED
    BY <2>1, <2>2
<1> QED
  BY <1>1, <1>2, PTL DEF Spec
-----------------------------------------------------------------------------
\* The handle is never one of memory that is not mapped, and the header behind it is
\* accessible, after any sequence of calls that hide their failures
\* (allocator_wrap.c:44-45).
THEOREM HandleAlwaysValid ==
    ASSUME RoundsUp, PagesFit
    PROVE  Spec => []HandleValid
<1>1. ASSUME IInv, a # NULL
      PROVE  mapped > 0 /\ committed >= HeaderSize
  <2>1. mapped > 0 /\ LAP!created
    BY <1>1 DEF IInv, LAP!created
  <2>2. curr_data_size > 0 /\ HeaderSize + curr_data_size <= committed
    BY <1>1, <2>1 DEF IInv, LAP!IInv, LAP!DataWithinMapping
  <2>3. curr_data_size \in Nat /\ committed \in Nat /\ HeaderSize \in Nat
    BY <1>1, ConstantsAssumption DEF IInv, LAP!IInv, LAP!TypeOK, ConstantsAssumption
  <2> QED
    BY <2>1, <2>2, <2>3
<1>2. IInv => HandleValid
  BY <1>1 DEF HandleValid, LA!created
<1> QED
  BY <1>2, InvariantHolds, PTL

\* With pages that fit the reservation, the arena stays within its own mapping.
THEOREM UsesOwnMemoryOnly ==
    ASSUME RoundsUp, PagesFit
    PROVE  Spec => []OwnMemoryOnly
<1>1. IInv => OwnMemoryOnly
  BY DEF IInv, LAP!IInv, LAP!DataWithinMapping, LAP!created, OwnMemoryOnly,
     LA!CommittedWithinMapping, LA!created
<1> QED
  BY <1>1, InvariantHolds, PTL

\* The blocks and their rounding take the bytes below the head.
LEMMA UsedIsHead ==
    ASSUME RoundsUp, IInv
    PROVE  head_index \in Nat /\ Used = head_index
<1>1. LAP!TypeOK /\ LAP!BlocksStacked
  BY DEF IInv, LAP!IInv
<1>2. PICK n \in Nat : n = Len(blocks)
  BY <1>1, LAP!ArenaTypes, LinearConstants DEF RoundsUp
<1>3. head_index \in Nat /\ head_index = LAP!Top(n)
  BY <1>1, <1>2, LAP!ArenaTypes, LinearConstants DEF RoundsUp, LAP!BlocksStacked
<1>4. blocks = <<>> <=> n = 0
  BY <1>1, <1>2, EmptySeq DEF LAP!TypeOK
<1>5. CASE n = 0
  BY <1>3, <1>4, <1>5 DEF Used, LAP!Top
<1>6. CASE n # 0
  <2>0. n \in DOMAIN blocks
    <3>1. DOMAIN blocks = 1 .. Len(blocks)
      BY <1>1, LAP!ArenaTypes, LinearConstants DEF RoundsUp
    <3> QED
      BY <1>2, <1>6, <3>1
  <2>1. PICK end \in Nat : end = LAP!End(blocks[n])
    <3>1. LAP!End(blocks[n]) \in Nat
      BY <1>1, <2>0, LAP!ArenaTypes, LinearConstants DEF RoundsUp
    <3> QED
      BY <3>1
  <2>2. end <= head_index /\ head_index <= MaxAddress
    <3>1. n \in 0 .. Len(blocks) /\ n > 0
      BY <1>2, <1>6
    <3>2. LAP!End(blocks[n]) <= LAP!Top(n)
      BY <1>1, <3>1, LAP!Tops, LinearConstants DEF RoundsUp
    <3> QED
      BY <1>1, <1>3, <2>1, <3>2 DEF LAP!TypeOK
  <2>3. RoundUp(end, alignment) = LAP!AlignUp(end, alignment)
    <3>1. end \in 0 .. MaxAddress
      BY <1>3, <2>1, <2>2, ConstantsAssumption DEF ConstantsAssumption
    <3>2. alignment \in LAP!PowersOfTwo
      BY <1>1 DEF LAP!TypeOK, LAP!ValidAlignment
    <3> QED
      BY <3>1, <3>2 DEF RoundsUp
  <2> QED
    BY <1>2, <1>3, <1>4, <1>6, <2>1, <2>3 DEF Used, LAP!Top, LAP!End
<1> QED
  BY <1>3, <1>5, <1>6

\* An allocation is refused only when it does not fit.
LEMMA RefusedWhenFull ==
    ASSUME RoundsUp, IInv, NEW bytes \in SizeArgs,
           a # NULL, LA!Alloc(FALSE, bytes), result' # "ok"
    PROVE  LA!Refuse("no_memory") /\ head_index + bytes > Reservation
<1>1. LA!Refuse("no_memory") /\ data_reservation_size < head_index + bytes
  BY DEF LA!Alloc, LA!Carve, LA!Succeed
<1>2. data_reservation_size = Reservation
  BY DEF IInv, LAP!IInv, LAP!DataWithinMapping, LAP!created
<1>3. head_index \in Nat /\ bytes \in Nat
  BY UsedIsHead, ConstantsAssumption DEF ConstantsAssumption
<1> QED
  BY <1>1, <1>2, <1>3 DEF Reservation, KiB

\* The client gets the whole reservation (filepath_allocator.c:9).
THEOREM ReservationServed ==
    ASSUME RoundsUp, PagesFit
    PROVE  Spec => ServesReservation
<1> DEFINE Served == \A bytes \in SizeArgs :
                        (a # NULL /\ Alloc(bytes) /\ returned' = "null") =>
                            Used + bytes > Reservation
<1>1. IInv => Served
  <2> SUFFICES ASSUME IInv, NEW bytes \in SizeArgs, a # NULL, Alloc(bytes), returned' = "null"
               PROVE  Used + bytes > Reservation
    OBVIOUS
  <2>1. LA!Alloc(FALSE, bytes) /\ result' # "ok"
    BY DEF Alloc
  <2> QED
    BY <2>1, RefusedWhenFull, UsedIsHead
<1> QED
  BY <1>1, InvariantHolds, PTL DEF ServesReservation
-----------------------------------------------------------------------------
\* The file path allocator implements Arena.

USE DEF Abstract!ValidAlignment, Abstract!PowersOfTwo, Abstract!MaxAlign

\* What clients hold is there exactly while the handle is set.
LEMMA ClientView ==
    ASSUME IInv
    PROVE  /\ savepoints = <<>>
           /\ a = NULL => blocks = <<>> /\ alignment = 1
           /\ a # NULL => data_reservation_size = Reservation
<1>1. savepoints = <<>>
  BY EmptySeq DEF IInv, LAP!IInv, LAP!TypeOK
<1>2. ASSUME a = NULL
      PROVE  blocks = <<>> /\ alignment = 1
  BY <1>2 DEF IInv, LAP!IInv, LAP!NothingWithoutArena, LAP!created
<1>3. ASSUME a # NULL
      PROVE  data_reservation_size = Reservation
  BY <1>3 DEF IInv, LAP!IInv, LAP!DataWithinMapping, LAP!created
<1> QED
  BY <1>1, <1>2, <1>3

\* The bytes of the live blocks, as the abstract arena counts them.
LEMMA AbstractUsed ==
    ASSUME RoundsUp, IInv
    PROVE  Abstract!Used = head_index
<1>1. LAP!Abstract!Used = head_index
  BY LAP!UsedIsHead, LinearConstants DEF IInv, RoundsUp
<1> QED
  BY <1>1 DEF Abstract!Used, LAP!Abstract!Used, Abstract!AlignUp, LAP!Abstract!AlignUp,
     Abstract!End, LAP!Abstract!End

LEMMA SomeSize ==
    \E bytes \in SizeArgs : bytes > 0
<1>1. PICK bytes : bytes \in SizeArgs \ {0}
  BY ConstantsAssumption DEF ConstantsAssumption
<1>2. bytes \in 0 .. U32 - 1
  BY <1>1, ConstantsAssumption DEF ConstantsAssumption
<1>3. bytes > 0
  BY <1>1, <1>2
<1> QED
  BY <1>1, <1>3

LEMMA CreateRefines ==
    ASSUME RoundsUp, IInv, IInv', NEW align \in AlignmentArgs, Create(align)
    PROVE  Abstract!Next
<1>1. CASE result' = "ok"
  <2>1. /\ blocks' = <<>> /\ blocks = <<>> /\ savepoints' = <<>> /\ savepoints = <<>>
        /\ alignment' = align /\ LA!ValidAlignment(align)
    BY <1>1, ClientView DEF Create, LA!Create, LA!CreateArena, LA!Refuse
  <2>2. a = NULL /\ a' # NULL /\ returned' = "ok"
    BY <1>1, ConstantsAssumption DEF Create, Code, ConstantsAssumption
  <2>3. Abstract!Create
    BY <2>1, <2>2 DEF Abstract!Create, LA!ValidAlignment, LA!PowersOfTwo, LA!MaxAlign,
       Reservation, KiB
  <2> QED
    BY <2>3 DEF Abstract!Next
<1>2. CASE result' # "ok"
  <2>1. /\ UNCHANGED <<a, blocks, savepoints, alignment>>
        /\ a = NULL /\ returned' = "no_memory"
    BY <1>2 DEF Create, Code, LA!Create, LA!CreateArena, LA!Succeed, LA!Refuse, LA!fields
  <2>2. PICK bytes \in SizeArgs : bytes > 0
    BY SomeSize
  <2>3. Abstract!Used + bytes > 0
    BY <2>2, AbstractUsed, UsedIsHead, ConstantsAssumption DEF ConstantsAssumption
  <2>4. Abstract!Fail("no_memory")
    BY <2>1, <2>3 DEF Abstract!Fail
  <2> QED
    BY <2>4 DEF Abstract!Next, Abstract!Errors
<1> QED
  BY <1>1, <1>2

LEMMA ObserveRefines ==
    ASSUME returned' = "ok", UNCHANGED <<a, alignment, blocks, savepoints>>
    PROVE  Abstract!Next
<1>1. Abstract!Observe
  BY DEF Abstract!Observe
<1> QED
  BY <1>1 DEF Abstract!Next

LEMMA RefuseRefines ==
    ASSUME returned' = "null", UNCHANGED <<a, alignment, blocks, savepoints>>,
           \E size \in SizeArgs :
               Abstract!Used + size > (IF a = NULL THEN 0 ELSE Reservation)
    PROVE  Abstract!Next
<1>1. Abstract!Fail("no_memory")
  BY DEF Abstract!Fail
<1> QED
  BY <1>1 DEF Abstract!Next, Abstract!Errors

LEMMA AllocRefines ==
    ASSUME RoundsUp, IInv, NEW bytes \in SizeArgs, Alloc(bytes)
    PROVE  Abstract!Next
<1> USE DEF LA!fields
<1>1. CASE a = NULL
  <2>1. returned' = "null" /\ UNCHANGED <<a, alignment, blocks, savepoints>>
    BY <1>1 DEF Alloc, LA!Refuse
  <2>2. PICK size \in SizeArgs : size > 0
    BY SomeSize
  <2>3. Abstract!Used + size > 0
    BY <2>2, AbstractUsed, UsedIsHead, ConstantsAssumption DEF ConstantsAssumption
  <2> QED
    BY <1>1, <2>1, <2>3, RefuseRefines
<1>2. CASE a # NULL /\ result' # "ok"
  <2>1. LA!Alloc(FALSE, bytes) /\ returned' = "null" /\ UNCHANGED a
    BY <1>2 DEF Alloc
  <2>2. LA!Refuse("no_memory") /\ Abstract!Used + bytes > Reservation
    BY <1>2, <2>1, RefusedWhenFull, AbstractUsed
  <2> QED
    BY <1>2, <2>1, <2>2, RefuseRefines DEF LA!Refuse
<1>3. CASE a # NULL /\ result' = "ok"
  <2>1. UNCHANGED <<a, alignment, savepoints>>
    BY <1>3 DEF Alloc, LA!Alloc, LA!Refuse
  <2>2. LA!Carve(bytes) /\ returned' = "pointer"
    BY <1>3 DEF Alloc, LA!Alloc, LA!Refuse
  <2>3. CASE bytes = 0
    <3>1. blocks' = blocks
      BY <2>2, <2>3 DEF LA!Carve
    <3>2. Abstract!Observe
      BY <2>1, <2>2, <3>1 DEF Abstract!Observe
    <3> QED
      BY <3>2 DEF Abstract!Next
  <2>4. CASE bytes # 0
    <3>1. PICK n, b, bs : /\ n \in Nat /\ n = Len(blocks) /\ bs = blocks'
                          /\ b = [start |-> head_index, size |-> bytes]
      BY LAP!ArenaTypes, LinearConstants DEF IInv, LAP!IInv, RoundsUp
    <3>2. LAP!Carve(bytes)
      BY <2>2 DEF LA!Carve, LAP!Carve, LA!Succeed, LAP!Succeed
    <3>3. /\ Len(bs) = n + 1 /\ SubSeq(bs, 1, n) = blocks
          /\ bs[n + 1] = b /\ b.start % alignment = 0
          /\ \A i \in DOMAIN blocks : LAP!End(blocks[i]) <= b.start
      BY <2>4, <3>1, <3>2, LAP!CarveAppends, LinearConstants DEF IInv, RoundsUp
    <3>4. ASSUME NEW i \in DOMAIN blocks
          PROVE  ~Abstract!Overlap(blocks[i], b)
      <4>1. LAP!End(blocks[i]) \in Nat /\ head_index \in Nat
        BY LAP!ArenaTypes, LinearConstants DEF IInv, LAP!IInv, RoundsUp
      <4> QED
        BY <3>1, <3>3, <4>1 DEF Abstract!Overlap, Abstract!End, LAP!End
    <3>5. Abstract!Alloc
      BY <2>1, <2>2, <2>4, <3>1, <3>3, <3>4 DEF Abstract!Alloc
    <3> QED
      BY <3>5 DEF Abstract!Next
  <2> QED
    BY <2>3, <2>4
<1> QED
  BY <1>1, <1>2, <1>3

LEMMA ResetRefines ==
    ASSUME IInv, Reset
    PROVE  Abstract!Next
<1>1. CASE LA!Refuse("invalid_parameter")
  BY <1>1, ObserveRefines DEF Reset, LA!Refuse, LA!fields
<1>2. CASE blocks' = <<>> /\ savepoints' = <<>> /\ UNCHANGED alignment
  <2>1. Abstract!Reset
    BY <1>2 DEF Abstract!Reset, Reset
  <2> QED
    BY <2>1 DEF Abstract!Next
<1> QED
  BY <1>1, <1>2 DEF Reset, LA!Reset

\* A destroy that fails is one to the client.
LEMMA DestroyRefines ==
    ASSUME IInv, Destroy
    PROVE  Abstract!Next
<1>1. CASE a = NULL
  BY <1>1, ObserveRefines DEF Destroy, LA!Refuse, LA!fields
<1>2. CASE a # NULL
  <2>1. blocks' = <<>> /\ savepoints' = <<>> /\ alignment' = 1
    BY <1>2 DEF Destroy, LA!Destroy, LA!NoArena, LA!Refuse
  <2>2. Abstract!Destroy
    BY <1>2, <2>1 DEF Destroy, Abstract!Destroy, Reservation, KiB
  <2> QED
    BY <2>2 DEF Abstract!Next
<1> QED
  BY <1>1, <1>2

\* Although it drops every code of the allocator behind it and accepts calls after
\* destroy, the file path allocator implements Arena without savepoints: blocks stay
\* aligned and disjoint, a failing call changes nothing, and only one that does not
\* fit fails.
THEOREM FilepathImplementsArena ==
    ASSUME RoundsUp, PagesFit
    PROVE  Spec => ImplementsArena
<1>1. Init => Abstract!Init
  BY DEF Init, LA!Init, Abstract!Init
<1>2. ASSUME IInv, IInv', Next
      PROVE  Abstract!Next
  BY <1>2, CreateRefines, AllocRefines, ResetRefines, DestroyRefines DEF Next
<1>3. IInv /\ UNCHANGED vars => UNCHANGED Abstract!vars
  BY DEF vars, arena, Abstract!vars
<1>4. IInv /\ IInv' /\ [Next]_vars => [Abstract!Next]_(Abstract!vars)
  BY <1>2, <1>3
<1> QED
  BY <1>1, <1>4, InvariantHolds, PTL DEF Spec, ImplementsArena, Abstract!Spec
=============================================================================
