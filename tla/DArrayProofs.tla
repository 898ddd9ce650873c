------------------------------ MODULE DArrayProofs ------------------------------
(****************************************************************************)
(* Proofs about DArray, for arrays and writes of any length, elements of    *)
(* any size and every address malloc and realloc return.                    *)
(*                                                                          *)
(* The hypothesis is what the code leaves to its client: that the bytes of  *)
(* an array do not wrap in size_t.  DArrayWraps shows what happens without  *)
(* it.                                                                      *)
(****************************************************************************)
EXTENDS DArray, SequenceTheorems, TLAPS

\* The bytes of n elements do not wrap.
Fitting(n) == n * ElemSize < SizeMod

\* A client asks for no capacity, and writes behind no position, whose bytes wrap; a
\* new capacity is less than twice the elements it is for.
SizesFit ==
    /\ \A cap \in Capacities : Fitting(cap)
    /\ Fitting(2 * MaxElems)

Cells == Elems \cup {JUNK}

Calls == [i : Nat, n : Nat, items : Seq(Elems), from : Blocks \cup {NULL},
          first : Nat, new_cap : Nat]

Types ==
    /\ capacity \in Nat
    /\ size \in Nat
    /\ dat \in Blocks \cup {NULL}
    /\ heap \in [Blocks -> Seq(Cells) \cup {NULL}]
    /\ pc \in {"idle", "grow", "undefined"}
    /\ call \in Calls
    /\ out \in Elems \cup {NoElem}
    /\ result \in {Ok, NoMemory, OutOfRange, NullPointer}

\* The block has exactly the capacity the array believes in.
ArrayInv ==
    /\ ~created => capacity = 0 /\ size = 0 /\ pc = "idle"
    /\ created => /\ capacity > 0 /\ Fitting(capacity) /\ size <= capacity
                  /\ heap[dat] \in Seq(Cells) /\ Len(heap[dat]) = capacity
                  /\ \A k \in 1 .. size : heap[dat][k] \in Elems
    /\ NothingLeaks

\* Where the write of a call that has begun comes from and goes to.
CallInv ==
    /\ pc = "grow" =>
          /\ call.i <= size /\ call.i + call.n <= MaxElems
          /\ Fitting(call.new_cap) /\ call.new_cap >= capacity
          /\ call.new_cap # capacity => /\ capacity < call.i + call.n
                                        /\ call.new_cap < 2 * (call.i + call.n)
          /\ call.from = NULL => call.items \in Writes /\ call.n = Len(call.items)
          /\ call.from # NULL => /\ call.from = dat /\ call.n > 0
                                 /\ call.first + call.n <= size
    /\ UndefinedOnlyAliased

(****************************************************************************)
(* The inductive invariant.  BlockHoldsElements is not inductive: a growth  *)
(* needs that the capacity it has reached is enough for the write and does  *)
(* not wrap, and a copy that what it reads lies in the array until realloc  *)
(* moves that.                                                              *)
(****************************************************************************)
IInv == Types /\ ArrayInv /\ CallInv
-----------------------------------------------------------------------------
\* Arithmetic of sizes.

LEMMA DivisionRemainder ==
    ASSUME NEW v \in Nat, NEW p \in Nat \ {0}
    PROVE  /\ v = p * (v \div p) + (v % p)
           /\ v % p \in 0 .. p - 1
           /\ v \div p \in Nat
  OBVIOUS

LEMMA MultiplesApart ==
    ASSUME NEW p \in Nat \ {0}, NEW q \in Nat, NEW r \in Nat, q < r
    PROVE  q * p \in Nat /\ r * p \in Nat /\ q * p + p <= r * p
<1>1. PICK d \in Nat : r = q + 1 + d
  <2>1. r - q - 1 \in Nat /\ r = q + 1 + (r - q - 1)
    OBVIOUS
  <2> QED
    BY <2>1
<1>2. r * p = q * p + p + d * p /\ q * p \in Nat /\ d * p \in Nat
  BY <1>1
<1> QED
  BY <1>2

LEMMA Sizes ==
    /\ SizeMod \in Nat \ {0} /\ ElemSize \in Nat \ {0} /\ MaxElems \in Nat
    /\ NULL \notin Blocks /\ NULL \notin Seq(Cells)
  BY ConstantsAssumption DEF ConstantsAssumption, Cells

LEMMA FittingSmaller ==
    ASSUME NEW n \in Nat, NEW m \in Nat, n <= m, Fitting(m)
    PROVE  Fitting(n) /\ n < SizeMod
<1>1. PICK x \in Nat, y \in Nat : x = n * ElemSize /\ y = m * ElemSize
  BY Sizes
<1>2. x <= y
  <2>1. CASE n = m
    BY <1>1, <2>1
  <2>2. CASE n < m
    BY <1>1, <2>2, MultiplesApart, Sizes
  <2> QED
    BY <2>1, <2>2
<1>3. n <= x
  <2>1. PICK e \in Nat : ElemSize = e + 1
    <3>1. ElemSize - 1 \in Nat /\ ElemSize = (ElemSize - 1) + 1
      BY Sizes
    <3> QED
      BY <3>1
  <2>2. n * (e + 1) = n * e + n /\ n * e \in Nat
    OBVIOUS
  <2> QED
    BY <1>1, <2>1, <2>2
<1>4. y < SizeMod
  BY <1>1 DEF Fitting
<1> QED
  BY <1>1, <1>2, <1>3, <1>4, Sizes DEF Fitting

LEMMA WholeOfFitting ==
    ASSUME NEW n \in Nat, Fitting(n)
    PROVE  Whole(n) = n
<1>1. PICK x \in Nat : x = n * ElemSize
  BY Sizes
<1>2. x % SizeMod = x
  BY <1>1, Sizes DEF Fitting
<1>3. PICK q \in Nat, r \in 0 .. ElemSize - 1 : q = x \div ElemSize /\ x = ElemSize * q + r
  BY <1>1, Sizes, DivisionRemainder
<1>4. ElemSize * q = q * ElemSize /\ q * ElemSize \in Nat
  BY Sizes
<1>5. PICK y \in Nat : y = q * ElemSize
  BY <1>4
<1>6. ~(q < n)
  BY <1>1, <1>3, <1>4, <1>5, MultiplesApart, Sizes
<1>7. ~(n < q)
  BY <1>1, <1>3, <1>4, <1>5, MultiplesApart, Sizes
<1>8. q = n
  BY <1>6, <1>7
<1> QED
  BY <1>1, <1>2, <1>3, <1>8 DEF Whole
-----------------------------------------------------------------------------
\* Sequences.

LEMMA SeqOfFunction ==
    ASSUME NEW S, NEW n \in Nat, NEW f \in [1 .. n -> S]
    PROVE  f \in Seq(S) /\ Len(f) = n /\ DOMAIN f = 1 .. n
<1>1. f \in Seq(S)
  BY SeqDef
<1>2. DOMAIN f = 1 .. n /\ DOMAIN f = 1 .. Len(f) /\ Len(f) \in Nat
  BY <1>1, LenProperties
<1> QED
  BY <1>1, <1>2

\* A part of a sequence; it is empty when its end lies before its beginning.
LEMMA PartOfSeq ==
    ASSUME NEW S, NEW s \in Seq(S), NEW m \in Nat, NEW n \in Nat, n <= Len(s)
    PROVE  /\ SubSeq(s, m + 1, n) \in Seq(S)
           /\ Len(SubSeq(s, m + 1, n)) = IF m < n THEN n - m ELSE 0
           /\ \A k \in 1 .. n - m : SubSeq(s, m + 1, n)[k] = s[m + k]
<1>1. \A k \in m + 1 .. n : s[k] \in S
  <2> TAKE k \in m + 1 .. n
  <2>1. k \in 1 .. Len(s)
    BY LenProperties
  <2> QED
    BY <2>1, ElementOfSeq
<1>2. /\ SubSeq(s, m + 1, n) \in Seq(S)
      /\ Len(SubSeq(s, m + 1, n)) = IF m + 1 <= n THEN n - (m + 1) + 1 ELSE 0
      /\ \A k \in 1 .. n - (m + 1) + 1 : SubSeq(s, m + 1, n)[k] = s[(m + 1) + k - 1]
  BY <1>1, SubSeqProperties, m + 1 \in Int, n \in Int
<1>3. n - (m + 1) + 1 = n - m /\ (m + 1 <= n <=> m < n)
  OBVIOUS
<1>4. \A k \in 1 .. n - m : (m + 1) + k - 1 = m + k
  OBVIOUS
<1> QED
  BY <1>2, <1>3, <1>4
-----------------------------------------------------------------------------
\* What the invariant says of a call that has begun.

contents == SubSeq(heap[dat], 1, size)

\* The first elements of a block.
LEMMA BeginningOfBlock ==
    ASSUME NEW s \in Seq(Cells), NEW z \in Nat, z <= Len(s), \A k \in 1 .. z : s[k] \in Elems
    PROVE  /\ SubSeq(s, 1, z) \in Seq(Elems) /\ Len(SubSeq(s, 1, z)) = z
           /\ \A k \in 1 .. z : SubSeq(s, 1, z)[k] = s[k]
<1>1. /\ SubSeq(s, 1, z) \in Seq(Elems)
      /\ Len(SubSeq(s, 1, z)) = IF 1 <= z THEN z - 1 + 1 ELSE 0
      /\ \A k \in 1 .. z - 1 + 1 : SubSeq(s, 1, z)[k] = s[1 + k - 1]
  BY SubSeqProperties
<1>2. \A k \in 1 .. z : 1 + k - 1 = k
  OBVIOUS
<1> QED
  BY <1>1, <1>2

LEMMA Contents ==
    ASSUME IInv, created
    PROVE  /\ contents \in Seq(Elems) /\ Len(contents) = size
           /\ \A k \in 1 .. size : contents[k] = heap[dat][k]
<1>1. /\ size \in Nat /\ heap[dat] \in Seq(Cells) /\ size <= Len(heap[dat])
      /\ \A k \in 1 .. size : heap[dat][k] \in Elems
  BY DEF IInv, Types, ArrayInv
<1> QED
  BY <1>1, BeginningOfBlock DEF contents

\* What a write stores: elements of the client's, or some of the array's own.
Source == IF call.from = NULL THEN call.items
          ELSE SubSeq(contents, call.first + 1, call.first + call.n)

LEMMA CallTypes ==
    ASSUME IInv, pc = "grow"
    PROVE  /\ call.i \in Nat /\ call.n \in Nat /\ call.first \in Nat /\ call.new_cap \in Nat
           /\ call.items \in Seq(Elems) /\ call.from \in Blocks \cup {NULL}
           /\ call.i <= size /\ call.i + call.n <= MaxElems
           /\ size \in Nat /\ capacity \in Nat /\ size <= capacity /\ capacity <= call.new_cap
           /\ Fitting(call.new_cap) /\ Whole(call.new_cap) = call.new_cap
           /\ SizesFit => /\ End = call.i + call.n /\ Whole(call.n) = call.n
                          /\ 2 * End < SizeMod /\ Fitting(2 * End)
           /\ created /\ dat \in Blocks
<1>1. /\ call.i \in Nat /\ call.n \in Nat /\ call.first \in Nat /\ call.new_cap \in Nat
      /\ call.items \in Seq(Elems) /\ call.from \in Blocks \cup {NULL}
      /\ size \in Nat /\ capacity \in Nat
  BY DEF IInv, Types, Calls
<1>2. /\ call.i <= size /\ call.i + call.n <= MaxElems
      /\ capacity <= call.new_cap /\ Fitting(call.new_cap)
  BY DEF IInv, CallInv
<1>3. Whole(call.new_cap) = call.new_cap
  BY <1>1, <1>2, WholeOfFitting
<1>4. ASSUME SizesFit
      PROVE  /\ End = call.i + call.n /\ Whole(call.n) = call.n
             /\ 2 * End < SizeMod /\ Fitting(2 * End)
  <2>0. call.i + call.n \in Nat
    BY <1>1
  <2>1. PICK m, end, n : /\ m \in Nat /\ end \in Nat /\ n \in Nat
                         /\ m = MaxElems /\ end = call.i + call.n /\ n = call.n
    BY <1>1, <2>0, Sizes
  <2>2. Fitting(2 * m) /\ end <= m /\ n <= m
    BY <1>1, <1>2, <1>4, <2>1 DEF SizesFit
  <2>3. Fitting(2 * end) /\ 2 * end < SizeMod
    BY <2>1, <2>2, FittingSmaller, 2 * end \in Nat, 2 * m \in Nat, 2 * end <= 2 * m
  <2>4. Fitting(n)
    BY <2>1, <2>2, FittingSmaller, 2 * m \in Nat, n <= 2 * m
  <2>5. End = end
    BY <2>1, <2>3, Sizes DEF End
  <2> QED
    BY <2>1, <2>3, <2>4, <2>5, WholeOfFitting
<1>5. created /\ dat \in Blocks
  BY DEF IInv, Types, ArrayInv, created
<1>6. size <= capacity
  BY <1>5 DEF IInv, ArrayInv
<1> QED
  BY <1>1, <1>2, <1>3, <1>4, <1>5, <1>6

\* Elements of the array, in a block that begins with what the array's block has.
LEMMA PartOfArray ==
    ASSUME IInv, created, NEW s \in Seq(Cells), size <= Len(s),
           \A k \in 1 .. size : s[k] = heap[dat][k],
           NEW first \in Nat, NEW n \in Nat, n > 0, first + n <= size
    PROVE  /\ SubSeq(contents, first + 1, first + n) \in Seq(Elems)
           /\ Len(SubSeq(contents, first + 1, first + n)) = n
           /\ SubSeq(s, first + 1, first + n) = SubSeq(contents, first + 1, first + n)
<1>1. PICK z \in Nat : z = size /\ first + n <= z /\ z <= Len(s)
  BY DEF IInv, Types
<1>2. Len(s) \in Nat
  BY LenProperties
<1>3. PICK c \in Seq(Elems) : /\ c = contents /\ Len(c) = z
                              /\ \A k \in 1 .. z : c[k] = s[k]
  BY <1>1, Contents
<1>4. first + n \in Nat /\ first < first + n /\ first + n - first = n
  OBVIOUS
<1>5. /\ SubSeq(c, first + 1, first + n) \in Seq(Elems)
      /\ Len(SubSeq(c, first + 1, first + n)) = n
      /\ \A k \in 1 .. n : SubSeq(c, first + 1, first + n)[k] = c[first + k]
  BY <1>1, <1>3, <1>4, PartOfSeq
<1>6. first + n <= Len(s)
  BY <1>1, <1>2, <1>4
<1>7. /\ SubSeq(s, first + 1, first + n) \in Seq(Cells)
      /\ Len(SubSeq(s, first + 1, first + n)) = n
      /\ \A k \in 1 .. n : SubSeq(s, first + 1, first + n)[k] = s[first + k]
  BY <1>4, <1>6, PartOfSeq
<1>8. \A k \in 1 .. n : first + k \in 1 .. z
  BY <1>1
<1>9. \A k \in 1 .. n : c[first + k] = s[first + k]
  BY <1>3, <1>8
<1>10. SubSeq(c, first + 1, first + n) \in Seq(Cells)
  BY <1>5, SeqMonotonic, Elems \subseteq Cells DEF Cells
<1>11. SubSeq(c, first + 1, first + n) = SubSeq(s, first + 1, first + n)
  BY <1>5, <1>7, <1>9, <1>10, SeqEqual
<1> QED
  BY <1>3, <1>5, <1>11

LEMMA SourceTypes ==
    ASSUME IInv, pc = "grow"
    PROVE  Source \in Seq(Elems) /\ Len(Source) = call.n
<1>1. CASE call.from = NULL
  BY <1>1, CallTypes DEF IInv, CallInv, Source
<1>2. CASE call.from # NULL
  <2>1. PICK first \in Nat, n \in Nat : /\ first = call.first /\ n = call.n /\ n > 0
                                        /\ first + n <= size
    BY <1>2, CallTypes DEF IInv, CallInv
  <2>2. PICK s \in Seq(Cells) : s = heap[dat] /\ size <= Len(s)
    BY CallTypes DEF IInv, ArrayInv
  <2>3. created /\ \A k \in 1 .. size : s[k] = heap[dat][k]
    BY <2>2, CallTypes
  <2>4. /\ SubSeq(contents, first + 1, first + n) \in Seq(Elems)
        /\ Len(SubSeq(contents, first + 1, first + n)) = n
    BY <2>1, <2>2, <2>3, PartOfArray
  <2> QED
    BY <1>2, <2>1, <2>4 DEF Source
<1> QED
  BY <1>1, <1>2

\* What memcpy copies is the source, when that is still in the array's block.
LEMMA SourceIs ==
    ASSUME IInv, SizesFit, pc = "grow", NEW h, NEW b, h[b] \in Seq(Cells), size <= Len(h[b]),
           \A k \in 1 .. size : h[b][k] = heap[dat][k], call.from # NULL => call.from = b
    PROVE  Copied(h) = Source
<1>1. CASE call.from = NULL
  <2>1. Len(call.items) = call.n /\ call.items \in Seq(Elems) /\ Whole(call.n) = call.n
    BY <1>1, CallTypes DEF IInv, CallInv
  <2>2. SubSeq(call.items, 1, Len(call.items)) = call.items
    BY <2>1, SubSeqFull
  <2> QED
    BY <1>1, <2>1, <2>2 DEF Source, Copied
<1>2. CASE call.from # NULL
  <2>1. PICK first \in Nat, n \in Nat : /\ first = call.first /\ n = call.n /\ n > 0
                                        /\ first + n <= size
    BY <1>2, CallTypes DEF IInv, CallInv
  <2>2. PICK s \in Seq(Cells) : /\ s = h[b] /\ size <= Len(s)
                                /\ \A k \in 1 .. size : s[k] = heap[dat][k]
    OBVIOUS
  <2>3. SubSeq(s, first + 1, first + n) = SubSeq(contents, first + 1, first + n)
    BY <2>1, <2>2, CallTypes, PartOfArray
  <2>4. Whole(call.n) = n
    BY <2>1, CallTypes
  <2> QED
    BY <1>2, <2>1, <2>2, <2>3, <2>4 DEF Source, Copied
<1> QED
  BY <1>1, <1>2
-----------------------------------------------------------------------------
\* The copy that ends a write.

\* Heap h and its block b are as realloc leaves them, or are those the array has.
Prepared(h, b) ==
    /\ b \in Blocks
    /\ h \in [Blocks -> Seq(Cells) \cup {NULL}]
    /\ h[b] \in Seq(Cells) /\ Len(h[b]) = call.new_cap
    /\ \A k \in 1 .. size : h[b][k] = heap[dat][k]
    /\ \A c \in Blocks : h[c] # NULL => c = b

LEMMA InPlacePrepared ==
    ASSUME IInv, pc = "grow", call.new_cap = capacity
    PROVE  Prepared(heap, dat)
<1>1. created /\ dat \in Blocks
  BY CallTypes
<1> QED
  BY <1>1 DEF Prepared, IInv, Types, ArrayInv, NothingLeaks

LEMMA ResizedPrepared ==
    ASSUME IInv, SizesFit, pc = "grow", Fits(call.new_cap), call.new_cap # capacity,
           NEW b \in FreeBlocks \cup {dat}
    PROVE  Prepared(Resized(b), b)
<1>1. /\ created /\ dat \in Blocks /\ heap \in [Blocks -> Seq(Cells) \cup {NULL}]
      /\ heap[dat] \in Seq(Cells) /\ Len(heap[dat]) = capacity /\ NothingLeaks
      /\ call.new_cap \in Nat /\ Whole(call.new_cap) = call.new_cap
      /\ size \in Nat /\ size <= capacity /\ capacity \in Nat /\ capacity <= call.new_cap
  BY CallTypes DEF IInv, Types, ArrayInv
<1>2. b \in Blocks
  BY <1>1 DEF FreeBlocks
<1> DEFINE s == heap[dat]
           n == call.new_cap
           f == [k \in 1 .. Whole(n) |-> IF k \in DOMAIN s THEN s[k] ELSE JUNK]
<1>4. DOMAIN s = 1 .. capacity
  BY <1>1, LenProperties
<1>5. f \in [1 .. n -> Cells]
  <2>1. \A k \in 1 .. n : (IF k \in DOMAIN s THEN s[k] ELSE JUNK) \in Cells
    <3> TAKE k \in 1 .. n
    <3>1. k \in DOMAIN s => s[k] \in Cells
      BY <1>1, <1>4, ElementOfSeq
    <3> QED
      BY <3>1 DEF Cells
  <2> HIDE DEF s
  <2> QED
    BY <1>1, <2>1
<1>6. f \in Seq(Cells) /\ Len(f) = n
  <2> HIDE DEF f
  <2> QED
    BY <1>1, <1>5, SeqOfFunction
<1>7. \A k \in 1 .. size : f[k] = s[k]
  <2> TAKE k \in 1 .. size
  <2>1. k \in 1 .. n /\ k \in DOMAIN s
    BY <1>1, <1>4
  <2> HIDE DEF s
  <2> QED
    BY <1>1, <2>1
<1>8. Resized(b) = [[heap EXCEPT ![dat] = NULL] EXCEPT ![b] = f]
  BY <1>1 DEF Resized
<1> HIDE DEF f, s, n
<1>9. /\ Resized(b) \in [Blocks -> Seq(Cells) \cup {NULL}]
      /\ Resized(b)[b] = f
      /\ \A c \in Blocks : c # b => Resized(b)[c] = IF c = dat THEN NULL ELSE heap[c]
  BY <1>1, <1>2, <1>6, <1>8
<1>10. \A c \in Blocks : Resized(b)[c] # NULL => c = b
  BY <1>1, <1>9 DEF NothingLeaks
<1>11. f \in Seq(Cells) /\ Len(f) = call.new_cap /\ \A k \in 1 .. size : f[k] = heap[dat][k]
  BY <1>6, <1>7 DEF n, s
<1> QED
  BY <1>2, <1>9, <1>10, <1>11 DEF Prepared

\* The element at k when the write has been made.
Written(k) == IF k \in call.i + 1 .. call.i + call.n THEN Source[k - call.i] ELSE heap[dat][k]

\* What the copy leaves in block b.
CopiedInto(b) ==
    /\ b \in Blocks
    /\ heap' \in [Blocks -> Seq(Cells) \cup {NULL}]
    /\ heap'[b] \in Seq(Cells) /\ Len(heap'[b]) = call.new_cap
    /\ \A c \in Blocks : heap'[c] # NULL => c = b
    /\ dat' = b /\ capacity' = call.new_cap
    /\ size' = (IF End > size THEN End ELSE size)
    /\ \A k \in 1 .. IF End > size THEN End ELSE size : heap'[b][k] = Written(k)
    /\ Return(Ok, NoElem)

LEMMA CopyWorks ==
    ASSUME IInv, SizesFit, pc = "grow", Fits(call.new_cap),
           NEW h, NEW b, Prepared(h, b), CopyDefined(h, b), Copy(h, b)
    PROVE  CopiedInto(b)
<1>1. PICK i \in Nat, n \in Nat, first \in Nat, m \in Nat, z \in Nat :
          /\ i = call.i /\ n = call.n /\ first = call.first
          /\ m = call.new_cap /\ z = size
  BY CallTypes
<1>2. /\ End = i + n /\ Whole(call.n) = n /\ i <= z /\ i + n <= m /\ z <= m
      /\ created /\ dat \in Blocks
  BY <1>1, CallTypes DEF Fits
<1>3. PICK s \in Seq(Cells) : s = h[b] /\ Len(s) = m /\ DOMAIN s = 1 .. m
  BY <1>1, LenProperties DEF Prepared
<1>4. /\ b \in Blocks /\ h \in [Blocks -> Seq(Cells) \cup {NULL}]
      /\ \A k \in 1 .. z : s[k] = heap[dat][k]
      /\ \A c \in Blocks : h[c] # NULL => c = b
  BY <1>1, <1>3 DEF Prepared
<1>5. call.from # NULL => call.from = b
  <2>1. call.from # NULL => h[call.from] # NULL
    BY DEF CopyDefined
  <2> QED
    BY <1>4, <2>1, CallTypes
<1>6. PICK src \in Seq(Elems) : src = Source /\ Len(src) = n /\ Copied(h) = src
  <2>1. h[b] \in Seq(Cells) /\ size <= Len(h[b]) /\ \A k \in 1 .. size : h[b][k] = heap[dat][k]
    BY <1>1, <1>2, <1>3 DEF Prepared
  <2>2. Copied(h) = Source
    BY <1>5, <2>1, SourceIs
  <2> QED
    BY <1>1, <2>2, SourceTypes
<1> DEFINE new == [k \in 1 .. m |-> IF k \in i + 1 .. i + n THEN src[k - i] ELSE s[k]]
<1>7. /\ heap' = [h EXCEPT ![b] = new]
      /\ dat' = b /\ capacity' = m /\ size' = EndOfArray
      /\ Return(Ok, NoElem)
  BY <1>1, <1>2, <1>3, <1>6 DEF Copy
<1>8. new \in [1 .. m -> Cells]
  <2>1. ASSUME NEW k \in 1 .. m
        PROVE  (IF k \in i + 1 .. i + n THEN src[k - i] ELSE s[k]) \in Cells
    <3>1. s[k] \in Cells
      BY <1>3, ElementOfSeq
    <3>2. CASE k \in i + 1 .. i + n
      <4>1. k - i \in 1 .. n
        BY <3>2
      <4>2. src[k - i] \in Elems
        BY <1>6, <4>1, ElementOfSeq
      <4> QED
        BY <3>2, <4>2 DEF Cells
    <3> QED
      BY <3>1, <3>2
  <2> QED
    BY <2>1
<1> HIDE DEF new
<1>9. new \in Seq(Cells) /\ Len(new) = m
  BY <1>1, <1>8, SeqOfFunction
<1>10. /\ heap' \in [Blocks -> Seq(Cells) \cup {NULL}]
       /\ heap'[b] = new /\ \A c \in Blocks : c # b => heap'[c] = h[c]
  BY <1>4, <1>7, <1>9
<1>11. \A k \in 1 .. IF i + n > z THEN i + n ELSE z : new[k] = Written(k)
  <2> TAKE k \in 1 .. IF i + n > z THEN i + n ELSE z
  <2>1. k \in 1 .. m
    BY <1>2
  <2>2. new[k] = IF k \in i + 1 .. i + n THEN src[k - i] ELSE s[k]
    BY <2>1 DEF new
  <2>3. k \notin i + 1 .. i + n => k \in 1 .. z
    BY <1>2
  <2> QED
    BY <1>1, <1>4, <1>6, <2>2, <2>3 DEF Written
<1> QED
  BY <1>1, <1>2, <1>4, <1>7, <1>9, <1>10, <1>11 DEF CopiedInto, EndOfArray

\* Realloc has been called and the copy is undefined.
UndefinedIn(b) ==
    /\ b \in Blocks
    /\ heap' \in [Blocks -> Seq(Cells) \cup {NULL}]
    /\ heap'[b] \in Seq(Cells) /\ Len(heap'[b]) = call.new_cap
    /\ \A c \in Blocks : heap'[c] # NULL => c = b
    /\ dat' = b /\ capacity' = call.new_cap
    /\ \A k \in 1 .. size : heap'[b][k] = heap[dat][k]
    /\ pc' = "undefined"
    /\ call.from # NULL
    /\ call.from = b => call.i < call.first + call.n /\ call.first < call.i + call.n
    /\ UNCHANGED <<size, call, out, result>>

LEMMA CopyFails ==
    ASSUME IInv, SizesFit, pc = "grow", Fits(call.new_cap),
           NEW h, NEW b, Prepared(h, b), ~CopyDefined(h, b), Copy(h, b)
    PROVE  UndefinedIn(b)
<1>1. PICK i \in Nat, n \in Nat, first \in Nat, m \in Nat :
          i = call.i /\ n = call.n /\ first = call.first /\ m = call.new_cap
  BY CallTypes
<1>2. i + n <= m /\ Whole(call.n) = n
  BY <1>1, CallTypes DEF Fits
<1>3. h[b] \in Seq(Cells) /\ Len(h[b]) = m /\ h[b] # NULL
  BY <1>1, Sizes DEF Prepared
<1>4. call.from # NULL /\ (call.from = b => ~(first + n <= i) /\ ~(i + n <= first))
  BY <1>1, <1>2, <1>3 DEF CopyDefined
<1>5. /\ pc' = "undefined" /\ heap' = h /\ dat' = b /\ capacity' = m
      /\ UNCHANGED <<size, call, out, result>>
  BY <1>1 DEF Copy
<1>6. call.from = b => i < first + n /\ first < i + n
  BY <1>4
<1> QED
  BY <1>1, <1>4, <1>5, <1>6 DEF UndefinedIn, Prepared

LEMMA UndefinedKeepsInv ==
    ASSUME IInv, pc = "grow", NEW b, UndefinedIn(b)
    PROVE  IInv'
<1>1. PICK m \in Nat, z \in Nat, c \in Nat :
          /\ m = call.new_cap /\ z = size /\ c = capacity /\ Fitting(m)
          /\ z <= c /\ c <= m /\ c > 0 /\ \A k \in 1 .. z : heap[dat][k] \in Elems
  BY CallTypes DEF IInv, ArrayInv
<1>2. /\ b \in Blocks /\ heap' \in [Blocks -> Seq(Cells) \cup {NULL}]
      /\ heap'[b] \in Seq(Cells) /\ Len(heap'[b]) = m
      /\ \A x \in Blocks : heap'[x] # NULL => x = b
      /\ dat' = b /\ capacity' = m /\ size' = z
      /\ \A k \in 1 .. z : heap'[b][k] = heap[dat][k]
      /\ pc' = "undefined" /\ UNCHANGED <<call, out, result>>
  BY <1>1 DEF UndefinedIn
<1>3. Types'
  BY <1>1, <1>2 DEF IInv, Types
<1>4. created' /\ NothingLeaks'
  BY <1>2, Sizes DEF created, NothingLeaks
<1>5. ArrayInv'
  BY <1>1, <1>2, <1>4 DEF ArrayInv, Fitting
<1>6. SourceMoved' \/ SourceOverwritten'
  BY <1>2 DEF UndefinedIn, SourceMoved, SourceOverwritten
<1>7. CallInv'
  BY <1>2, <1>6 DEF CallInv, UndefinedOnlyAliased
<1> QED
  BY <1>3, <1>5, <1>7 DEF IInv

LEMMA CopyKeepsInv ==
    ASSUME IInv, SizesFit, pc = "grow", Fits(call.new_cap), NEW b, CopiedInto(b)
    PROVE  IInv'
<1>1. PICK i, n, m, z : /\ i \in Nat /\ n \in Nat /\ m \in Nat /\ z \in Nat
                        /\ i = call.i /\ n = call.n /\ m = call.new_cap /\ z = size
  BY CallTypes
<1>2. /\ End = i + n /\ i <= z /\ i + n <= m /\ z <= m /\ m > 0 /\ Fitting(m)
  <2>1. /\ capacity \in Nat /\ capacity > 0 /\ capacity <= call.new_cap
    BY CallTypes DEF IInv, ArrayInv
  <2> QED
    BY <1>1, <2>1, CallTypes DEF Fits
<1>3. PICK e \in Nat : /\ e = (IF i + n > z THEN i + n ELSE z) /\ e <= m
  BY <1>1, <1>2
<1>4. /\ b \in Blocks /\ heap' \in [Blocks -> Seq(Cells) \cup {NULL}]
      /\ heap'[b] \in Seq(Cells) /\ Len(heap'[b]) = m
      /\ \A c \in Blocks : heap'[c] # NULL => c = b
      /\ dat' = b /\ capacity' = m /\ size' = e
      /\ \A k \in 1 .. e : heap'[b][k] = Written(k)
      /\ pc' = "idle" /\ call' = NoCall /\ out' = NoElem /\ result' = Ok
  BY <1>1, <1>2, <1>3 DEF CopiedInto, Return
<1>5. \A k \in 1 .. e : heap'[b][k] \in Elems
  <2> SUFFICES ASSUME NEW k \in 1 .. e PROVE Written(k) \in Elems
    BY <1>4
  <2>1. CASE k \in i + 1 .. i + n
    <3>1. k - i \in 1 .. n
      BY <1>1, <2>1
    <3>2. Source \in Seq(Elems) /\ Len(Source) = n
      BY <1>1, SourceTypes
    <3>3. Source[k - i] \in Elems
      BY <3>1, <3>2, ElementOfSeq
    <3> QED
      BY <1>1, <2>1, <3>3 DEF Written
  <2>2. CASE k \notin i + 1 .. i + n
    <3>1. k \in 1 .. size
      BY <1>1, <1>2, <1>3, <2>2
    <3>2. heap[dat][k] \in Elems
      BY <3>1, CallTypes DEF IInv, ArrayInv
    <3> QED
      BY <1>1, <2>2, <3>2 DEF Written
  <2> QED
    BY <2>1, <2>2
<1>6. NoCall \in Calls
  BY EmptySeq DEF NoCall, Call, Calls
<1>7. Types'
  BY <1>3, <1>4, <1>6 DEF Types
<1>8. created' /\ NothingLeaks'
  BY <1>4, Sizes DEF created, NothingLeaks
<1>9. ArrayInv'
  BY <1>1, <1>2, <1>3, <1>4, <1>5, <1>8 DEF ArrayInv, Fitting
<1>10. CallInv'
  BY <1>4 DEF CallInv, UndefinedOnlyAliased
<1> QED
  BY <1>7, <1>9, <1>10 DEF IInv
-----------------------------------------------------------------------------
\* One lemma for each kind of step.

LEMMA RefuseKeepsInv ==
    ASSUME IInv, NEW code \in {Ok, NoMemory, OutOfRange, NullPointer}, Refuse(code)
    PROVE  IInv'
<1>1. /\ UNCHANGED <<capacity, size, dat, heap>>
      /\ pc' = "idle" /\ call' = NoCall /\ out' = NoElem /\ result' = code
  BY DEF Refuse, Return, array
<1>2. NoCall \in Calls
  BY EmptySeq DEF NoCall, Call, Calls
<1>3. Types'
  BY <1>1, <1>2 DEF IInv, Types
<1>4. ArrayInv'
  BY <1>1 DEF IInv, ArrayInv, NothingLeaks, created
<1>5. CallInv'
  BY <1>1 DEF CallInv, UndefinedOnlyAliased
<1> QED
  BY <1>3, <1>4, <1>5 DEF IInv

LEMMA CreateKeepsInv ==
    ASSUME IInv, SizesFit, NEW cap \in Capacities, Create(cap)
    PROVE  IInv'
<1>1. CASE Refuse(NullPointer)
  BY <1>1, RefuseKeepsInv
<1>2. CASE ~Refuse(NullPointer)
  <2>1. PICK b \in FreeBlocks :
            /\ cap # 0 /\ dat' = b
            /\ heap' = [heap EXCEPT ![b] = [k \in 1 .. Whole(cap) |-> JUNK]]
            /\ capacity' = cap /\ size' = 0 /\ Return(Ok, NoElem)
    BY <1>2 DEF Create
  <2>2. cap \in Nat /\ cap > 0 /\ Fitting(cap) /\ Whole(cap) = cap
    <3>1. cap \in Nat
      BY ConstantsAssumption DEF ConstantsAssumption
    <3>2. Fitting(cap)
      BY DEF SizesFit
    <3> QED
      BY <2>1, <3>1, <3>2, WholeOfFitting
  <2>3. PICK f : f = [k \in 1 .. cap |-> JUNK]
    OBVIOUS
  <2>4. f \in [1 .. cap -> Cells]
    BY <2>3 DEF Cells
  <2>5. f \in Seq(Cells) /\ Len(f) = cap
    BY <2>2, <2>4, SeqOfFunction
  <2>6. /\ ~created /\ heap \in [Blocks -> Seq(Cells) \cup {NULL}]
        /\ \A c \in Blocks : heap[c] = NULL
    BY Sizes DEF Create, created, IInv, Types, ArrayInv, NothingLeaks
  <2>7. /\ b \in Blocks /\ heap' = [heap EXCEPT ![b] = f]
        /\ pc' = "idle" /\ call' = NoCall /\ out' = NoElem /\ result' = Ok
        /\ dat' = b /\ capacity' = cap /\ size' = 0
    BY <2>1, <2>2, <2>3 DEF FreeBlocks, Return
  <2>8. /\ heap' \in [Blocks -> Seq(Cells) \cup {NULL}] /\ heap'[b] = f
        /\ \A c \in Blocks : heap'[c] # NULL => c = b
    BY <2>5, <2>6, <2>7
  <2>9. NoCall \in Calls
    BY EmptySeq DEF NoCall, Call, Calls
  <2>10. Types'
    BY <2>2, <2>7, <2>8, <2>9 DEF Types
  <2>11. created' /\ NothingLeaks'
    BY <2>7, <2>8, Sizes DEF created, NothingLeaks
  <2>12. ArrayInv'
    BY <2>2, <2>5, <2>7, <2>8, <2>11 DEF ArrayInv, Fitting
  <2>13. CallInv'
    BY <2>7 DEF CallInv, UndefinedOnlyAliased
  <2> QED
    BY <2>10, <2>12, <2>13 DEF IInv
<1> QED
  BY <1>1, <1>2

LEMMA DestroyKeepsInv ==
    ASSUME IInv, Destroy
    PROVE  IInv'
<1>1. /\ created /\ dat \in Blocks /\ heap \in [Blocks -> Seq(Cells) \cup {NULL}]
      /\ NothingLeaks
  BY DEF Destroy, created, IInv, Types, ArrayInv
<1>2. /\ heap' = [heap EXCEPT ![dat] = NULL]
      /\ capacity' = 0 /\ size' = 0 /\ dat' = NULL
      /\ pc' = "idle" /\ call' = NoCall /\ out' = NoElem /\ result' = Ok
  BY DEF Destroy, Return
<1>3. heap' \in [Blocks -> Seq(Cells) \cup {NULL}] /\ \A c \in Blocks : heap'[c] = NULL
  BY <1>1, <1>2 DEF NothingLeaks
<1>4. NoCall \in Calls
  BY EmptySeq DEF NoCall, Call, Calls
<1>5. Types'
  BY <1>2, <1>3, <1>4 DEF Types
<1>6. ~created' /\ NothingLeaks'
  BY <1>2, <1>3 DEF created, NothingLeaks
<1>7. ArrayInv'
  BY <1>2, <1>6 DEF ArrayInv
<1>8. CallInv'
  BY <1>2 DEF CallInv, UndefinedOnlyAliased
<1> QED
  BY <1>5, <1>7, <1>8 DEF IInv

\* at answers with an element of the array.
LEMMA AtAnswers ==
    ASSUME IInv, NEW null \in BOOLEAN, NEW i \in Nat, At(null, i), ~Refuse(NullPointer)
    PROVE  /\ created /\ i < size /\ i + 1 \in 1 .. size
           /\ heap[dat][i + 1] \in Elems
           /\ UNCHANGED <<capacity, size, dat, heap>>
           /\ pc' = "idle" /\ call' = NoCall /\ out' = heap[dat][i + 1] /\ result' = Ok
<1>1. /\ created /\ i < size /\ size \in Nat
      /\ \A k \in 1 .. size : heap[dat][k] \in Elems
  BY DEF At, HasElement, IInv, Types, ArrayInv
<1>2. i + 1 \in 1 .. size
  BY <1>1
<1>3. Return(Ok, heap[dat][i + 1]) /\ UNCHANGED <<capacity, size, dat, heap>>
  BY DEF At, array
<1> QED
  BY <1>1, <1>2, <1>3 DEF Return

LEMMA AtKeepsInv ==
    ASSUME IInv, NEW null \in BOOLEAN, NEW i \in Nat, At(null, i)
    PROVE  IInv'
<1>1. CASE Refuse(NullPointer)
  BY <1>1, RefuseKeepsInv
<1>2. CASE ~Refuse(NullPointer)
  <2>1. /\ UNCHANGED <<capacity, size, dat, heap>>
        /\ pc' = "idle" /\ call' = NoCall /\ out' \in Elems /\ result' = Ok
    BY <1>2, AtAnswers
  <2>2. NoCall \in Calls
    BY EmptySeq DEF NoCall, Call, Calls
  <2>3. Types'
    BY <2>1, <2>2 DEF IInv, Types
  <2>4. ArrayInv'
    BY <2>1 DEF IInv, ArrayInv, NothingLeaks, created
  <2>5. CallInv'
    BY <2>1 DEF CallInv, UndefinedOnlyAliased
  <2> QED
    BY <2>3, <2>4, <2>5 DEF IInv
<1> QED
  BY <1>1, <1>2

\* What a client may pass to memcpy_at: elements of its own, or some of the array's.
GoodWrite(i, n, items, from, first) ==
    /\ i + n <= MaxElems
    /\ \/ items \in Writes /\ n = Len(items) /\ from = NULL /\ first = 0
       \/ items = <<>> /\ from = dat /\ n > 0 /\ first + n <= size

LEMMA MemcpyAtKeepsInv ==
    ASSUME IInv, NEW null \in BOOLEAN, NEW i \in Nat, NEW n \in Nat, NEW items, NEW from,
           NEW first \in Nat, GoodWrite(i, n, items, from, first),
           MemcpyAt(null, i, n, items, from, first)
    PROVE  IInv'
<1>1. CASE Refuse(NullPointer) \/ Refuse(OutOfRange)
  BY <1>1, RefuseKeepsInv
<1>2. CASE ~(Refuse(NullPointer) \/ Refuse(OutOfRange))
  <2>1. /\ created /\ i <= size
        /\ UNCHANGED <<capacity, size, dat, heap, out, result>>
        /\ pc' = "grow" /\ call' = Call(i, n, items, from, first, capacity)
    BY <1>2 DEF MemcpyAt, PastEnd, array, IInv, Types
  <2>2. /\ dat \in Blocks /\ capacity \in Nat /\ Fitting(capacity) /\ size \in Nat
    BY <2>1 DEF IInv, Types, ArrayInv, created
  <2>3. items \in Seq(Elems) /\ from \in Blocks \cup {NULL}
    BY <2>2, EmptySeq, ConstantsAssumption DEF GoodWrite, ConstantsAssumption
  <2>4. call' \in Calls
    BY <2>1, <2>2, <2>3 DEF Call, Calls
  <2>5. Types'
    BY <2>1, <2>4 DEF IInv, Types
  <2>6. ArrayInv'
    BY <2>1 DEF IInv, ArrayInv, NothingLeaks, created
  <2>7. /\ call'.i = i /\ call'.n = n /\ call'.items = items /\ call'.from = from
        /\ call'.first = first /\ call'.new_cap = capacity
    BY <2>1 DEF Call
  <2>8. CallInv'
    BY <2>1, <2>2, <2>7, Sizes DEF CallInv, UndefinedOnlyAliased, GoodWrite, Fitting
  <2> QED
    BY <2>5, <2>6, <2>8 DEF IInv
<1> QED
  BY <1>1, <1>2

LEMMA DoubleKeepsInv ==
    ASSUME IInv, SizesFit, Double
    PROVE  IInv'
<1>1. pc = "grow" /\ UNCHANGED <<capacity, size, dat, heap, pc, out, result>>
  BY DEF Double, array
<1>2. PICK m \in Nat, end \in Nat, c \in Nat :
          /\ m = call.new_cap /\ end = End /\ end = call.i + call.n /\ c = capacity
          /\ c <= m /\ 2 * end < SizeMod /\ Fitting(2 * end)
  BY <1>1, CallTypes
<1>3. m < end
  BY <1>2 DEF Double, Fits
<1>4. Doubled(m) = m * 2
  <2>1. PICK x \in Nat : x = m * 2 /\ x < SizeMod
    BY <1>2, <1>3, Sizes, m * 2 \in Nat
  <2>2. x % SizeMod = x
    BY <2>1, Sizes
  <2> QED
    BY <2>1, <2>2 DEF Doubled
<1>5. Fitting(m * 2)
  BY <1>2, <1>3, FittingSmaller, 2 * end \in Nat, m * 2 \in Nat, m * 2 <= 2 * end
<1>6. call' = [call EXCEPT !.new_cap = m * 2] /\ call \in Calls
  BY <1>2, <1>4 DEF Double, IInv, Types
<1>7. /\ call' \in Calls /\ call'.new_cap = m * 2
      /\ call'.i = call.i /\ call'.n = call.n /\ call'.items = call.items
      /\ call'.from = call.from /\ call'.first = call.first
  BY <1>6, m * 2 \in Nat DEF Calls
<1>8. Types'
  BY <1>1, <1>7 DEF IInv, Types
<1>9. ArrayInv'
  BY <1>1 DEF IInv, ArrayInv, NothingLeaks, created
<1>10. CallInv'
  <2>1. CallInv
    BY DEF IInv
  <2>2. /\ m * 2 >= c /\ c < end /\ m * 2 < 2 * end
    BY <1>2, <1>3
  <2> QED
    BY <1>1, <1>2, <1>5, <1>7, <2>1, <2>2
    DEF CallInv, UndefinedOnlyAliased, Fitting
<1> QED
  BY <1>8, <1>9, <1>10 DEF IInv

LEMMA CopyEnds ==
    ASSUME IInv, SizesFit, pc = "grow", Fits(call.new_cap),
           NEW h, NEW b, Prepared(h, b), Copy(h, b)
    PROVE  CopiedInto(b) \/ UndefinedIn(b)
  BY CopyWorks, CopyFails

LEMMA GrowIs ==
    ASSUME IInv, SizesFit, Grow
    PROVE  \/ Refuse(NoMemory)
           \/ \E b : CopiedInto(b)
           \/ \E b : UndefinedIn(b)
<1>1. CASE ~Refuse(NoMemory)
  <2>1. PICK b \in FreeBlocks \cup {dat} : Copy(Resized(b), b)
    BY <1>1 DEF Grow
  <2>2. Prepared(Resized(b), b)
    BY <2>1, ResizedPrepared DEF Grow
  <2>3. CopiedInto(b) \/ UndefinedIn(b)
    BY <2>1, <2>2, CopyEnds DEF Grow
  <2> QED
    BY <2>3
<1> QED
  BY <1>1

LEMMA StoreInPlaceIs ==
    ASSUME IInv, SizesFit, StoreInPlace
    PROVE  CopiedInto(dat) \/ UndefinedIn(dat)
  BY InPlacePrepared, CopyEnds DEF StoreInPlace

LEMMA StepKeepsInv ==
    ASSUME IInv, SizesFit, Step
    PROVE  IInv'
<1>1. CASE Double
  BY <1>1, DoubleKeepsInv
<1>2. CASE Refuse(NoMemory)
  BY <1>2, RefuseKeepsInv
<1>3. ASSUME Grow \/ StoreInPlace, NEW b, CopiedInto(b) PROVE IInv'
  BY <1>3, CopyKeepsInv DEF Grow, StoreInPlace
<1>4. ASSUME Grow \/ StoreInPlace, NEW b, UndefinedIn(b) PROVE IInv'
  BY <1>4, UndefinedKeepsInv DEF Grow, StoreInPlace
<1> QED
  BY <1>1, <1>2, <1>3, <1>4, GrowIs, StoreInPlaceIs DEF Step

LEMMA AppendKeepsInv ==
    ASSUME IInv, NEW null \in BOOLEAN, NEW d \in Writes, size + Len(d) <= MaxElems,
           AppendN(null, d)
    PROVE  IInv'
<1>1. Len(d) \in Nat /\ size \in Nat
  BY ConstantsAssumption, LenProperties DEF ConstantsAssumption, IInv, Types
<1> QED
  BY <1>1, MemcpyAtKeepsInv DEF AppendN, GoodWrite

LEMMA InsertKeepsInv ==
    ASSUME IInv, NEW null \in BOOLEAN, NEW i \in 0 .. MaxElems, NEW d \in Writes,
           i + Len(d) <= MaxElems, MemcpyAt(null, i, Len(d), d, NULL, 0)
    PROVE  IInv'
<1>1. Len(d) \in Nat /\ i \in Nat
  BY ConstantsAssumption, LenProperties, Sizes DEF ConstantsAssumption
<1> QED
  BY <1>1, MemcpyAtKeepsInv DEF GoodWrite

LEMMA WriteWithinKeepsInv ==
    ASSUME IInv, NEW i \in 0 .. size, NEW first \in 0 .. size - 1,
           NEW n \in 1 .. size - first, i + n <= MaxElems,
           MemcpyAt(FALSE, i, n, <<>>, dat, first)
    PROVE  IInv'
<1>1. size \in Nat
  BY DEF IInv, Types
<1>2. i \in Nat /\ n \in Nat /\ first \in Nat /\ n > 0 /\ first + n <= size
  BY <1>1
<1> QED
  BY <1>2, MemcpyAtKeepsInv DEF GoodWrite

LEMMA ClientCallKeepsInv ==
    ASSUME IInv, SizesFit, ClientCall
    PROVE  IInv'
<1>1. CASE \E cap \in Capacities : Create(cap)
  BY <1>1, CreateKeepsInv
<1>2. CASE Destroy
  BY <1>2, DestroyKeepsInv
<1>3. CASE \E null \in BOOLEAN, i \in 0 .. MaxElems : At(null, i)
  BY <1>3, AtKeepsInv, Sizes
<1>4. CASE \E null \in BOOLEAN, d \in Writes :
              size + Len(d) <= MaxElems /\ AppendN(null, d)
  BY <1>4, AppendKeepsInv
<1>5. CASE \E null \in BOOLEAN, i \in 0 .. MaxElems, d \in Writes :
              i + Len(d) <= MaxElems /\ MemcpyAt(null, i, Len(d), d, NULL, 0)
  BY <1>5, InsertKeepsInv
<1>6. CASE \E i \in 0 .. size, first \in 0 .. size - 1 : \E n \in 1 .. size - first :
              /\ i + n <= MaxElems
              /\ MemcpyAt(FALSE, i, n, <<>>, dat, first)
  BY <1>6, WriteWithinKeepsInv
<1> QED
  BY <1>1, <1>2, <1>3, <1>4, <1>5, <1>6 DEF ClientCall

LEMMA InvariantHolds == ASSUME SizesFit PROVE Spec => []IInv
<1>1. Init => IInv
  <2>1. ASSUME Init PROVE IInv
    <3>1. NoCall \in Calls
      BY EmptySeq DEF NoCall, Call, Calls
    <3>2. Types
      BY <2>1, <3>1 DEF Init, Types
    <3>3. ArrayInv
      BY <2>1 DEF Init, ArrayInv, NothingLeaks, created
    <3>4. CallInv
      BY <2>1 DEF Init, CallInv, UndefinedOnlyAliased
    <3> QED
      BY <3>2, <3>3, <3>4 DEF IInv
  <2> QED
    BY <2>1
<1>2. IInv /\ [Next]_vars => IInv'
  <2> SUFFICES ASSUME IInv, [Next]_vars PROVE IInv'
    OBVIOUS
  <2>1. CASE ClientCall
    BY <2>1, ClientCallKeepsInv
  <2>2. CASE Step
    BY <2>2, StepKeepsInv
  <2>3. CASE UNCHANGED vars
    BY <2>3 DEF vars, array, IInv, Types, ArrayInv, CallInv, NothingLeaks, created,
                UndefinedOnlyAliased, SourceMoved, SourceOverwritten
  <2> QED
    BY <2>1, <2>2, <2>3 DEF Next
<1> QED
  BY <1>1, <1>2, PTL DEF Spec
-----------------------------------------------------------------------------
\* The block really has room for the capacity the array believes in, and each of the
\* array's elements was written by a client (darray.h, memcpy_at).
THEOREM ElementsAlwaysHeld ==
    ASSUME SizesFit PROVE Spec => []BlockHoldsElements
<1>1. IInv => BlockHoldsElements
  BY DEF IInv, Types, ArrayInv, BlockHoldsElements
<1> QED
  BY <1>1, InvariantHolds, PTL

\* A copy is undefined only for a write from the array's own elements, when realloc has
\* moved them or the write goes over them: every other reads memory that is still
\* allocated and writes inside the array's block (darray.h, memcpy_at).
THEOREM OnlyAliasedUndefined ==
    ASSUME SizesFit PROVE Spec => []UndefinedOnlyAliased
<1>1. IInv => UndefinedOnlyAliased
  BY DEF IInv, CallInv
<1> QED
  BY <1>1, InvariantHolds, PTL

\* The array's block is the only one allocated (darray.h, create and memcpy_at).
THEOREM NothingEverLeaks ==
    ASSUME SizesFit PROVE Spec => []NothingLeaks
<1>1. IInv => NothingLeaks
  BY DEF IInv, ArrayInv
<1> QED
  BY <1>1, InvariantHolds, PTL

\* A new capacity is more than the old one and less than twice the end of the write
\* it is made for (the loop of memcpy_at).
THEOREM GrowthAlwaysTight ==
    ASSUME SizesFit PROVE Spec => GrowthTight
<1> DEFINE Tight == (created /\ dat' # NULL /\ capacity' # capacity) =>
                        /\ capacity' > capacity
                        /\ call.i + call.n > capacity
                        /\ capacity' < 2 * (call.i + call.n)
<1>1. ASSUME IInv, Step PROVE Tight
  <2>1. CASE capacity' = call.new_cap
    <3>1. pc = "grow"
      BY <1>1 DEF Step, Double, Grow, StoreInPlace
    <3>2. PICK e, c, m : /\ e \in Nat /\ c \in Nat /\ m \in Nat
                         /\ e = call.i + call.n /\ c = capacity /\ m = call.new_cap
                         /\ c <= m
      BY <1>1, <3>1, CallTypes, call.i + call.n \in Nat
    <3>3. m # c => c < e /\ m < 2 * e
      BY <1>1, <3>1, <3>2 DEF IInv, CallInv
    <3> QED
      BY <2>1, <3>2, <3>3
  <2>2. CASE UNCHANGED capacity
    BY <2>2
  <2> QED
    BY <1>1, <2>1, <2>2, GrowIs, StoreInPlaceIs
    DEF Step, Double, Refuse, array, CopiedInto, UndefinedIn
<1>2. ASSUME ClientCall PROVE Tight
  BY <1>2 DEF ClientCall, Create, Destroy, At, AppendN, MemcpyAt, Refuse, Return, array, created
<1>3. IInv /\ [Next]_vars => [Tight]_vars
  BY <1>1, <1>2 DEF Next
<1> QED
  BY <1>3, InvariantHolds, PTL DEF Spec, GrowthTight

\* Every step of a write ends it or doubles a capacity that is still too small: a write
\* that ends at End takes no more rounds than 1 can be doubled to reach it
\* (darray.h:77-80).
THEOREM RoundsDouble ==
    ASSUME IInv, SizesFit, Step
    PROVE  \/ pc' \in {"idle", "undefined"}
           \/ /\ pc' = "grow" /\ End' = End
              /\ call.new_cap \in 1 .. End - 1 /\ call'.new_cap = 2 * call.new_cap
<1>1. CASE Double
  <2>1. PICK m \in Nat, end \in Nat, c \in Nat :
            /\ m = call.new_cap /\ end = End /\ end = call.i + call.n /\ c = capacity
            /\ c <= m /\ 2 * end < SizeMod
    BY <1>1, CallTypes DEF Double
  <2>2. m < end /\ c > 0
    BY <1>1, <2>1, CallTypes DEF Double, Fits, IInv, ArrayInv
  <2>3. Doubled(m) = 2 * m
    <3>1. PICK x \in Nat : x = m * 2 /\ x < SizeMod
      BY <2>1, <2>2, Sizes, m * 2 \in Nat
    <3>2. x % SizeMod = x
      BY <3>1, Sizes
    <3> QED
      BY <3>1, <3>2 DEF Doubled
  <2>4. pc' = "grow" /\ call' = [call EXCEPT !.new_cap = 2 * m] /\ call \in Calls
    BY <1>1, <2>1, <2>3 DEF Double, IInv, Types
  <2>5. call'.new_cap = 2 * m /\ call'.i = call.i /\ call'.n = call.n
    BY <2>4 DEF Calls
  <2>6. End' = End
    BY <2>5 DEF End
  <2>7. m \in 1 .. end - 1
    BY <2>1, <2>2
  <2> QED
    BY <2>1, <2>4, <2>5, <2>6, <2>7
<1>2. CASE Grow \/ StoreInPlace
  BY <1>2, GrowIs, StoreInPlaceIs DEF CopiedInto, UndefinedIn, Refuse, Return
<1> QED
  BY <1>1, <1>2 DEF Step
-----------------------------------------------------------------------------
\* The dynamic array implements Vector.

\* Sequences after one another; l is how long they are together.
LEMMA ConcatIs ==
    ASSUME NEW S, NEW s \in Seq(S), NEW t \in Seq(S), NEW m \in Nat, NEW l \in Nat,
           m = Len(s), l = Len(s) + Len(t)
    PROVE  /\ s \o t \in Seq(S) /\ Len(s \o t) = l
           /\ \A k \in 1 .. l : (s \o t)[k] = IF k <= m THEN s[k] ELSE t[k - m]
  BY ConcatProperties

LEMMA OverwriteIs ==
    ASSUME NEW S, NEW s \in Seq(S), NEW d \in Seq(S), NEW i \in Nat, i <= Len(s)
    PROVE  /\ Abstract!Overwrite(s, i, d) \in Seq(S)
           /\ Len(Abstract!Overwrite(s, i, d)) =
                  IF i + Len(d) > Len(s) THEN i + Len(d) ELSE Len(s)
           /\ \A k \in 1 .. IF i + Len(d) > Len(s) THEN i + Len(d) ELSE Len(s) :
                  Abstract!Overwrite(s, i, d)[k] =
                      IF k \in i + 1 .. i + Len(d) THEN d[k - i] ELSE s[k]
<1>1. PICK z \in Nat, e \in Nat : z = Len(s) /\ e = i + Len(d)
  BY LenProperties
<1>2. i <= e /\ i <= z /\ z <= Len(s)
  BY <1>1, LenProperties
<1>3. PICK m \in Nat, l \in Nat : m = (IF e < z THEN z - e ELSE 0) /\ l = e + m
  <2>1. (IF e < z THEN z - e ELSE 0) \in Nat
    OBVIOUS
  <2>2. \A m \in Nat : e + m \in Nat
    OBVIOUS
  <2> QED
    BY <2>1, <2>2
<1>4. PICK a \in Seq(S) : /\ a = SubSeq(s, 1, i) /\ Len(a) = i
                          /\ \A k \in 1 .. i : a[k] = s[k]
  <2>1. /\ SubSeq(s, 0 + 1, i) \in Seq(S)
        /\ Len(SubSeq(s, 0 + 1, i)) = IF 0 < i THEN i - 0 ELSE 0
        /\ \A k \in 1 .. i - 0 : SubSeq(s, 0 + 1, i)[k] = s[0 + k]
    BY PartOfSeq, 0 \in Nat
  <2>2. 0 + 1 = 1 /\ i - 0 = i /\ (IF 0 < i THEN i - 0 ELSE 0) = i
    OBVIOUS
  <2>3. \A k \in 1 .. i : 0 + k = k
    OBVIOUS
  <2> QED
    BY <2>1, <2>2, <2>3
<1>5. PICK c \in Seq(S) : /\ c = SubSeq(s, e + 1, z) /\ Len(c) = m
                          /\ \A k \in 1 .. z - e : c[k] = s[e + k]
  <2>1. /\ SubSeq(s, e + 1, z) \in Seq(S)
        /\ Len(SubSeq(s, e + 1, z)) = IF e < z THEN z - e ELSE 0
        /\ \A k \in 1 .. z - e : SubSeq(s, e + 1, z)[k] = s[e + k]
    BY <1>2, PartOfSeq
  <2> QED
    BY <1>3, <2>1
<1>6. PICK ad \in Seq(S) : /\ ad = a \o d /\ Len(ad) = e
                           /\ \A k \in 1 .. e : ad[k] = IF k <= i THEN a[k] ELSE d[k - i]
  <2>1. i = Len(a) /\ e = Len(a) + Len(d)
    BY <1>1, <1>4
  <2>2. /\ a \o d \in Seq(S) /\ Len(a \o d) = e
        /\ \A k \in 1 .. e : (a \o d)[k] = IF k <= i THEN a[k] ELSE d[k - i]
    BY <2>1, ConcatIs
  <2> QED
    BY <2>2
<1>7. PICK r \in Seq(S) : /\ r = ad \o c /\ Len(r) = l
                          /\ \A k \in 1 .. l : r[k] = IF k <= e THEN ad[k] ELSE c[k - e]
  <2>1. e = Len(ad) /\ l = Len(ad) + Len(c)
    BY <1>3, <1>5, <1>6
  <2>2. /\ ad \o c \in Seq(S) /\ Len(ad \o c) = l
        /\ \A k \in 1 .. l : (ad \o c)[k] = IF k <= e THEN ad[k] ELSE c[k - e]
    BY <2>1, ConcatIs
  <2> QED
    BY <2>2
<1>8. r = Abstract!Overwrite(s, i, d)
  BY <1>1, <1>4, <1>5, <1>6, <1>7 DEF Abstract!Overwrite
<1>9. l = IF e > z THEN e ELSE z
  BY <1>3
<1>10. ASSUME NEW k \in 1 .. l
       PROVE  r[k] = IF k \in i + 1 .. e THEN d[k - i] ELSE s[k]
  <2>1. CASE k <= i
    <3>1. k \in 1 .. i /\ k \in 1 .. e /\ k <= e /\ k \notin i + 1 .. e
      BY <1>2, <2>1
    <3> QED
      BY <1>4, <1>6, <1>7, <2>1, <3>1
  <2>2. CASE k > i /\ k <= e
    <3>1. k \in 1 .. e /\ k \in i + 1 .. e /\ ~(k <= i)
      BY <1>2, <2>2
    <3> QED
      BY <1>6, <1>7, <2>2, <3>1
  <2>3. CASE k > e
    <3>1. k - e \in 1 .. z - e /\ e + (k - e) = k /\ k \notin i + 1 .. e /\ ~(k <= e)
      BY <1>9, <2>3
    <3> QED
      BY <1>5, <1>7, <3>1
  <2> QED
    BY <2>1, <2>2, <2>3
<1> QED
  BY <1>1, <1>7, <1>8, <1>9, <1>10

LEMMA RefuseRefines ==
    ASSUME NEW code \in {NoMemory, OutOfRange, NullPointer}, Refuse(code)
    PROVE  Abstract!Next
<1>1. code # Ok
  BY DEF Ok, NoMemory, OutOfRange, NullPointer
<1>2. UNCHANGED <<capacity, size, dat, heap>> /\ out' = NoElem /\ result' = code
  BY DEF Refuse, Return, array
<1>3. Abstract!Fail
  BY <1>1, <1>2 DEF Abstract!Fail, created
<1> QED
  BY <1>3 DEF Abstract!Next

LEMMA CreateRefines ==
    ASSUME IInv, SizesFit, NEW cap \in Capacities, Create(cap)
    PROVE  Abstract!Next
<1>1. CASE Refuse(NullPointer)
  BY <1>1, RefuseRefines
<1>2. CASE ~Refuse(NullPointer)
  <2>1. PICK b \in FreeBlocks : dat' = b /\ size' = 0 /\ out' = NoElem /\ result' = Ok
    BY <1>2 DEF Create, Return
  <2>2. dat' # NULL /\ dat = NULL
    BY <2>1, Sizes DEF FreeBlocks, Create, created
  <2>3. IInv'
    BY CreateKeepsInv
  <2>4. heap'[dat'] \in Seq(Cells)
    BY <2>2, <2>3 DEF IInv, ArrayInv, created
  <2>5. SubSeq(heap'[dat'], 1, size') = <<>>
    BY <2>1, <2>4, SubSeqEmpty
  <2>6. Abstract!Create
    BY <2>1, <2>2, <2>5 DEF Abstract!Create, Abstract!Succeed, created
  <2> QED
    BY <2>6 DEF Abstract!Next
<1> QED
  BY <1>1, <1>2

LEMMA DestroyRefines ==
    ASSUME Destroy
    PROVE  Abstract!Next
<1>1. dat # NULL /\ dat' = NULL /\ out' = NoElem /\ result' = Ok
  BY DEF Destroy, Return, created
<1>2. Abstract!Destroy
  BY <1>1 DEF Abstract!Destroy, Abstract!Succeed, created
<1> QED
  BY <1>2 DEF Abstract!Next

LEMMA AtRefines ==
    ASSUME IInv, NEW null \in BOOLEAN, NEW i \in Nat, At(null, i)
    PROVE  Abstract!Next
<1>1. CASE Refuse(NullPointer)
  BY <1>1, RefuseRefines
<1>2. CASE ~Refuse(NullPointer)
  <2>1. /\ created /\ i + 1 \in 1 .. size
        /\ UNCHANGED <<capacity, size, dat, heap>>
        /\ out' = heap[dat][i + 1] /\ result' = Ok
    BY <1>2, AtAnswers
  <2>2. /\ contents \in Seq(Elems) /\ DOMAIN contents = 1 .. size
        /\ contents[i + 1] = heap[dat][i + 1]
    BY <2>1, Contents, LenProperties
  <2>3. Abstract!Read(i + 1)
    BY <2>1, <2>2 DEF Abstract!Read, Abstract!Succeed, created, contents
  <2>4. i + 1 \in DOMAIN (IF created THEN contents ELSE <<>>)
    BY <2>1, <2>2
  <2> QED
    BY <2>3, <2>4 DEF Abstract!Next, contents
<1> QED
  BY <1>1, <1>2

LEMMA MemcpyAtRefines ==
    ASSUME NEW null, NEW i, NEW n, NEW items, NEW from, NEW first,
           MemcpyAt(null, i, n, items, from, first)
    PROVE  [Abstract!Next]_(Abstract!vars)
<1>1. CASE Refuse(NullPointer) \/ Refuse(OutOfRange)
  BY <1>1, RefuseRefines
<1>2. CASE ~(Refuse(NullPointer) \/ Refuse(OutOfRange))
  <2>1. UNCHANGED <<capacity, size, dat, heap, out, result>>
    BY <1>2 DEF MemcpyAt, array
  <2> QED
    BY <2>1 DEF Abstract!vars, created
<1> QED
  BY <1>1, <1>2

LEMMA CopyRefines ==
    ASSUME IInv, SizesFit, pc = "grow", Fits(call.new_cap), NEW b, CopiedInto(b)
    PROVE  Abstract!Next
<1>1. PICK i \in Nat, n \in Nat, z \in Nat, e \in Nat :
          /\ i = call.i /\ n = call.n /\ z = size
          /\ i <= z /\ (e <= i + n \/ e <= z)
          /\ e = (IF i + n > z THEN i + n ELSE z)
  <2>1. /\ call.i \in Nat /\ call.n \in Nat /\ size \in Nat /\ call.i <= size
    BY CallTypes
  <2>2. (IF call.i + call.n > size THEN call.i + call.n ELSE size) \in Nat
    BY <2>1
  <2> QED
    BY <2>1, <2>2
<1>2. created /\ dat # NULL /\ End = i + n
  BY <1>1, CallTypes DEF created
<1>3. PICK c \in Seq(Elems) : /\ c = contents /\ Len(c) = z
                              /\ \A k \in 1 .. z : c[k] = heap[dat][k]
  BY <1>1, <1>2, Contents
<1>4. PICK src \in Seq(Elems) : src = Source /\ Len(src) = n
  BY <1>1, SourceTypes
<1>5. PICK s \in Seq(Cells) : /\ s = heap'[b] /\ Len(s) = call.new_cap
                              /\ \A k \in 1 .. e : s[k] = Written(k)
  BY <1>1, <1>2 DEF CopiedInto
<1>6. /\ b \in Blocks /\ dat' = b /\ size' = e /\ out' = NoElem /\ result' = Ok /\ b # NULL
  BY <1>1, <1>2, Sizes DEF CopiedInto, Return
<1>7. PICK new \in Seq(Elems) : /\ new = SubSeq(s, 1, e) /\ Len(new) = e
                                /\ \A k \in 1 .. e : new[k] = Written(k)
  <2>1. IInv'
    BY CopyKeepsInv
  <2>2. e <= Len(s) /\ \A k \in 1 .. e : s[k] \in Elems
    <3>1. created'
      BY <1>6 DEF created
    <3> QED
      BY <1>1, <1>5, <1>6, <2>1, <3>1 DEF IInv, Types, ArrayInv
  <2>3. /\ SubSeq(s, 1, e) \in Seq(Elems) /\ Len(SubSeq(s, 1, e)) = e
        /\ \A k \in 1 .. e : SubSeq(s, 1, e)[k] = s[k]
    BY <2>2, BeginningOfBlock
  <2> QED
    BY <1>5, <2>3
<1>8. PICK o \in Seq(Elems) : /\ o = Abstract!Overwrite(c, i, src) /\ Len(o) = e
                              /\ \A k \in 1 .. e :
                                    o[k] = IF k \in i + 1 .. i + n THEN src[k - i] ELSE c[k]
  <2>1. /\ Abstract!Overwrite(c, i, src) \in Seq(Elems)
        /\ Len(Abstract!Overwrite(c, i, src)) =
              IF i + Len(src) > Len(c) THEN i + Len(src) ELSE Len(c)
        /\ \A k \in 1 .. IF i + Len(src) > Len(c) THEN i + Len(src) ELSE Len(c) :
              Abstract!Overwrite(c, i, src)[k] =
                  IF k \in i + 1 .. i + Len(src) THEN src[k - i] ELSE c[k]
    <3>1. i <= Len(c)
      BY <1>1, <1>3
    <3> QED
      BY <3>1, OverwriteIs
  <2>2. n = Len(src) /\ e = IF i + Len(src) > Len(c) THEN i + Len(src) ELSE Len(c)
    BY <1>1, <1>3, <1>4
  <2> QED
    BY <2>1, <2>2
<1>9. ASSUME NEW k \in 1 .. e PROVE new[k] = o[k]
  <2>1. i <= z /\ (e <= i + n \/ e <= z)
    BY <1>1
  <2>2. k \notin i + 1 .. i + n => k \in 1 .. z
    BY <2>1
  <2> QED
    BY <1>1, <1>3, <1>4, <1>7, <1>8, <2>2 DEF Written
<1>10. new = o
  BY <1>7, <1>8, <1>9, SeqEqual
<1>11. Abstract!Write(i, src)
  BY <1>2, <1>3, <1>5, <1>6, <1>7, <1>8, <1>10
  DEF Abstract!Write, Abstract!Succeed, created, contents
<1>12. src \in Writes \cup Abstract!Parts
  <2>1. CASE call.from = NULL
    BY <1>4, <2>1 DEF IInv, CallInv, Source
  <2>2. CASE call.from # NULL
    <3>1. PICK first \in Nat : first = call.first /\ first + n <= z /\ n > 0
      BY <1>1, <2>2, CallTypes DEF IInv, CallInv
    <3>2. first + 1 \in 1 .. z /\ first + n \in 0 .. z
      <4>1. first + n <= z /\ n > 0
        BY <3>1
      <4> QED
        BY <4>1
    <3>3. src = SubSeq(c, first + 1, first + n)
      BY <1>1, <1>3, <1>4, <2>2, <3>1 DEF Source
    <3>4. first + 1 \in 1 .. Len(c) /\ first + n \in 0 .. Len(c)
      BY <1>3, <3>2
    <3>5. Abstract!Parts = {SubSeq(c, a, j) : a \in 1 .. Len(c), j \in 0 .. Len(c)}
      BY <1>2, <1>3 DEF Abstract!Parts, contents
    <3> QED
      BY <3>3, <3>4, <3>5
  <2> QED
    BY <2>1, <2>2
<1>13. i \in 0 .. Len(IF created THEN contents ELSE <<>>)
  BY <1>1, <1>2, <1>3
<1> QED
  BY <1>11, <1>12, <1>13 DEF Abstract!Next, contents

\* A write whose copy is undefined has changed nothing yet that the array promises.
LEMMA UndefinedRefines ==
    ASSUME IInv, pc = "grow", NEW b, UndefinedIn(b)
    PROVE  UNCHANGED Abstract!vars
<1>1. PICK z \in Nat : z = size
  BY CallTypes
<1>2. created /\ created' /\ dat' = b /\ size' = z /\ UNCHANGED <<out, result>>
  BY <1>1, CallTypes, Sizes DEF UndefinedIn, created
<1>3. PICK c \in Seq(Elems) : /\ c = contents /\ Len(c) = z
                              /\ \A k \in 1 .. z : c[k] = heap[dat][k]
  BY <1>1, <1>2, Contents
<1>4. IInv'
  BY UndefinedKeepsInv
<1>5. PICK s \in Seq(Cells) : /\ s = heap'[b] /\ z <= Len(s)
                              /\ \A k \in 1 .. z : s[k] \in Elems /\ s[k] = heap[dat][k]
  <2>1. heap'[b] \in Seq(Cells) /\ z <= Len(heap'[b]) /\ \A k \in 1 .. z : heap'[b][k] \in Elems
    BY <1>2, <1>4 DEF IInv, ArrayInv
  <2> QED
    BY <1>1, <2>1 DEF UndefinedIn
<1>6. /\ SubSeq(s, 1, z) \in Seq(Elems) /\ Len(SubSeq(s, 1, z)) = z
      /\ \A k \in 1 .. z : SubSeq(s, 1, z)[k] = s[k]
  BY <1>5, BeginningOfBlock
<1>7. SubSeq(s, 1, z) = c
  BY <1>3, <1>5, <1>6, SeqEqual
<1> QED
  BY <1>1, <1>2, <1>3, <1>5, <1>7 DEF Abstract!vars, contents

\* Every write stores exactly what its source held and nothing else changes, one that
\* fails changes nothing, and at answers with what is there.
THEOREM ArrayImplementsVector ==
    ASSUME SizesFit PROVE Spec => ImplementsVector
<1>1. ASSUME Init PROVE Abstract!Init
  <2>1. ~created /\ out = NoElem /\ result = Ok
    BY <1>1 DEF Init, created
  <2> QED
    BY <2>1 DEF Abstract!Init
<1>2. ASSUME IInv, [Next]_vars PROVE [Abstract!Next]_(Abstract!vars)
  <2>1. CASE \E cap \in Capacities : Create(cap)
    BY <1>2, <2>1, CreateRefines
  <2>2. CASE Destroy
    BY <2>2, DestroyRefines
  <2>3. CASE \E null \in BOOLEAN, i \in 0 .. MaxElems : At(null, i)
    BY <1>2, <2>3, AtRefines, Sizes
  <2>4. CASE \E null, i, n, items, from, first : MemcpyAt(null, i, n, items, from, first)
    BY <2>4, MemcpyAtRefines
  <2>5. CASE Step
    <3>1. CASE Double
      BY <3>1 DEF Double, array, Abstract!vars, created
    <3>2. CASE Refuse(NoMemory)
      BY <3>2, RefuseRefines
    <3>3. ASSUME Grow \/ StoreInPlace, NEW b, CopiedInto(b) PROVE Abstract!Next
      BY <1>2, <3>3, CopyRefines DEF Grow, StoreInPlace
    <3>4. ASSUME Grow \/ StoreInPlace, NEW b, UndefinedIn(b) PROVE UNCHANGED Abstract!vars
      BY <1>2, <3>4, UndefinedRefines DEF Grow, StoreInPlace
    <3> QED
      BY <1>2, <2>5, <3>1, <3>2, <3>3, <3>4, GrowIs, StoreInPlaceIs DEF Step
  <2>6. CASE UNCHANGED vars
    BY <2>6 DEF vars, array, Abstract!vars, created
  <2> QED
    BY <1>2, <2>1, <2>2, <2>3, <2>4, <2>5, <2>6 DEF Next, ClientCall, AppendN
<1> QED
  BY <1>1, <1>2, InvariantHolds, PTL DEF Spec, ImplementsVector, Abstract!Spec
=============================================================================
