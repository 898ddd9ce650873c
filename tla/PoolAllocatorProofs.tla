------------------------- MODULE PoolAllocatorProofs -------------------------
(****************************************************************************)
(* Proofs about PoolAllocator, for pools of any size in a machine of any    *)
(* word size.                                                               *)
(*                                                                          *)
(* Two hypotheses keep the u32 arithmetic of the C code from wrapping; the  *)
(* configurations PoolSizeWrap and PoolFarPointer show what happens without them. *)
(****************************************************************************)
EXTENDS PoolAllocator, FiniteSetTheorems, TLAPS

\* The requests a client makes are small enough for u32 sizes.
SizesFit ==
    \A n \in MaxAllocationsArgs, bytes \in BytesPerAllocArgs, alignment \in AlignmentArgs :
        (/\ ~BadParameters(FALSE, n, bytes)
         /\ ValidAlignment(alignment)
         /\ n # U32 - 1) =>
            /\ AlignUp(bytes, alignment) < U32
            /\ (n + 1) * SlotSize(bytes, alignment) < U32

\* A pointer that is no slot lies less than 2^32 bytes above the pool.
PointersNear == \A p \in StrayOffsets : p < U32

\* That there is a pool is said of max_allocations throughout.
USE DEF created

\* Byte offsets into the pool do not wrap.
NoWrap == created => (max_allocations + 1) * bytes_per_alloc < U32

(****************************************************************************)
(* The inductive invariant.  The free list alone is not inductive: that     *)
(* free decodes a pointer back to the slot alloc took it from depends on    *)
(* offsets that do not wrap, and that head_index may be followed depends on *)
(* its range.                                                               *)
(****************************************************************************)
IInv == TypeOK /\ FreeListExact /\ SlotsFitBlock /\ NoWrap
-----------------------------------------------------------------------------
\* Arithmetic.

LEMMA AlignUpBounds ==
    ASSUME NEW v \in Nat, NEW a \in Nat, ValidAlignment(a)
    PROVE  /\ AlignUp(v, a) \in Nat
           /\ v <= AlignUp(v, a)
           /\ AlignUp(v, a) < v + a
           /\ AlignUp(v, a) % a = 0
           /\ a \in 1 .. MaxAlign
<1>1. a \in {1, 2, 4, 8, 16}
  BY DEF ValidAlignment, PowersOfTwo, MaxAlign
<1>2. CASE a = 1   BY <1>2 DEF AlignUp, MaxAlign
<1>3. CASE a = 2   BY <1>3 DEF AlignUp, MaxAlign
<1>4. CASE a = 4   BY <1>4 DEF AlignUp, MaxAlign
<1>5. CASE a = 8   BY <1>5 DEF AlignUp, MaxAlign
<1>6. CASE a = 16  BY <1>6 DEF AlignUp, MaxAlign
<1> QED
  BY <1>1, <1>2, <1>3, <1>4, <1>5, <1>6

LEMMA MultipleDecodes ==
    ASSUME NEW i \in Nat, NEW b \in Nat, b > 0
    PROVE  (i * b) \div b = i /\ (i * b) % b = 0
  OBVIOUS

LEMMA DivisionExact ==
    ASSUME NEW p \in Nat, NEW b \in Nat, b > 0
    PROVE  /\ p = b * (p \div b) + (p % b)
           /\ p \div b \in 0 .. p
  OBVIOUS

LEMMA ModOfSmaller ==
    ASSUME NEW v \in Nat, NEW m \in Nat, v < m
    PROVE  v % m = v
  OBVIOUS

LEMMA MultipleMonotone ==
    ASSUME NEW i \in Nat, NEW n \in Nat, NEW b \in Nat, i <= n
    PROVE  i * b <= n * b /\ i * b \in Nat
  OBVIOUS

\* A list without repetition that covers a set is as long as the set is large.
LEMMA ListLength ==
    ASSUME NEW S, NEW n \in Nat, NEW s \in [1 .. n -> S],
           \A i, j \in 1 .. n : s[i] = s[j] => i = j,
           \A x \in S : \E i \in 1 .. n : s[i] = x
    PROVE  Cardinality(S) = n
<1>1. s \in Bijection(1 .. n, S)
  BY DEF Bijection, Injection, IsInjective, Surjection
<1> QED
  BY <1>1, FS_CountingElements DEF ExistsBijection
-----------------------------------------------------------------------------
\* What the invariant says of a pool that exists.

LEMMA FreeSlotsFinite ==
    ASSUME TypeOK
    PROVE  Cardinality(FreeSlots) \in Nat
<1>1. IsFiniteSet(Slots)
  BY FS_Interval DEF TypeOK, Slots
<1>2. IsFiniteSet(FreeSlots)
  BY <1>1, FS_Subset, FreeSlots \in SUBSET Slots DEF FreeSlots
<1> QED
  BY <1>2, FS_CardinalityType

LEMMA PoolSizes ==
    ASSUME IInv, created
    PROVE  /\ U32 \in Nat
           /\ max_allocations \in Nat /\ max_allocations > 0
           /\ max_allocations < U32
           /\ bytes_per_alloc \in Nat /\ bytes_per_alloc > 0
           /\ data \in [0 .. max_allocations -> 0 .. U32 - 1]
           /\ live \subseteq Slots
  BY ConstantsAssumption DEF ConstantsAssumption, IInv, TypeOK

LEMMA ByteIndexDecodes ==
    ASSUME IInv, created, NEW i \in Slots
    PROVE  /\ byte_index(i) = i * bytes_per_alloc
           /\ byte_index(i) \in 0 .. U32 - 1
           /\ IsSlotPointer(byte_index(i))
           /\ FreeIndex(byte_index(i)) = i
           /\ byte_index(i) \div bytes_per_alloc = i
<1>1. /\ i \in Nat /\ i < max_allocations
      /\ (max_allocations + 1) * bytes_per_alloc < U32
  BY PoolSizes DEF Slots, IInv, NoWrap
<1>2. i * bytes_per_alloc <= (max_allocations + 1) * bytes_per_alloc
  BY <1>1, PoolSizes, MultipleMonotone
<1>3. i * bytes_per_alloc \in Nat /\ (max_allocations + 1) * bytes_per_alloc \in Nat
  BY <1>1, PoolSizes
<1>3a. i * bytes_per_alloc \in 0 .. U32 - 1
  BY <1>1, <1>2, <1>3, PoolSizes
<1>4. byte_index(i) = i * bytes_per_alloc
  BY <1>3, <1>3a, PoolSizes, ModOfSmaller DEF byte_index
<1>5. byte_index(i) \div bytes_per_alloc = i /\ byte_index(i) % bytes_per_alloc = 0
  BY <1>1, <1>4, PoolSizes, MultipleDecodes
<1>6. FreeIndex(byte_index(i)) = i
  BY <1>1, <1>5, PoolSizes, ModOfSmaller DEF FreeIndex
<1> QED
  BY <1>1, <1>3a, <1>4, <1>5, <1>6, PoolSizes DEF IsSlotPointer

\* A pointer that is no slot and lies near the pool is refused.
LEMMA StrayPointerIsNoSlot ==
    ASSUME IInv, created, PointersNear,
           NEW p \in StrayOffsets, NoSlotAt(p)
    PROVE  ~IsSlotPointer(p)
<1> SUFFICES ASSUME IsSlotPointer(p)
             PROVE  FALSE
  OBVIOUS
<1>1. p \in Nat /\ p < U32
  BY ConstantsAssumption DEF IsSlotPointer, PointersNear, ConstantsAssumption
<1>2. /\ p = bytes_per_alloc * (p \div bytes_per_alloc) + 0
      /\ p \div bytes_per_alloc \in 0 .. p
  BY <1>1, PoolSizes, DivisionExact DEF IsSlotPointer
<1>3. FreeIndex(p) = p \div bytes_per_alloc
  BY <1>1, <1>2, PoolSizes, ModOfSmaller DEF FreeIndex
<1>4. p \div bytes_per_alloc \in Slots
  BY <1>1, <1>2, <1>3, PoolSizes DEF IsSlotPointer, Slots
<1>5. p = (p \div bytes_per_alloc) * bytes_per_alloc
  BY <1>1, <1>2, PoolSizes
<1> QED
  BY <1>4, <1>5 DEF NoSlotAt

\* The ends of the free list.
LEMMA ListEnds ==
    ASSUME IInv, created
    PROVE  /\ head_index # terminal_index => head_index \in FreeSlots
           /\ tail_index # terminal_index => tail_index \in FreeSlots
           /\ head_index = terminal_index <=> tail_index = terminal_index
           /\ head_index = terminal_index <=> FreeSlots = {}
           /\ head_index \in 0 .. max_allocations
           /\ tail_index \in 0 .. max_allocations
<1> DEFINE n == Cardinality(FreeSlots)
<1>1. n \in Nat
  BY FreeSlotsFinite DEF IInv
<1>2. PICK s \in [1 .. n -> FreeSlots] : IsFreeList(s, n)
  BY DEF IInv, FreeListExact
<1> HIDE DEF n
<1>3. \A x \in FreeSlots : x \in 0 .. max_allocations /\ x # terminal_index
  BY PoolSizes DEF FreeSlots, Slots, terminal_index
<1>4. CASE n = 0
  BY <1>2, <1>4, PoolSizes DEF IsFreeList, terminal_index
<1>5. CASE n > 0
  <2>1. s[1] \in FreeSlots /\ s[n] \in FreeSlots
    BY <1>1, <1>5
  <2>2. head_index = s[1] /\ tail_index = s[n]
    BY <1>2, <1>5 DEF IsFreeList
  <2> QED
    BY <1>3, <2>1, <2>2
<1> QED
  BY <1>1, <1>4, <1>5
-----------------------------------------------------------------------------
\* What each operation does to the free list.

\* A list of the free slots, of any length, is the list FreeListExact asks for.
LEMMA ListedNext ==
    ASSUME NEW n \in Nat, NEW s \in [1 .. n -> FreeSlots'],
           \A i, j \in 1 .. n : s[i] = s[j] => i = j,
           \A x \in FreeSlots' : \E i \in 1 .. n : s[i] = x,
           \A i \in 1 .. n - 1 : data'[s[i]] = s[i + 1],
           n = 0 => head_index' = terminal_index' /\ tail_index' = terminal_index',
           n > 0 => /\ head_index' = s[1]
                    /\ tail_index' = s[n]
                    /\ data'[s[n]] = terminal_index'
    PROVE  FreeListExact'
<1>1. Cardinality(FreeSlots') = n
  BY ListLength
<1>2. IsFreeList(s, n)'
  BY DEF IsFreeList
<1> QED
  BY <1>1, <1>2 DEF FreeListExact

LEMMA Listed ==
    ASSUME IInv, created
    PROVE  \E n \in Nat : \E s \in [1 .. n -> FreeSlots] : IsFreeList(s, n)
  BY FreeSlotsFinite DEF IInv, FreeListExact

\* Create and Reset: 0, 1, ..., n - 1.
LEMMA ListAfterInitialLinks ==
    ASSUME NEW n \in Nat, n > 0, NEW old,
           max_allocations' = n, live' = {}, head_index' = 0,
           tail_index' = n - 1, data' = InitialLinks(n, old)
    PROVE  FreeListExact'
<1> DEFINE s == [i \in 1 .. n |-> i - 1]
<1>1. FreeSlots' = 0 .. n - 1
  BY DEF FreeSlots, Slots
<1>2. s \in [1 .. n -> FreeSlots']
  BY <1>1
<1>3. \A i, j \in 1 .. n : s[i] = s[j] => i = j
  OBVIOUS
<1>4. \A x \in FreeSlots' : x + 1 \in 1 .. n /\ s[x + 1] = x
  BY <1>1
<1>5. \A i \in 1 .. n - 1 : data'[s[i]] = s[i + 1]
  BY DEF InitialLinks
<1>6. data'[s[n]] = n
  BY DEF InitialLinks
<1>7. head_index' = s[1] /\ tail_index' = s[n] /\ terminal_index' = n
  BY DEF terminal_index
<1> HIDE DEF s
<1> QED
  BY <1>2, <1>3, <1>4, <1>5, <1>6, <1>7, ListedNext

\* Alloc drops the first element.
LEMMA ListAfterAlloc ==
    ASSUME IInv, created, head_index # terminal_index,
           head_index' = data[head_index],
           tail_index' = IF head_index' = terminal_index THEN terminal_index
                                                         ELSE tail_index,
           live' = live \cup {head_index},
           UNCHANGED <<max_allocations, data>>
    PROVE  FreeListExact'
<1>1. PICK n \in Nat : \E s \in [1 .. n -> FreeSlots] : IsFreeList(s, n)
  BY Listed
<1>2. PICK s \in [1 .. n -> FreeSlots] : IsFreeList(s, n)
  BY <1>1
<1>3. /\ n > 0
      /\ head_index = s[1] /\ tail_index = s[n] /\ data[s[n]] = terminal_index
  BY <1>2 DEF IsFreeList
<1>4. PICK m \in Nat : n = m + 1
  BY <1>3
<1>5. FreeSlots' = FreeSlots \ {s[1]}
  BY <1>3 DEF FreeSlots, Slots
<1> DEFINE t == [i \in 1 .. m |-> s[i + 1]]
<1>6. \A i \in 1 .. m : i + 1 \in 1 .. n /\ i + 1 # 1 /\ t[i] = s[i + 1]
  BY <1>4
<1>7. t \in [1 .. m -> FreeSlots']
  <2>1. ASSUME NEW i \in 1 .. m
        PROVE  s[i + 1] \in FreeSlots \ {s[1]}
    BY <1>2, <1>3, <1>6 DEF IsFreeList
  <2> QED
    BY <1>5, <2>1
<1>8. \A i, j \in 1 .. m : t[i] = t[j] => i = j
  BY <1>2, <1>6 DEF IsFreeList
<1>9. \A x \in FreeSlots' : \E i \in 1 .. m : t[i] = x
  <2> TAKE x \in FreeSlots'
  <2>1. PICK i \in 1 .. n : s[i] = x
    BY <1>2, <1>5 DEF IsFreeList
  <2>2. i # 1
    BY <1>5, <2>1
  <2>3. i - 1 \in 1 .. m /\ t[i - 1] = x
    BY <1>4, <2>1, <2>2
  <2> QED
    BY <2>3
<1>10. terminal_index' = terminal_index /\ data' = data
  BY DEF terminal_index
<1>11. \A i \in 1 .. m - 1 : data'[t[i]] = t[i + 1]
  <2> TAKE i \in 1 .. m - 1
  <2>1. i \in 1 .. m /\ i + 1 \in 1 .. m /\ i + 1 \in 1 .. n - 1
    BY <1>4
  <2>2. data[s[i + 1]] = s[(i + 1) + 1]
    BY <1>2, <2>1 DEF IsFreeList
  <2> QED
    BY <1>6, <1>10, <2>1, <2>2
<1>12. m = 0 => head_index' = terminal_index' /\ tail_index' = terminal_index'
  BY <1>3, <1>4, <1>10
<1>13. m > 0 => /\ head_index' = t[1]
                /\ tail_index' = t[m]
                /\ data'[t[m]] = terminal_index'
  <2> HAVE m > 0
  <2>1. 1 \in 1 .. m /\ m \in 1 .. m /\ 1 \in 1 .. n - 1
    BY <1>4
  <2>2. data[s[1]] = s[2] /\ t[1] = s[2] /\ t[m] = s[n]
    BY <1>2, <1>4, <1>6, <2>1 DEF IsFreeList
  <2>3. s[2] \in FreeSlots
    BY <1>5, <1>7, <2>1, <2>2
  <2>4. s[2] # terminal_index
    BY <2>3, PoolSizes DEF FreeSlots, Slots, terminal_index
  <2> QED
    BY <1>3, <1>10, <2>2, <2>4
<1> HIDE DEF t
<1> QED
  BY <1>7, <1>8, <1>9, <1>11, <1>12, <1>13, ListedNext

\* A slot freed below the head becomes the first element.
LEMMA ListAfterPushFront ==
    ASSUME IInv, created, NEW x \in live, PushFront(x), live' = live \ {x},
           UNCHANGED max_allocations
    PROVE  FreeListExact'
<1>1. PICK n \in Nat : \E s \in [1 .. n -> FreeSlots] : IsFreeList(s, n)
  BY Listed
<1>2. PICK s \in [1 .. n -> FreeSlots] : IsFreeList(s, n)
  BY <1>1
<1>3. /\ x \in Slots /\ x \notin FreeSlots /\ x # terminal_index
      /\ FreeSlots' = FreeSlots \cup {x}
      /\ terminal_index' = terminal_index
  BY PoolSizes DEF FreeSlots, Slots, terminal_index
<1>4. /\ data'[x] = head_index
      /\ \A y \in FreeSlots : data'[y] = data[y]
      /\ head_index' = x
      /\ tail_index' = IF tail_index = terminal_index THEN x ELSE tail_index
  BY <1>3, PoolSizes DEF PushFront, FreeSlots, Slots
<1> DEFINE t == [i \in 1 .. n + 1 |-> IF i = 1 THEN x ELSE s[i - 1]]
<1>5. t[1] = x /\ \A i \in 1 .. n : t[i + 1] = s[i] /\ i + 1 \in 1 .. n + 1
  OBVIOUS
<1>6. t \in [1 .. n + 1 -> FreeSlots']
  BY <1>3
<1>7. \A i \in 1 .. n + 1 : i = 1 \/ \E k \in 1 .. n : i = k + 1
  <2> TAKE i \in 1 .. n + 1
  <2>1. i = 1 \/ i - 1 \in 1 .. n
    OBVIOUS
  <2> QED
    BY <2>1
<1>8. \A i, j \in 1 .. n + 1 : t[i] = t[j] => i = j
  BY <1>2, <1>3, <1>5, <1>7 DEF IsFreeList
<1>9. \A y \in FreeSlots' : \E i \in 1 .. n + 1 : t[i] = y
  <2> TAKE y \in FreeSlots'
  <2>1. CASE y = x
    <3>1. 1 \in 1 .. n + 1 /\ t[1] = y
      BY <1>5, <2>1
    <3> QED
      BY <3>1
  <2>2. CASE y # x
    <3>1. y \in FreeSlots
      BY <1>3, <2>2
    <3>2. PICK k \in 1 .. n : s[k] = y
      BY <1>2, <3>1 DEF IsFreeList
    <3>3. k + 1 \in 1 .. n + 1 /\ t[k + 1] = y
      BY <1>5, <3>2
    <3> QED
      BY <3>3
  <2> QED
    BY <2>1, <2>2
<1>10. \A i \in 1 .. n : data'[t[i]] = t[i + 1]
  <2> TAKE i \in 1 .. n
  <2>1. CASE i = 1
    BY <1>2, <1>4, <1>5, <2>1 DEF IsFreeList
  <2>2. CASE i > 1
    <3>1. i - 1 \in 1 .. n - 1 /\ i - 1 \in 1 .. n
      BY <2>2
    <3>2. t[i] = s[i - 1] /\ t[i + 1] = s[i] /\ s[i - 1] \in FreeSlots
      BY <1>2, <1>5, <2>2, <3>1
    <3>3. data[s[i - 1]] = s[i]
      BY <1>2, <3>1 DEF IsFreeList
    <3> QED
      BY <1>4, <3>2, <3>3
  <2> QED
    BY <2>1, <2>2
<1>11. tail_index' = t[n + 1] /\ data'[t[n + 1]] = terminal_index'
  <2>1. CASE n = 0
    BY <1>2, <1>3, <1>4, <1>5, <2>1 DEF IsFreeList
  <2>2. CASE n > 0
    <3>1. n \in 1 .. n /\ s[n] \in FreeSlots
      BY <1>2, <2>2
    <3>2. t[n + 1] = s[n] /\ tail_index = s[n] /\ data[s[n]] = terminal_index
      BY <1>2, <1>5, <2>2, <3>1 DEF IsFreeList
    <3>3. s[n] # terminal_index
      BY <3>1, PoolSizes DEF FreeSlots, Slots, terminal_index
    <3> QED
      BY <1>3, <1>4, <3>1, <3>2, <3>3
  <2> QED
    BY <2>1, <2>2
<1> HIDE DEF t
<1> DEFINE m == n + 1
<1>12. m \in Nat /\ m > 0 /\ m - 1 = n
  OBVIOUS
<1>13. t \in [1 .. m -> FreeSlots']
  BY <1>6
<1>14. \A i, j \in 1 .. m : t[i] = t[j] => i = j
  BY <1>8
<1>15. \A y \in FreeSlots' : \E i \in 1 .. m : t[i] = y
  BY <1>9
<1>16. \A i \in 1 .. m - 1 : data'[t[i]] = t[i + 1]
  BY <1>10, <1>12
<1>17. m > 0 => /\ head_index' = t[1]
                /\ tail_index' = t[m]
                /\ data'[t[m]] = terminal_index'
  BY <1>4, <1>5, <1>11
<1> HIDE DEF m
<1>18. m \in Nat /\ (m = 0 => head_index' = terminal_index' /\ tail_index' = terminal_index')
  BY <1>12
<1> QED
  BY <1>13, <1>14, <1>15, <1>16, <1>17, <1>18, ListedNext

\* A slot freed above the head becomes the last element.
LEMMA ListAfterPushBack ==
    ASSUME IInv, created, NEW x \in live, PushBack(x), live' = live \ {x},
           UNCHANGED max_allocations
    PROVE  FreeListExact'
<1>1. PICK n \in Nat : \E s \in [1 .. n -> FreeSlots] : IsFreeList(s, n)
  BY Listed
<1>2. PICK s \in [1 .. n -> FreeSlots] : IsFreeList(s, n)
  BY <1>1
<1>3. /\ x \in Slots /\ x \notin FreeSlots
      /\ FreeSlots' = FreeSlots \cup {x}
      /\ terminal_index' = terminal_index
      /\ x \in 0 .. max_allocations /\ x < terminal_index
  BY PoolSizes DEF FreeSlots, Slots, terminal_index
<1>4. n > 0
  BY <1>2, <1>3, PoolSizes DEF PushBack, IsFreeList, terminal_index
<1>5. /\ head_index = s[1] /\ tail_index = s[n] /\ data[s[n]] = terminal_index
      /\ 1 \in 1 .. n /\ n \in 1 .. n
      /\ s[n] \in FreeSlots /\ s[n] # x /\ s[n] \in 0 .. max_allocations
  BY <1>2, <1>3, <1>4, PoolSizes DEF IsFreeList, FreeSlots, Slots
<1>6. /\ data'[s[n]] = x
      /\ data'[x] = terminal_index
      /\ \A y \in FreeSlots : y # s[n] => data'[y] = data[y]
      /\ head_index' = s[1]
      /\ tail_index' = x
  <2>1. data' = [data EXCEPT ![s[n]] = x, ![x] = terminal_index]
    BY <1>5 DEF PushBack
  <2>2. data \in [0 .. max_allocations -> 0 .. U32 - 1]
    BY PoolSizes
  <2>3. data'[s[n]] = x /\ data'[x] = terminal_index
    BY <1>3, <1>5, <2>1, <2>2
  <2>4. ASSUME NEW y \in FreeSlots, y # s[n]
        PROVE  data'[y] = data[y]
    <3>1. y # x /\ y \in 0 .. max_allocations
      BY <1>3, PoolSizes DEF FreeSlots, Slots
    <3> QED
      BY <2>1, <2>2, <2>4, <3>1
  <2> QED
    BY <1>5, <2>3, <2>4 DEF PushBack
<1> DEFINE t == [i \in 1 .. n + 1 |-> IF i = n + 1 THEN x ELSE s[i]]
<1>7. t[n + 1] = x /\ \A i \in 1 .. n : t[i] = s[i] /\ i \in 1 .. n + 1
  OBVIOUS
<1>8. t \in [1 .. n + 1 -> FreeSlots']
  BY <1>3
<1>9. \A i \in 1 .. n + 1 : i = n + 1 \/ i \in 1 .. n
  OBVIOUS
<1> HIDE DEF t
<1>10. \A i, j \in 1 .. n + 1 : t[i] = t[j] => i = j
  <2>1. \A i \in 1 .. n : t[i] \in FreeSlots /\ t[i] # x
    BY <1>2, <1>3, <1>7
  <2>2. \A i, j \in 1 .. n : t[i] = t[j] => i = j
    BY <1>2, <1>7 DEF IsFreeList
  <2> QED
    BY <1>7, <1>9, <2>1, <2>2
<1>11. \A y \in FreeSlots' : \E i \in 1 .. n + 1 : t[i] = y
  <2> TAKE y \in FreeSlots'
  <2>1. CASE y = x
    <3>1. n + 1 \in 1 .. n + 1 /\ t[n + 1] = y
      BY <1>4, <1>7, <2>1
    <3> QED
      BY <3>1
  <2>2. CASE y # x
    <3>1. y \in FreeSlots
      BY <1>3, <2>2
    <3>2. PICK k \in 1 .. n : s[k] = y
      BY <1>2, <3>1 DEF IsFreeList
    <3>3. k \in 1 .. n + 1 /\ t[k] = y
      BY <1>7, <3>2
    <3> QED
      BY <3>3
  <2> QED
    BY <2>1, <2>2
<1>12. \A i \in 1 .. n : data'[t[i]] = t[i + 1]
  <2> TAKE i \in 1 .. n
  <2>1. CASE i = n
    BY <1>6, <1>7, <2>1
  <2>2. CASE i < n
    <3>1. i \in 1 .. n - 1 /\ i + 1 \in 1 .. n /\ i # n
      BY <2>2
    <3>2. data[s[i]] = s[i + 1] /\ s[i] \in FreeSlots /\ s[i] # s[n]
      BY <1>2, <1>5, <3>1 DEF IsFreeList
    <3> QED
      BY <1>6, <1>7, <3>1, <3>2
  <2> QED
    BY <2>1, <2>2
<1> DEFINE m == n + 1
<1>13. m \in Nat /\ m > 0 /\ m - 1 = n
  OBVIOUS
<1>14. t \in [1 .. m -> FreeSlots']
  BY <1>8
<1>15. \A i, j \in 1 .. m : t[i] = t[j] => i = j
  BY <1>10
<1>16. \A y \in FreeSlots' : \E i \in 1 .. m : t[i] = y
  BY <1>11
<1>17. \A i \in 1 .. m - 1 : data'[t[i]] = t[i + 1]
  BY <1>12, <1>13
<1>18. m > 0 => /\ head_index' = t[1]
                /\ tail_index' = t[m]
                /\ data'[t[m]] = terminal_index'
  <2>1. head_index' = t[1]
    BY <1>5, <1>6, <1>7
  <2>2. tail_index' = t[m] /\ data'[t[m]] = terminal_index'
    BY <1>3, <1>6, <1>7
  <2> QED
    BY <2>1, <2>2
<1> HIDE DEF m
<1>19. m \in Nat /\ (m = 0 => head_index' = terminal_index' /\ tail_index' = terminal_index')
  BY <1>13
<1> QED
  BY <1>14, <1>15, <1>16, <1>17, <1>18, <1>19, ListedNext

\* Nothing else disturbs the list: the client writes only slots it holds.
LEMMA ListKept ==
    ASSUME IInv, UNCHANGED <<max_allocations, head_index, tail_index, live>>,
           created => \A x \in FreeSlots : data'[x] = data[x]
    PROVE  FreeListExact'
<1> SUFFICES ASSUME created
             PROVE  FreeListExact'
  BY DEF FreeListExact
<1>1. PICK n \in Nat : \E s \in [1 .. n -> FreeSlots] : IsFreeList(s, n)
  BY Listed
<1>2. PICK s \in [1 .. n -> FreeSlots] : IsFreeList(s, n)
  BY <1>1
<1>3. FreeSlots' = FreeSlots /\ terminal_index' = terminal_index
  BY DEF FreeSlots, Slots, terminal_index
<1>4. s \in [1 .. n -> FreeSlots']
  BY <1>3
<1>5. \A i, j \in 1 .. n : s[i] = s[j] => i = j
  BY <1>2 DEF IsFreeList
<1>6. \A x \in FreeSlots' : \E i \in 1 .. n : s[i] = x
  BY <1>2, <1>3 DEF IsFreeList
<1>7. \A i \in 1 .. n - 1 : data'[s[i]] = s[i + 1]
  <2> TAKE i \in 1 .. n - 1
  <2>1. s[i] \in FreeSlots /\ data[s[i]] = s[i + 1]
    BY <1>2 DEF IsFreeList
  <2> QED
    BY <2>1
<1>8. n = 0 => head_index' = terminal_index' /\ tail_index' = terminal_index'
  BY <1>2, <1>3 DEF IsFreeList
<1>9. n > 0 => /\ head_index' = s[1]
               /\ tail_index' = s[n]
               /\ data'[s[n]] = terminal_index'
  <2> HAVE n > 0
  <2>1. n \in 1 .. n /\ s[n] \in FreeSlots
    OBVIOUS
  <2> QED
    BY <1>2, <1>3, <2>1 DEF IsFreeList
<1> QED
  BY <1>4, <1>5, <1>6, <1>7, <1>8, <1>9, ListedNext
-----------------------------------------------------------------------------
\* The inductive invariant is kept, action by action.

LEMMA RefuseKeepsIInv ==
    ASSUME IInv, NEW error, Refuse(error),
           error \in {"invalid_parameter", "invalid_alignment", "no_memory",
                      "invalid_pointer"}
    PROVE  IInv'
<1>1. FreeListExact'
  BY ListKept DEF Refuse, pool
<1>2. TypeOK'
  BY ConstantsAssumption
  DEF ConstantsAssumption, IInv, TypeOK, Refuse, pool, NoPointer, Slots
<1> QED
  BY <1>1, <1>2 DEF IInv, Refuse, pool, SlotsFitBlock, NoWrap

LEMMA SlotSizeFits ==
    ASSUME NEW bytes \in 1 .. U32 - 1, NEW alignment \in Nat,
           ValidAlignment(alignment), AlignUp(bytes, alignment) < U32
    PROVE  /\ SlotSize(bytes, alignment) \in NodeSize .. U32 - 1
           /\ SlotSize(bytes, alignment) >= bytes
           /\ SlotSize(bytes, alignment) % alignment = 0
<1> DEFINE up == AlignUp(bytes, alignment)
<1>1. U32 \in Nat /\ U32 > 32
  BY ConstantsAssumption DEF ConstantsAssumption, MaxAlign
<1>2. /\ up \in Nat /\ bytes <= up /\ up % alignment = 0
      /\ alignment \in {1, 2, 4, 8, 16}
  BY <1>1, AlignUpBounds DEF ValidAlignment, PowersOfTwo, MaxAlign
<1>3. SlotSize(bytes, alignment) = IF up < NodeSize THEN NodeSize ELSE up
  BY <1>1, <1>2, ModOfSmaller DEF SlotSize
<1> HIDE DEF up
<1>4. up < NodeSize => alignment \in {1, 2}
  BY <1>2 DEF NodeSize
<1>5. SlotSize(bytes, alignment) % alignment = 0
  BY <1>2, <1>3, <1>4 DEF NodeSize
<1> QED
  BY <1>1, <1>2, <1>3, <1>5 DEF NodeSize, up

LEMMA CreateKeepsIInv ==
    ASSUME SizesFit, IInv, NEW null \in BOOLEAN, NEW n \in MaxAllocationsArgs,
           NEW bytes \in BytesPerAllocArgs, NEW alignment \in AlignmentArgs,
           Create(null, n, bytes, alignment)
    PROVE  IInv'
<1>1. CASE \E error \in {"invalid_parameter", "invalid_alignment", "no_memory"} :
              Refuse(error)
  BY <1>1, RefuseKeepsIInv
<1>2. CASE /\ ~BadParameters(null, n, bytes)
           /\ ValidAlignment(alignment)
           /\ n # U32 - 1
           /\ CreatePool(n, bytes, alignment)
  <2> DEFINE size == SlotSize(bytes, alignment)
  <2>1. /\ U32 \in Nat /\ n \in 1 .. U32 - 1 /\ n \in Nat /\ n > 0
        /\ bytes \in 1 .. U32 - 1 /\ alignment \in Nat /\ alignment \in 1 .. MaxAlign
    BY <1>2, ConstantsAssumption, AlignUpBounds DEF BadParameters, ConstantsAssumption
  <2>2. AlignUp(bytes, alignment) < U32 /\ (n + 1) * size < U32
    BY <1>2 DEF SizesFit, BadParameters
  <2>3. size \in NodeSize .. U32 - 1 /\ size >= bytes /\ size % alignment = 0
    BY <1>2, <2>1, <2>2, SlotSizeFits
  <2>4. PICK junk \in ClientWords : data' = InitialLinks(n, junk)
    BY <1>2 DEF CreatePool
  <2>5. FreeListExact'
    BY <1>2, <2>1, <2>4, ListAfterInitialLinks DEF CreatePool
  <2> HIDE DEF size
  <2>6. (n + 1) * size \in Nat
    BY <2>1, <2>3 DEF NodeSize
  <2>7. ((n + 1) * size) % U32 = (n + 1) * size
    BY <2>1, <2>2, <2>6, ModOfSmaller
  <2>8. /\ max_allocations' = n /\ bytes_per_alloc' = size
        /\ request' = [bytes |-> bytes, alignment |-> alignment]
        /\ head_index' = 0 /\ tail_index' = n - 1 /\ live' = {}
        /\ out' = NoPointer /\ result' = "ok"
        /\ block_size' = HeaderSize + (n + 1) * size + alignment - 1
    BY <1>2, <2>1, <2>6, <2>7 DEF CreatePool, Succeed, BlockSize, size
  <2>9. data' \in [0 .. n -> 0 .. U32 - 1]
    BY <2>1, <2>4, ConstantsAssumption DEF InitialLinks, ConstantsAssumption
  <2>10. SlotsFitBlock' /\ NoWrap'
    BY <2>1, <2>2, <2>3, <2>6, <2>8 DEF SlotsFitBlock, NoWrap, HeaderSize, MaxAlign, NodeSize
  <2>11. /\ max_allocations' \in 0 .. U32 - 1
         /\ bytes_per_alloc' \in 0 .. U32 - 1 /\ bytes_per_alloc' > 0
         /\ head_index' \in 0 .. U32 - 1 /\ tail_index' \in 0 .. U32 - 1
    BY <2>1, <2>3, <2>8 DEF NodeSize
  <2>12. /\ block_size' \in Nat
         /\ request' \in [bytes : 0 .. U32 - 1, alignment : 1 .. MaxAlign]
         /\ out' \in -1 .. U32 - 1
    BY <2>1, <2>6, <2>8 DEF NoPointer, HeaderSize, MaxAlign
  <2>13. TypeOK'
    BY <2>8, <2>9, <2>11, <2>12 DEF TypeOK
  <2> QED
    BY <2>5, <2>10, <2>13 DEF IInv
<1> QED
  BY <1>1, <1>2 DEF Create

LEMMA DestroyKeepsIInv ==
    ASSUME IInv, NEW null \in BOOLEAN, Destroy(null)
    PROVE  IInv'
<1>1. CASE Refuse("invalid_parameter")
  BY <1>1, RefuseKeepsIInv
<1>2. CASE FreePool
  BY <1>2, ConstantsAssumption
  DEF ConstantsAssumption, FreePool, Succeed, IInv, TypeOK, FreeListExact,
      SlotsFitBlock, NoWrap, NoPointer, MaxAlign, Slots
<1> QED
  BY <1>1, <1>2 DEF Destroy

LEMMA AllocKeepsIInv ==
    ASSUME IInv, NEW null \in BOOLEAN, Alloc(null)
    PROVE  IInv'
<1>1. CASE \E error \in {"invalid_parameter", "no_memory"} : Refuse(error)
  BY <1>1, RefuseKeepsIInv
<1>2. CASE /\ head_index # terminal_index
           /\ head_index' = data[head_index]
           /\ tail_index' = IF head_index' = terminal_index THEN terminal_index
                                                             ELSE tail_index
           /\ live' = live \cup {head_index}
           /\ Succeed(byte_index(head_index))
           /\ UNCHANGED <<max_allocations, bytes_per_alloc, data, block_size,
                          request>>
  <2>1. created
    BY DEF Alloc, Ready
  <2>2. head_index \in Slots
    BY <1>2, <2>1, ListEnds DEF FreeSlots
  <2>3. FreeListExact'
    BY <1>2, <2>1, ListAfterAlloc
  <2>4. out' \in 0 .. U32 - 1 /\ result' = "ok"
    BY <1>2, <2>1, <2>2, ByteIndexDecodes DEF Succeed
  <2>5. head_index' \in 0 .. U32 - 1 /\ tail_index' \in 0 .. U32 - 1
    BY <1>2, <2>1, <2>2, PoolSizes DEF Slots, terminal_index, IInv, TypeOK
  <2>6. TypeOK'
    BY <1>2, <2>1, <2>2, <2>4, <2>5, PoolSizes DEF IInv, TypeOK, Slots
  <2> QED
    BY <1>2, <2>3, <2>6 DEF IInv, SlotsFitBlock, NoWrap
<1> QED
  BY <1>1, <1>2 DEF Alloc

LEMMA FreeKeepsIInv ==
    ASSUME PointersNear, IInv, NEW null \in BOOLEAN, NEW p \in FreeablePointers,
           Free(null, p)
    PROVE  IInv'
<1>1. CASE \E error \in {"invalid_parameter", "invalid_pointer"} : Refuse(error)
  BY <1>1, RefuseKeepsIInv
<1>2. CASE /\ IsSlotPointer(p)
           /\ PushFront(FreeIndex(p)) \/ PushBack(FreeIndex(p))
           /\ live' = live \ {FreeIndex(p)}
           /\ Succeed(NoPointer)
           /\ UNCHANGED <<max_allocations, bytes_per_alloc, block_size, request>>
  <2>1. created
    BY DEF Free, Ready
  <2>2. PICK i \in live : p = byte_index(i)
    BY <1>2, <2>1, StrayPointerIsNoSlot DEF FreeablePointers, LivePointers
  <2>3. i \in Slots /\ FreeIndex(p) = i
    BY <2>1, <2>2, PoolSizes, ByteIndexDecodes
  <2>4. FreeListExact'
    BY <1>2, <2>1, <2>3, ListAfterPushFront, ListAfterPushBack
  <2>5. i \in 0 .. U32 - 1 /\ terminal_index \in 0 .. U32 - 1
    BY <2>1, <2>3, PoolSizes DEF Slots, terminal_index
  <2>6. /\ data' \in [0 .. max_allocations -> 0 .. U32 - 1]
        /\ head_index' \in 0 .. U32 - 1
        /\ tail_index' \in 0 .. U32 - 1
    BY <1>2, <2>1, <2>3, <2>5, PoolSizes DEF PushFront, PushBack, IInv, TypeOK
  <2>7. live' \subseteq Slots' /\ out' \in -1 .. U32 - 1 /\ result' = "ok"
    BY <1>2, <2>1, PoolSizes DEF Slots, Succeed, NoPointer
  <2>8. TypeOK'
    BY <1>2, <2>1, <2>6, <2>7 DEF IInv, TypeOK
  <2> QED
    BY <1>2, <2>4, <2>8 DEF IInv, SlotsFitBlock, NoWrap
<1> QED
  BY <1>1, <1>2 DEF Free

LEMMA ResetKeepsIInv ==
    ASSUME IInv, Reset
    PROVE  IInv'
<1>1. created
  BY DEF Reset, Ready
<1>2. FreeListExact'
  BY <1>1, PoolSizes, ListAfterInitialLinks DEF Reset, terminal_index
<1>3. data[max_allocations] \in 0 .. U32 - 1
  BY <1>1, PoolSizes
<1>4. data' \in [0 .. max_allocations -> 0 .. U32 - 1]
  BY <1>1, <1>3, PoolSizes DEF Reset, InitialLinks, terminal_index
<1>5. /\ head_index' \in 0 .. U32 - 1 /\ tail_index' \in 0 .. U32 - 1
      /\ live' = {} /\ out' = NoPointer /\ result' = "ok"
      /\ UNCHANGED <<max_allocations, bytes_per_alloc, block_size, request>>
  BY <1>1, PoolSizes DEF Reset, Succeed, terminal_index
<1>6. out' \in -1 .. U32 - 1 /\ live' \subseteq Slots'
  BY <1>5, ConstantsAssumption DEF NoPointer, ConstantsAssumption
<1>7. data' \in [{i \in 0 .. max_allocations' : created'} -> 0 .. U32 - 1]
  BY <1>1, <1>4, <1>5
<1>8. TypeOK'
  BY <1>5, <1>6, <1>7 DEF IInv, TypeOK
<1> QED
  BY <1>2, <1>5, <1>8 DEF IInv, SlotsFitBlock, NoWrap

LEMMA ClientWriteKeepsIInv ==
    ASSUME IInv, NEW i \in live, NEW word \in ClientWords, ClientWrite(i, word)
    PROVE  IInv'
<1>1. created
  BY DEF ClientWrite, Ready
<1>2. \A x \in FreeSlots : data'[x] = data[x]
  BY <1>1, PoolSizes DEF ClientWrite, FreeSlots, Slots
<1>3. FreeListExact'
  BY <1>2, ListKept DEF ClientWrite, pool
<1>4. data' \in [0 .. max_allocations -> 0 .. U32 - 1]
  BY <1>1, PoolSizes, ConstantsAssumption DEF ClientWrite, ConstantsAssumption
<1>5. TypeOK'
  BY <1>1, <1>4 DEF ClientWrite, IInv, TypeOK, pool, Slots
<1> QED
  BY <1>3, <1>5 DEF ClientWrite, IInv, SlotsFitBlock, NoWrap, pool
-----------------------------------------------------------------------------
(****************************************************************************)
(* The theorems.  Each is about every run of the pool allocator under a     *)
(* client that keeps its side of the contract.                              *)
(****************************************************************************)

LEMMA InitIInv ==
    ASSUME Init
    PROVE  IInv
<1>1. TypeOK
  BY ConstantsAssumption DEF ConstantsAssumption, Init, TypeOK, Slots, MaxAlign, NoPointer
<1> QED
  BY <1>1 DEF Init, IInv, FreeListExact, SlotsFitBlock, NoWrap

LEMMA NextKeepsIInv ==
    ASSUME SizesFit, PointersNear, IInv, [Next]_vars
    PROVE  IInv'
<1>1. ASSUME NEW null \in BOOLEAN, NEW n \in MaxAllocationsArgs,
             NEW bytes \in BytesPerAllocArgs, NEW alignment \in AlignmentArgs,
             Create(null, n, bytes, alignment)
      PROVE  IInv'
  BY <1>1, CreateKeepsIInv
<1>2. ASSUME NEW null \in BOOLEAN, Destroy(null)
      PROVE  IInv'
  BY <1>2, DestroyKeepsIInv
<1>3. ASSUME NEW null \in BOOLEAN, Alloc(null)
      PROVE  IInv'
  BY <1>3, AllocKeepsIInv
<1>4. ASSUME NEW null \in BOOLEAN, NEW p \in FreeablePointers, Free(null, p)
      PROVE  IInv'
  BY <1>4, FreeKeepsIInv
<1>5. CASE Reset
  BY <1>5, ResetKeepsIInv
<1>6. ASSUME NEW i \in live, NEW word \in ClientWords, ClientWrite(i, word)
      PROVE  IInv'
  BY <1>6, ClientWriteKeepsIInv
<1>7. CASE UNCHANGED vars
  <2>1. FreeListExact'
    BY <1>7, ListKept DEF vars, pool
  <2>2. TypeOK'
    BY <1>7 DEF vars, pool, IInv, TypeOK, Slots
  <2> QED
    BY <1>7, <2>1, <2>2 DEF vars, pool, IInv, SlotsFitBlock, NoWrap
<1> QED
  BY <1>1, <1>2, <1>3, <1>4, <1>5, <1>6, <1>7 DEF Next, AllocatorStep

LEMMA InvariantHolds ==
    ASSUME SizesFit, PointersNear
    PROVE  Spec => []IInv
<1>1. Init => IInv
  BY InitIInv
<1>2. IInv /\ [Next]_vars => IInv'
  BY NextKeepsIInv
<1> QED
  BY <1>1, <1>2, PTL DEF Spec

\* Every field of the pool, every link and every value returned stays in its
\* range (the types of struct pool_allocator and of the API).
THEOREM PoolTypeCorrect ==
    ASSUME SizesFit, PointersNear
    PROVE  Spec => []TypeOK
<1>1. IInv => TypeOK
  BY DEF IInv
<1> QED
  BY <1>1, InvariantHolds, PTL

\* Whatever the client allocates, frees and writes, the list threaded through
\* the slots holds exactly the slots the client does not hold.
THEOREM PoolFreeListExact ==
    ASSUME SizesFit, PointersNear
    PROVE  Spec => []FreeListExact
<1>1. IInv => FreeListExact
  BY DEF IInv
<1> QED
  BY <1>1, InvariantHolds, PTL

\* When no size wraps, the block malloc was asked for holds every slot.
THEOREM PoolSlotsFitBlock ==
    ASSUME SizesFit, PointersNear
    PROVE  Spec => []SlotsFitBlock
<1>1. IInv => SlotsFitBlock
  BY DEF IInv
<1> QED
  BY <1>1, InvariantHolds, PTL

\* free never accepts a pointer that is not a slot's address, wherever within
\* 4 GiB above the pool, or below it, the pointer lies.
THEOREM PoolStrayPointersRefused ==
    ASSUME SizesFit, PointersNear
    PROVE  Spec => StrayPointersRefused
<1>1. ASSUME IInv, NEW p \in StrayOffsets, Ready, NoSlotAt(p), Free(FALSE, p)
      PROVE  result' = "invalid_pointer" /\ UNCHANGED <<pool, data, live>>
  <2>1. ~IsSlotPointer(p)
    BY <1>1, StrayPointerIsNoSlot DEF Ready
  <2> QED
    BY <1>1, <2>1 DEF Free, Refuse
<1> DEFINE Refused == \A p \in StrayOffsets :
                          (Ready /\ NoSlotAt(p) /\ Free(FALSE, p)) =>
                              /\ result' = "invalid_pointer"
                              /\ UNCHANGED <<pool, data, live>>
<1>2. IInv => Refused
  BY <1>1
<1>3. (Spec => [][Refused]_vars) => (Spec => StrayPointersRefused)
  BY DEF StrayPointersRefused
<1> HIDE DEF Refused
<1> QED
  BY <1>2, <1>3, InvariantHolds, PTL

\* No allocator call stores into a slot that is in use after it, nor into the
\* spare slot.
THEOREM PoolWritesOnlyFreeSlots ==
    ASSUME SizesFit, PointersNear
    PROVE  Spec => WritesOnlyFreeSlots
<1> DEFINE Clean == \A i \in 0 .. max_allocations :
                        data'[i] # data[i] => i \in Slots \ live'
<1>1. ASSUME IInv, AllocatorStep, created, created'
      PROVE  Clean
  <2>1. ASSUME NEW null \in BOOLEAN, NEW n \in MaxAllocationsArgs,
               NEW bytes \in BytesPerAllocArgs, NEW alignment \in AlignmentArgs,
               Create(null, n, bytes, alignment)
        PROVE  Clean
    BY <1>1, <2>1 DEF Create
  <2>2. ASSUME NEW null \in BOOLEAN, Destroy(null)
        PROVE  Clean
    BY <1>1, <2>2 DEF Destroy, FreePool, Refuse, created
  <2>3. ASSUME NEW null \in BOOLEAN, Alloc(null)
        PROVE  Clean
    BY <2>3 DEF Alloc, Refuse
  <2>4. ASSUME NEW null \in BOOLEAN, NEW p \in FreeablePointers, Free(null, p)
        PROVE  Clean
    <3>1. CASE UNCHANGED data
      BY <3>1
    <3>2. CASE /\ IsSlotPointer(p)
               /\ PushFront(FreeIndex(p)) \/ PushBack(FreeIndex(p))
               /\ live' = live \ {FreeIndex(p)}
      <4>1. PICK i \in live : p = byte_index(i)
        BY <1>1, <3>2, StrayPointerIsNoSlot DEF FreeablePointers, LivePointers
      <4>2. i \in Slots /\ FreeIndex(p) = i
        BY <1>1, <4>1, PoolSizes, ByteIndexDecodes
      <4>3. i \in Nat /\ i < max_allocations /\ terminal_index = max_allocations
        BY <1>1, <4>2, PoolSizes DEF Slots, terminal_index
      <4>4. CASE PushFront(i)
        BY <1>1, <3>2, <4>2, <4>4, PoolSizes DEF PushFront
      <4>5. CASE PushBack(i)
        <5>1. head_index # terminal_index
          BY <1>1, <4>3, <4>5, ListEnds DEF PushBack
        <5>2. tail_index \in FreeSlots
          BY <1>1, <5>1, ListEnds
        <5> QED
          BY <1>1, <3>2, <4>2, <4>5, <5>2, PoolSizes DEF PushBack, FreeSlots
      <4> QED
        BY <3>2, <4>2, <4>4, <4>5
    <3> QED
      BY <2>4, <3>1, <3>2 DEF Free, Refuse
  <2>5. CASE Reset
    BY <1>1, <2>5, PoolSizes DEF Reset, InitialLinks, Slots, terminal_index
  <2> QED
    BY <1>1, <2>1, <2>2, <2>3, <2>4, <2>5 DEF AllocatorStep
<1>2. IInv => ((AllocatorStep /\ created /\ created') => Clean)
  BY <1>1
<1> QED
  BY <1>2, InvariantHolds, PTL DEF WritesOnlyFreeSlots
-----------------------------------------------------------------------------
\* Refinement: every step of the pool allocator is a step of FixedPool.

\* A refused call fails in FixedPool too.
LEMMA RefuseRefines ==
    ASSUME NEW error \in {"invalid_parameter", "invalid_alignment", "no_memory",
                          "invalid_pointer"},
           Refuse(error), error = "no_memory" => live = Slots
    PROVE  Abstract!Next
<1>1. Abstract!Fail(error)
  BY DEF Refuse, pool, Slots, Abstract!Fail, Abstract!NoBlock, Abstract!Blocks, NoPointer
<1> QED
  BY <1>1 DEF Abstract!Next, Abstract!Errors

LEMMA StepRefines ==
    ASSUME SizesFit, PointersNear, IInv, [Next]_vars
    PROVE  [Abstract!Next]_(Abstract!vars)
<1> USE DEF NoPointer, Abstract!NoBlock
<1>1. ASSUME NEW null \in BOOLEAN, NEW n \in MaxAllocationsArgs,
             NEW bytes \in BytesPerAllocArgs, NEW alignment \in AlignmentArgs,
             Create(null, n, bytes, alignment)
      PROVE  Abstract!Next
  <2>1. max_allocations = 0 /\ live = {} /\ Slots = {}
    BY <1>1, ConstantsAssumption DEF Create, IInv, TypeOK, Slots, ConstantsAssumption
  <2>2. CASE \E error \in {"invalid_parameter", "invalid_alignment", "no_memory"} :
                Refuse(error)
    BY <2>1, <2>2, RefuseRefines
  <2>3. CASE ~BadParameters(null, n, bytes) /\ CreatePool(n, bytes, alignment)
    <3>1. n \in Nat \ {0}
      BY <2>3, ConstantsAssumption DEF BadParameters, ConstantsAssumption
    <3>2. Abstract!Create
      BY <2>1, <2>3, <3>1 DEF CreatePool, Succeed, Abstract!Create
    <3> QED
      BY <3>2 DEF Abstract!Next
  <2> QED
    BY <1>1, <2>2, <2>3 DEF Create
<1>2. ASSUME NEW null \in BOOLEAN, Destroy(null)
      PROVE  Abstract!Next
  <2>1. CASE Refuse("invalid_parameter")
    BY <2>1, RefuseRefines
  <2>2. CASE FreePool
    <3>1. Abstract!Destroy
      BY <1>2, <2>2 DEF Destroy, FreePool, Ready, Succeed, Abstract!Destroy
    <3> QED
      BY <3>1 DEF Abstract!Next
  <2> QED
    BY <1>2, <2>1, <2>2 DEF Destroy
<1>3. ASSUME NEW null \in BOOLEAN, Alloc(null)
      PROVE  Abstract!Next
  <2>1. created
    BY <1>3 DEF Alloc, Ready
  <2>2. CASE Refuse("invalid_parameter")
    BY <2>2, RefuseRefines
  <2>3. CASE head_index = terminal_index /\ Refuse("no_memory")
    <3>1. live = Slots
      BY <2>1, <2>3, ListEnds, PoolSizes DEF FreeSlots
    <3> QED
      BY <2>3, <3>1, RefuseRefines
  <2>4. CASE /\ head_index # terminal_index
             /\ live' = live \cup {head_index}
             /\ Succeed(byte_index(head_index))
             /\ UNCHANGED <<max_allocations, bytes_per_alloc>>
    <3>1. head_index \in Slots \ live
      BY <2>1, <2>4, ListEnds DEF FreeSlots
    <3>2. /\ byte_index(head_index) \in 0 .. U32 - 1
          /\ byte_index(head_index) \div bytes_per_alloc = head_index
      BY <2>1, <3>1, ByteIndexDecodes
    <3>3. /\ out' = byte_index(head_index) /\ out' # -1 /\ result' = "ok"
          /\ out' \div bytes_per_alloc' = head_index
      BY <2>4, <3>2 DEF Succeed
    <3>4. Abstract!Alloc(head_index)
      BY <2>4, <3>1, <3>3 DEF Abstract!Alloc, Abstract!Blocks, Slots
    <3> QED
      BY <3>1, <3>4 DEF Abstract!Next, Abstract!Blocks, Slots
  <2> QED
    BY <1>3, <2>2, <2>3, <2>4 DEF Alloc
<1>4. ASSUME NEW null \in BOOLEAN, NEW p \in FreeablePointers, Free(null, p)
      PROVE  Abstract!Next
  <2>1. created
    BY <1>4 DEF Free, Ready
  <2>2. CASE \E error \in {"invalid_parameter", "invalid_pointer"} : Refuse(error)
    BY <2>2, RefuseRefines
  <2>3. CASE /\ IsSlotPointer(p)
             /\ live' = live \ {FreeIndex(p)}
             /\ Succeed(NoPointer)
             /\ UNCHANGED max_allocations
    <3>1. PICK i \in live : p = byte_index(i)
      BY <2>1, <2>3, StrayPointerIsNoSlot DEF FreeablePointers, LivePointers
    <3>2. FreeIndex(p) = i
      BY <2>1, <3>1, PoolSizes, ByteIndexDecodes
    <3>3. Abstract!Free(i)
      BY <2>3, <3>2 DEF Succeed, Abstract!Free
    <3> QED
      BY <3>3 DEF Abstract!Next
  <2> QED
    BY <1>4, <2>2, <2>3 DEF Free
<1>5. CASE Reset
  <2>1. Abstract!Reset
    BY <1>5 DEF Reset, Ready, Succeed, Abstract!Reset
  <2> QED
    BY <2>1 DEF Abstract!Next
<1>6. ASSUME NEW i \in live, NEW word \in ClientWords, ClientWrite(i, word)
      PROVE  UNCHANGED Abstract!vars
  BY <1>6 DEF ClientWrite, pool, Abstract!vars
<1>7. CASE UNCHANGED vars
  BY <1>7 DEF vars, pool, Abstract!vars
<1> QED
  BY <1>1, <1>2, <1>3, <1>4, <1>5, <1>6, <1>7 DEF Next, AllocatorStep

\* The pool allocator implements FixedPool.
THEOREM PoolImplementsFixedPool ==
    ASSUME SizesFit, PointersNear
    PROVE  Spec => ImplementsFixedPool
<1>1. Init => Abstract!Init
  BY DEF Init, NoPointer, Abstract!Init, Abstract!NoBlock
<1>2. IInv /\ [Next]_vars => [Abstract!Next]_(Abstract!vars)
  BY StepRefines
<1> QED
  BY <1>1, <1>2, InvariantHolds, PTL DEF Spec, ImplementsFixedPool, Abstract!Spec
=============================================================================
