------------------------- MODULE LinearAllocatorProofs -------------------------
(****************************************************************************)
(* Proofs about LinearAllocator, for arenas and pages of any size, any      *)
(* client arguments and every history of growths, savepoints and restores.  *)
(*                                                                          *)
(* The hypotheses say that a client asks for sizes that fit each other and  *)
(* u32, which the code does not test; the configurations                    *)
(* LinearReservationWraps, FilepathLargePages and LinearGrowthFails show    *)
(* what happens without them.                                               *)
(****************************************************************************)
EXTENDS LinearAllocator, FiniteSetTheorems, SequenceTheorems, TLAPS

\* A reservation, its header and the rounding to pages do not wrap in u32.
ReservationsFit == \A r \in ReservationArgs : HeaderSize + r + PageSize <= U32

\* The pages of the starting capacity lie within the mapping.
CapacitiesFit ==
    \A r \in ReservationArgs, c \in CapacityArgs \ {0} :
        RoundUp(HeaderSize + RoundUp(c, PageSize), PageSize)
            <= RoundUp(HeaderSize + r, PageSize)

\* MaxAddress bounds every address of an arena, the data of the last growth before
\* it is cut to the reservation included.
AddressesFit ==
    /\ \A r \in ReservationArgs : HeaderSize + 3 * r + PageSize <= MaxAddress
    /\ \A c \in CapacityArgs : HeaderSize + c + 2 * PageSize <= MaxAddress

ArgumentsFit == ReservationsFit /\ CapacitiesFit /\ AddressesFit

\* That there is an arena is said of mapped throughout.
USE DEF created

\* The sizes of an arena: how far the data reaches, what is accessible of the
\* mapping, and that data ends at a multiple of every alignment, so that rounding
\* the last allocation up does not pass it.
DataWithinMapping ==
    created =>
        /\ data_reservation_size \in ReservationArgs /\ data_reservation_size > 0
        /\ mapped = total_reservation_size
        /\ curr_data_size > 0 /\ curr_data_size % MaxAlign = 0
        /\ head_index <= curr_data_size
        /\ HeaderSize + curr_data_size <= mapped
        /\ committed <= mapped
        /\ ~GrowthMayFail => HeaderSize + curr_data_size <= committed

NothingWithoutArena ==
    ~created =>
        /\ curr_data_size = 0 /\ head_index = 0
        /\ alignment = 1 /\ data_reservation_size = 0 /\ committed = 0
        /\ savepoints = <<>> /\ blocks = <<>>

\* Where the next block goes after the first n.
Top(n) == IF n = 0 THEN 0 ELSE AlignUp(End(blocks[n]), alignment)

\* The blocks are aligned and lie behind each other, and the head behind the last.
BlocksStacked ==
    /\ \A i \in DOMAIN blocks : blocks[i].start % alignment = 0
    /\ \A i, j \in DOMAIN blocks : i < j => Top(i) <= blocks[j].start
    /\ \A i \in DOMAIN blocks : Top(i) <= head_index
    /\ head_index = Top(Len(blocks))

\* An offset was the head when there were n blocks.
Marks(index, n) ==
    /\ index = Top(n)
    /\ \A i \in DOMAIN blocks : blocks[i].start < index <=> i <= n

\* Each savepoint marks a number of blocks, and later ones mark no fewer.
SavepointsMark ==
    /\ \A k \in DOMAIN savepoints : \E n \in 0 .. Len(blocks) : Marks(savepoints[k], n)
    /\ \A j, k \in DOMAIN savepoints : j <= k => savepoints[j] <= savepoints[k]

(****************************************************************************)
(* The inductive invariant.  HeadWithinData is not inductive: it needs that *)
(* the data ends at a multiple of the alignment; that a restore frees whole *)
(* blocks needs that a savepoint lies between two of them.                  *)
(****************************************************************************)
IInv ==
    /\ TypeOK
    /\ DataWithinMapping
    /\ NothingWithoutArena
    /\ BlocksStacked
    /\ SavepointsMark
-----------------------------------------------------------------------------
\* Arithmetic.

LEMMA AlignUpValid ==
    ASSUME NEW v \in Nat, NEW a \in Nat, ValidAlignment(a)
    PROVE  /\ AlignUp(v, a) \in Nat
           /\ v <= AlignUp(v, a)
           /\ AlignUp(v, a) < v + a
           /\ AlignUp(v, a) % a = 0
           /\ a \in 1 .. MaxAlign
<1>1. a \in {1, 2, 4, 8, 16}
  BY DEF ValidAlignment, PowersOfTwo, MaxAlign
<1>2. CASE a = 1   BY <1>2 DEF AlignUp, MaxAlign
<1>3. CASE a = 2   BY <1>3 DEF AlignUp, MaxAlign
<1>4. CASE a = 4   BY <1>4 DEF AlignUp, MaxAlign
<1>5. CASE a = 8   BY <1>5 DEF AlignUp, MaxAlign
<1>6. CASE a = 16  BY <1>6 DEF AlignUp, MaxAlign
<1> QED
  BY <1>1, <1>2, <1>3, <1>4, <1>5, <1>6

\* AlignUp is the least multiple, and commutes with adding a multiple.
LEMMA AlignUpFromMultiple ==
    ASSUME NEW v \in Nat, NEW m \in Nat, NEW a \in Nat,
           ValidAlignment(a), m % a = 0
    PROVE  /\ v <= m => AlignUp(v, a) <= m
           /\ m + AlignUp(v, a) = AlignUp(m + v, a)
<1>1. a \in {1, 2, 4, 8, 16}
  BY DEF ValidAlignment, PowersOfTwo, MaxAlign
<1>2. CASE a = 1   BY <1>2 DEF AlignUp
<1>3. CASE a = 2   BY <1>3 DEF AlignUp
<1>4. CASE a = 4   BY <1>4 DEF AlignUp
<1>5. CASE a = 8   BY <1>5 DEF AlignUp
<1>6. CASE a = 16  BY <1>6 DEF AlignUp
<1> QED
  BY <1>1, <1>2, <1>3, <1>4, <1>5, <1>6

LEMMA MultipleOfMaxAlign ==
    ASSUME NEW v \in Nat, NEW a \in Nat, ValidAlignment(a), v % MaxAlign = 0
    PROVE  v % a = 0
<1>1. a \in {1, 2, 4, 8, 16}
  BY DEF ValidAlignment, PowersOfTwo, MaxAlign
<1> QED
  BY <1>1 DEF MaxAlign

LEMMA ModOfSmaller ==
    ASSUME NEW v \in Nat, NEW m \in Nat, v < m
    PROVE  v % m = v
  OBVIOUS

\* A multiple of a multiple.
LEMMA MultipleOfMultiple ==
    ASSUME NEW p \in Nat, NEW x \in Nat, p % 16 = 0
    PROVE  p * x \in Nat /\ (p * x) % 16 = 0
<1>1. PICK m \in Nat : p = 16 * m
  <2>1. p = 16 * (p \div 16) /\ p \div 16 \in Nat
    OBVIOUS
  <2> QED
    BY <2>1
<1>2. p * x = 16 * (m * x) /\ m * x \in Nat
  BY <1>1
<1>3. \A y \in Nat : 16 * y \in Nat /\ (16 * y) % 16 = 0
  OBVIOUS
<1> QED
  BY <1>2, <1>3

LEMMA DivisionRemainder ==
    ASSUME NEW v \in Nat, NEW p \in Nat \ {0}
    PROVE  /\ v = p * (v \div p) + (v % p)
           /\ v % p \in 0 .. p - 1
           /\ v \div p \in Nat
  OBVIOUS

\* Rounding to pages.
LEMMA RoundUpPage ==
    ASSUME NEW v \in 0 .. MaxAddress
    PROVE  /\ RoundUp(v, PageSize) \in Nat
           /\ v <= RoundUp(v, PageSize)
           /\ RoundUp(v, PageSize) < v + PageSize
           /\ RoundUp(v, PageSize) % 16 = 0
           /\ v > 0 => RoundUp(v, PageSize) >= PageSize
<1> DEFINE q == (v + PageSize - 1) \div PageSize
<1>1. PageSize \in Nat \ {0} /\ v \in Nat /\ PageSize % 16 = 0
  <2>1. /\ PageSize \in Nat \ {0} /\ v \in Nat /\ HeaderSize \in Nat \ {0}
        /\ HeaderSize % 16 = 0 /\ PageSize % HeaderSize = 0
    BY ConstantsAssumption DEF ConstantsAssumption, MaxAlign
  <2>2. PageSize = HeaderSize * (PageSize \div HeaderSize) + 0 /\ PageSize \div HeaderSize \in Nat
    BY <2>1, DivisionRemainder
  <2>3. (HeaderSize * (PageSize \div HeaderSize)) % 16 = 0
    BY <2>1, <2>2, MultipleOfMultiple
  <2>4. HeaderSize * (PageSize \div HeaderSize) \in Nat
    BY <2>1, <2>2
  <2> QED
    BY <2>1, <2>2, <2>3, <2>4
<1>2. RoundUp(v, PageSize) = PageSize * q
  BY AlignUpAssumption, <1>1 DEF AlignUpAssumption, AlignUp
<1>3. /\ v + PageSize - 1 = PageSize * q + ((v + PageSize - 1) % PageSize)
      /\ (v + PageSize - 1) % PageSize \in 0 .. PageSize - 1
      /\ q \in Nat
  <2> DEFINE w == v + PageSize - 1
  <2>1. w \in Nat
    BY <1>1
  <2> HIDE DEF w
  <2>2. /\ w = PageSize * (w \div PageSize) + (w % PageSize)
        /\ w % PageSize \in 0 .. PageSize - 1
        /\ w \div PageSize \in Nat
    BY <1>1, <2>1, DivisionRemainder
  <2> QED
    BY <2>2 DEF w
<1>4. PageSize * q \in Nat /\ (PageSize * q) % 16 = 0
  <2> HIDE DEF q
  <2>1. PageSize \in Nat /\ q \in Nat /\ PageSize % 16 = 0
    BY <1>1, <1>3
  <2> QED
    BY <2>1, MultipleOfMultiple
<1>5. PageSize * q >= v /\ PageSize * q < v + PageSize
  <2> HIDE DEF q
  <2> DEFINE pq == PageSize * q
             rest == (v + PageSize - 1) % PageSize
  <2>1. /\ v + PageSize - 1 = pq + rest /\ rest \in 0 .. PageSize - 1 /\ pq \in Nat
    BY <1>3, <1>4
  <2> HIDE DEF pq, rest
  <2>2. pq >= v /\ pq < v + PageSize
    BY <2>1, <1>1
  <2> QED
    BY <2>2 DEF pq
<1>6. v > 0 => PageSize * q >= PageSize
  <2> SUFFICES ASSUME v > 0 PROVE PageSize * q >= PageSize
    OBVIOUS
  <2>1. PageSize * q > 0
    BY <1>1, <1>4, <1>5
  <2>2. q \in Nat \ {0}
    BY <1>1, <1>3, <2>1
  <2> HIDE DEF q
  <2>3. PageSize * q = PageSize * (q - 1) + PageSize /\ PageSize * (q - 1) \in Nat
    BY <2>2, <1>1
  <2> QED
    BY <2>3, <1>1
<1> QED
  BY <1>1, <1>2, <1>4, <1>5, <1>6

\* Rounding to an alignment the allocator accepts.
LEMMA RoundUpAlignment ==
    ASSUME NEW v \in 0 .. MaxAddress, NEW a \in Nat, ValidAlignment(a)
    PROVE  RoundUp(v, a) = AlignUp(v, a)
  BY AlignUpAssumption DEF AlignUpAssumption, ValidAlignment
-----------------------------------------------------------------------------
\* What the hypotheses and the invariant say of an arena.

LEMMA PageSizes ==
    /\ PageSize \in Nat \ {0} /\ HeaderSize \in Nat \ {0} /\ HeaderSize % 16 = 0
    /\ U32 \in Nat /\ MaxAddress \in Nat
  BY ConstantsAssumption DEF ConstantsAssumption, MaxAlign

LEMMA Mapping ==
    ASSUME ArgumentsFit, NEW r \in ReservationArgs
    PROVE  /\ r \in Nat
           /\ HeaderSize + 3 * r + PageSize <= MaxAddress
           /\ RoundUp(HeaderSize + r, PageSize) \in Nat
           /\ RoundUp(HeaderSize + r, PageSize) >= HeaderSize + r
           /\ RoundUp(HeaderSize + r, PageSize) < HeaderSize + r + PageSize
           /\ RoundUp(HeaderSize + r, PageSize) < U32
           /\ RoundUp(HeaderSize + r, PageSize) % 16 = 0
           /\ MappingSize(r) = RoundUp(HeaderSize + r, PageSize)
<1>1. /\ r \in Nat
      /\ HeaderSize + 3 * r + PageSize <= MaxAddress
      /\ HeaderSize + r + PageSize <= U32
  BY ConstantsAssumption DEF ConstantsAssumption, ArgumentsFit, AddressesFit, ReservationsFit
<1>2. HeaderSize + r \in 0 .. MaxAddress
  BY <1>1, PageSizes
<1>3. (HeaderSize + r) % U32 = HeaderSize + r
  BY <1>1, PageSizes, ModOfSmaller, HeaderSize + r \in Nat, HeaderSize + r < U32
<1> QED
  BY <1>1, <1>2, <1>3, PageSizes, RoundUpPage DEF MappingSize

LEMMA ArenaTypes ==
    ASSUME TypeOK
    PROVE  /\ curr_data_size \in Nat /\ head_index \in Nat
           /\ alignment \in Nat /\ ValidAlignment(alignment)
           /\ data_reservation_size \in Nat
           /\ mapped \in Nat /\ committed \in Nat
           /\ DOMAIN blocks = 1 .. Len(blocks) /\ Len(blocks) \in Nat
           /\ DOMAIN savepoints = 1 .. Len(savepoints) /\ Len(savepoints) \in Nat
           /\ \A i \in DOMAIN blocks :
                 /\ blocks[i] \in [start : 0 .. MaxAddress, size : SizeArgs \ {0}]
                 /\ blocks[i].start \in Nat /\ blocks[i].size \in Nat /\ blocks[i].size > 0
                 /\ End(blocks[i]) \in Nat /\ blocks[i].start < End(blocks[i])
           /\ \A k \in DOMAIN savepoints : savepoints[k] \in Nat
<1>1. /\ curr_data_size \in Nat /\ head_index \in Nat
      /\ alignment \in Nat /\ ValidAlignment(alignment)
      /\ data_reservation_size \in Nat
      /\ mapped \in Nat /\ committed \in Nat
  BY PageSizes DEF TypeOK, ValidAlignment, PowersOfTwo
<1>2. /\ DOMAIN blocks = 1 .. Len(blocks) /\ Len(blocks) \in Nat
      /\ \A i \in DOMAIN blocks : blocks[i] \in [start : 0 .. MaxAddress, size : SizeArgs \ {0}]
  <2> DEFINE Block == [start : 0 .. MaxAddress, size : SizeArgs \ {0}]
  <2>1. blocks \in Seq(Block)
    BY DEF TypeOK
  <2> HIDE DEF Block
  <2>2. DOMAIN blocks = 1 .. Len(blocks) /\ Len(blocks) \in Nat
    BY <2>1, LenProperties
  <2>3. \A i \in DOMAIN blocks : blocks[i] \in Block
    BY <2>1, <2>2, ElementOfSeq
  <2> QED
    BY <2>2, <2>3 DEF Block
<1>3. /\ DOMAIN savepoints = 1 .. Len(savepoints) /\ Len(savepoints) \in Nat
      /\ \A k \in DOMAIN savepoints : savepoints[k] \in Nat
  BY PageSizes DEF TypeOK
<1>4. \A i \in DOMAIN blocks :
         /\ blocks[i].start \in Nat /\ blocks[i].size \in Nat /\ blocks[i].size > 0
         /\ End(blocks[i]) \in Nat /\ blocks[i].start < End(blocks[i])
  <2> TAKE i \in DOMAIN blocks
  <2>1. \A size \in SizeArgs : size \in Nat
    BY ConstantsAssumption DEF ConstantsAssumption
  <2>2. blocks[i].start \in 0 .. MaxAddress /\ blocks[i].size \in SizeArgs \ {0}
    BY <1>2
  <2>3. blocks[i].start \in Nat
    BY <2>2, PageSizes
  <2>4. blocks[i].size \in Nat /\ blocks[i].size > 0
    BY <2>1, <2>2, PageSizes
  <2>5. End(blocks[i]) = blocks[i].start + blocks[i].size
    BY DEF End
  <2> QED
    BY <2>3, <2>4, <2>5
<1> QED
  BY <1>1, <1>2, <1>3, <1>4

\* Tops are aligned and behind the end of their block.
LEMMA Tops ==
    ASSUME TypeOK, NEW n \in 0 .. Len(blocks)
    PROVE  /\ Top(n) \in Nat /\ Top(n) % alignment = 0
           /\ n > 0 => End(blocks[n]) <= Top(n) /\ blocks[n].start < Top(n)
<1>1. CASE n = 0
  <2>1. 0 % MaxAlign = 0
    BY DEF MaxAlign
  <2>2. 0 % alignment = 0
    BY <2>1, ArenaTypes, MultipleOfMaxAlign
  <2> QED
    BY <1>1, <2>2 DEF Top
<1>2. CASE n > 0
  <2>1. n \in DOMAIN blocks
    BY <1>2, ArenaTypes
  <2>2. End(blocks[n]) \in Nat /\ blocks[n].start \in Nat /\ blocks[n].start < End(blocks[n])
    BY <2>1, ArenaTypes
  <2>3. Top(n) = AlignUp(End(blocks[n]), alignment)
    BY <1>2 DEF Top
  <2>4. alignment \in Nat /\ ValidAlignment(alignment)
    BY ArenaTypes
  <2>5. /\ Top(n) \in Nat /\ Top(n) % alignment = 0
        /\ End(blocks[n]) <= Top(n)
    BY <2>2, <2>3, <2>4, AlignUpValid
  <2> QED
    BY <2>2, <2>5
<1> QED
  BY <1>1, <1>2, ArenaTypes

LEMMA SameArena ==
    ASSUME IInv, UNCHANGED <<fields, mapped, committed, savepoints, blocks>>,
           out' \in -1 .. MaxAddress,
           result' \in {"none", "ok", "invalid_parameter", "invalid_alignment",
                        "no_memory", "err"}
    PROVE  IInv'
<1> USE DEF fields
<1>1. TypeOK'
  BY DEF IInv, TypeOK
<1>2. DataWithinMapping' /\ NothingWithoutArena'
  BY DEF IInv, DataWithinMapping, NothingWithoutArena, total_reservation_size
<1>3. BlocksStacked'
  BY DEF IInv, BlocksStacked, Top
<1>4. SavepointsMark'
  BY DEF IInv, SavepointsMark, Marks, Top
<1> QED
  BY <1>1, <1>2, <1>3, <1>4 DEF IInv

LEMMA RefuseKeepsInv ==
    ASSUME IInv, NEW error \in {"invalid_parameter", "invalid_alignment", "no_memory", "err"},
           Refuse(error)
    PROVE  IInv'
  BY SameArena, PageSizes DEF Refuse, NoValue
-----------------------------------------------------------------------------
\* What each operation does to the arena.

\* An arena without blocks is stacked, and has no savepoints to check.
LEMMA EmptyArena ==
    ASSUME blocks' = <<>>, savepoints' = <<>>, head_index' = 0
    PROVE  BlocksStacked' /\ SavepointsMark'
  BY DEF BlocksStacked, SavepointsMark, Top

LEMMA CreateKeepsInv ==
    ASSUME IInv, ArgumentsFit, ~created,
           NEW r \in ReservationArgs, NEW c \in CapacityArgs, NEW a \in AlignmentArgs,
           c # 0, ValidAlignment(a), CreateArena(r, c, a)
    PROVE  IInv'
<1> DEFINE size == RoundUp(c, PageSize)
           total == RoundUp(HeaderSize + size, PageSize)
<1>1. /\ curr_data_size' = size /\ head_index' = 0 /\ alignment' = a
      /\ data_reservation_size' = r /\ mapped' = MappingSize(r) /\ committed' = total
      /\ savepoints' = <<>> /\ blocks' = <<>> /\ result' = "ok" /\ out' = -1
  BY DEF CreateArena, Succeed, NoValue
<1>2. c \in Nat /\ c > 0 /\ HeaderSize + c + 2 * PageSize <= MaxAddress
  BY ConstantsAssumption DEF ConstantsAssumption, ArgumentsFit, AddressesFit
<1>3. size \in Nat /\ size >= c /\ size < c + PageSize /\ size % 16 = 0 /\ size >= PageSize
  BY <1>2, PageSizes, RoundUpPage
<1>4. total <= RoundUp(HeaderSize + r, PageSize)
  BY <1>2 DEF ArgumentsFit, CapacitiesFit
<1> HIDE DEF size
<1>5. total \in Nat /\ total >= HeaderSize + size
  BY <1>2, <1>3, PageSizes, RoundUpPage
<1> HIDE DEF total
<1>6. TypeOK'
  <2>1. r \in 0 .. U32 - 1
    BY ConstantsAssumption DEF ConstantsAssumption
  <2>2. RoundUp(HeaderSize + r, PageSize) \in 0 .. MaxAddress
    BY Mapping, PageSizes
  <2>3. total \in 0 .. MaxAddress /\ size \in 0 .. MaxAddress /\ 0 \in 0 .. MaxAddress
        /\ -1 \in -1 .. MaxAddress
    BY <1>2, <1>3, <1>4, <1>5, <2>2, PageSizes
  <2>4. MaxSavepoints \in Nat
    BY ConstantsAssumption DEF ConstantsAssumption
  <2> QED
    BY <1>1, <2>1, <2>2, <2>3, <2>4, Mapping DEF TypeOK
<1>7. DataWithinMapping'
  <2>1. r > 0
    <3>1. HeaderSize + size >= HeaderSize + PageSize
      BY <1>3, PageSizes
    <3>2. RoundUp(HeaderSize + r, PageSize) < HeaderSize + r + PageSize
      BY Mapping
    <3> QED
      BY <1>3, <1>4, <1>5, <3>1, <3>2, PageSizes, Mapping
  <2> QED
    BY <1>1, <1>2, <1>3, <1>4, <1>5, <2>1, Mapping, PageSizes
       DEF DataWithinMapping, total_reservation_size, MaxAlign
<1>8. NothingWithoutArena'
  BY <1>1, Mapping, PageSizes DEF NothingWithoutArena
<1> QED
  BY <1>1, <1>6, <1>7, <1>8, EmptyArena DEF IInv

LEMMA NoArenaKeepsInv ==
    ASSUME IInv, NoArena, out' = NoValue, result' \in {"ok", "err"}
    PROVE  IInv'
<1>1. TypeOK'
  BY PageSizes, ConstantsAssumption
     DEF NoArena, TypeOK, NoValue, ConstantsAssumption, ValidAlignment, PowersOfTwo, MaxAlign
<1>2. DataWithinMapping' /\ NothingWithoutArena'
  BY DEF NoArena, DataWithinMapping, NothingWithoutArena
<1> QED
  BY <1>1, <1>2, EmptyArena DEF IInv, NoArena

\* With this much data, of which this much is accessible, need bytes of it can be used.
RoomFor(need, data, accessible) ==
    /\ data \in Nat /\ data > 0 /\ data >= need /\ data % MaxAlign = 0
    /\ HeaderSize + data <= mapped
    /\ accessible \in Nat /\ accessible <= mapped
    /\ ~GrowthMayFail => HeaderSize + data <= accessible

\* A growth for a need within the reservation makes room for it inside the mapping.
LEMMA GrowMakesRoom ==
    ASSUME IInv, ArgumentsFit, created, NEW need \in Nat,
           curr_data_size < need, need <= data_reservation_size, Grow(need)
    PROVE  RoomFor(need, curr_data_size', committed')
<1> DEFINE data == RoundUp(need, curr_data_size * 2)
           total == RoundUp(HeaderSize + data, PageSize)
<1>1. /\ data_reservation_size \in ReservationArgs
      /\ mapped = RoundUp(HeaderSize + data_reservation_size, PageSize)
      /\ curr_data_size \in Nat /\ curr_data_size > 0
      /\ committed \in Nat /\ committed <= mapped
  BY ArenaTypes DEF IInv, DataWithinMapping, total_reservation_size
<1>2. /\ HeaderSize + 3 * data_reservation_size + PageSize <= MaxAddress
      /\ data_reservation_size \in Nat /\ mapped \in Nat /\ mapped % 16 = 0
      /\ mapped >= HeaderSize + data_reservation_size
  BY <1>1, Mapping
<1>3. data \in need .. need + curr_data_size * 2 - 1
  <2>1. need \in 0 .. MaxAddress /\ curr_data_size * 2 \in 1 .. MaxAddress
    BY <1>1, <1>2, PageSizes
  <2> QED
    BY <2>1, AlignUpAssumption DEF AlignUpAssumption
<1> HIDE DEF data
<1>4. total \in Nat /\ total >= HeaderSize + data /\ total % 16 = 0
  <2>1. HeaderSize + data \in 0 .. MaxAddress
    BY <1>1, <1>2, <1>3, PageSizes
  <2> QED
    BY <2>1, <1>3, PageSizes, RoundUpPage
<1> HIDE DEF total
<1>5. NewTotalSize(need) = IF total < mapped THEN total ELSE mapped
  BY <1>1 DEF NewTotalSize, total, data, total_reservation_size
<1>6. /\ NewTotalSize(need) \in Nat /\ NewTotalSize(need) <= mapped
      /\ NewTotalSize(need) >= HeaderSize + need /\ NewTotalSize(need) % 16 = 0
  BY <1>1, <1>2, <1>3, <1>4, <1>5, PageSizes
<1>7. /\ curr_data_size' = NewTotalSize(need) - HeaderSize
      /\ committed' = NewTotalSize(need) \/ (GrowthMayFail /\ committed' = committed)
  BY DEF Grow
<1> QED
  BY <1>1, <1>2, <1>6, <1>7, PageSizes DEF RoomFor, MaxAlign

\* The head is aligned.
LEMMA HeadAligned ==
    ASSUME IInv
    PROVE  head_index \in Nat /\ head_index % alignment = 0
  BY Tops, ArenaTypes DEF IInv, BlocksStacked

\* Taking size bytes where there is room for them: what Alloc does at its end.
LEMMA CarveKeepsInv ==
    ASSUME IInv, ArgumentsFit, created, NEW size \in SizeArgs, Carve(size),
           UNCHANGED <<alignment, data_reservation_size, mapped, savepoints>>,
           RoomFor(head_index + size, curr_data_size', committed')
    PROVE  IInv'
<1> DEFINE Block == [start : 0 .. MaxAddress, size : SizeArgs \ {0}]
<1>0. PICK h \in Nat, n \in Nat : h = head_index /\ n = Len(blocks)
  BY ArenaTypes DEF IInv
<1>0a. PICK data \in Nat, accessible \in Nat :
          data = curr_data_size' /\ accessible = committed'
  BY DEF RoomFor
<1> DEFINE b == [start |-> h, size |-> size]
<1>1. /\ size \in Nat
      /\ alignment \in Nat /\ ValidAlignment(alignment)
      /\ DOMAIN blocks = 1 .. n
  BY <1>0, ArenaTypes, ConstantsAssumption DEF IInv, ConstantsAssumption
<1>1a. h % alignment = 0
  BY <1>0, HeadAligned
<1>2. mapped \in Nat /\ mapped <= MaxAddress
  <2>1. mapped \in Nat
    BY ArenaTypes DEF IInv
  <2> QED
    BY <2>1, PageSizes DEF IInv, TypeOK
<1>2a. /\ data > 0 /\ data >= h + size
       /\ HeaderSize + data <= mapped
       /\ accessible <= mapped
  BY <1>0, <1>0a DEF RoomFor
<1>2b. /\ data % MaxAlign = 0
       /\ ~GrowthMayFail => HeaderSize + data <= accessible
  BY <1>0a DEF RoomFor
<1>3. /\ h + size \in 0 .. MaxAddress
      /\ h \in 0 .. MaxAddress /\ size \in 0 .. MaxAddress
      /\ data \in 0 .. MaxAddress /\ accessible \in 0 .. MaxAddress
  <2>1. HeaderSize \in Nat /\ MaxAddress \in Nat
    BY PageSizes
  <2>2. size \in Nat
    BY <1>1
  <2> QED
    BY <1>2, <1>2a, <2>1, <2>2
<1>4. /\ head_index' = AlignUp(h + size, alignment)
      /\ head_index' \in Nat /\ head_index' >= h + size /\ head_index' <= data
  <2>1. head_index' = h + AlignUp(size, alignment)
    BY <1>0, <1>1, <1>3, RoundUpAlignment DEF Carve
  <2>2. data % alignment = 0
    BY <1>1, <1>2a, <1>2b, MultipleOfMaxAlign
  <2>3. h + size \in Nat /\ h + size <= data
    BY <1>0, <1>1, <1>2a
  <2>4. head_index' = AlignUp(h + size, alignment)
    BY <1>1, <1>1a, <2>1, AlignUpFromMultiple
  <2>5. AlignUp(h + size, alignment) \in Nat /\ h + size <= AlignUp(h + size, alignment)
    BY <1>1, <2>3, AlignUpValid
  <2>6. AlignUp(h + size, alignment) <= data
    BY <1>1, <1>2a, <2>2, <2>3, AlignUpFromMultiple
  <2> QED
    BY <2>4, <2>5, <2>6
<1>5. DataWithinMapping' /\ NothingWithoutArena'
  BY <1>0a, <1>2a, <1>2b, <1>4 DEF IInv, DataWithinMapping, NothingWithoutArena, total_reservation_size
<1>6. out' = h /\ result' = "ok"
  BY <1>0 DEF Carve, Succeed
<1>7. blocks \in Seq(Block)
  BY DEF IInv, TypeOK
<1>8. CASE size = 0
  <2>1. blocks' = blocks
    BY <1>8 DEF Carve
  <2>2. head_index' = h
    BY <1>1, <1>1a, <1>4, <1>8, AlignUpFromMultiple
  <2>3. TypeOK'
    <3>1. h \in -1 .. MaxAddress
      BY <1>3, PageSizes
    <3>2. blocks' \in Seq(Block)
      BY <1>7, <2>1
    <3>3. /\ head_index' \in 0 .. MaxAddress /\ curr_data_size' \in 0 .. MaxAddress
          /\ committed' \in 0 .. MaxAddress
      BY <1>0a, <1>3, <2>2
    <3>4. /\ ValidAlignment(alignment)' /\ data_reservation_size' \in 0 .. U32 - 1
          /\ mapped' \in 0 .. MaxAddress
          /\ savepoints' \in Seq(0 .. U32 - 1) /\ Len(savepoints') <= MaxSavepoints
      BY DEF IInv, TypeOK
    <3> QED
      BY <1>6, <3>1, <3>2, <3>3, <3>4 DEF TypeOK
  <2>4. BlocksStacked'
    BY <1>0, <2>1, <2>2 DEF IInv, BlocksStacked, Top
  <2>5. SavepointsMark'
    BY <2>1, <2>2 DEF IInv, SavepointsMark, Marks, Top
  <2> QED
    BY <1>5, <2>3, <2>4, <2>5 DEF IInv
<1>9. CASE size # 0
  <2>1. blocks' = Append(blocks, b) /\ b \in Block
    BY <1>0, <1>3, <1>9 DEF Carve
  <2> HIDE DEF Block
  <2>2. /\ blocks' \in Seq(Block) /\ Len(blocks') = n + 1 /\ DOMAIN blocks' = 1 .. n + 1
        /\ \A i \in 1 .. n : blocks'[i] = blocks[i]
        /\ blocks'[n + 1] = b
    <3>1. /\ blocks' \in Seq(Block) /\ Len(blocks') = n + 1
          /\ \A i \in 1 .. n : blocks'[i] = blocks[i]
          /\ blocks'[n + 1] = b
      BY <1>0, <1>7, <2>1, AppendProperties
    <3> QED
      BY <3>1, LenProperties
  <2>3. TypeOK'
    BY <1>0a, <1>3, <1>4, <1>6, <2>2, PageSizes DEF IInv, TypeOK, Block
  <2>4. \A i \in 0 .. n : Top(i)' = Top(i)
    BY <1>1, <2>2 DEF Top
  <2>5. Top(n + 1)' = head_index' /\ b.start = h
    <3>1. Top(n + 1)' = AlignUp(End(blocks'[n + 1]), alignment)
      BY <1>0 DEF Top
    <3> QED
      BY <1>4, <2>2, <3>1 DEF End
  <2>6. \A i \in 1 .. n : Top(i) \in Nat /\ Top(i) <= h /\ blocks[i].start < Top(i)
                          /\ blocks[i].start \in Nat
    <3> TAKE i \in 1 .. n
    <3>1. i \in DOMAIN blocks /\ i \in 0 .. Len(blocks) /\ i > 0
      BY <1>0, <1>1
    <3>2. Top(i) \in Nat /\ blocks[i].start < Top(i)
      BY <3>1, Tops DEF IInv
    <3>3. blocks[i].start \in Nat
      BY <3>1, ArenaTypes DEF IInv
    <3>4. Top(i) <= h
      BY <1>0, <3>1 DEF IInv, BlocksStacked
    <3> QED
      BY <3>2, <3>3, <3>4
  <2>7. BlocksStacked'
    <3>1. \A i \in 1 .. n + 1 : blocks'[i].start % alignment = 0
      BY <1>1, <1>1a, <2>2, <2>5 DEF IInv, BlocksStacked
    <3>2. ASSUME NEW i \in 1 .. n + 1, NEW j \in 1 .. n + 1, i < j
          PROVE  Top(i)' <= blocks'[j].start
      <4>1. i \in 1 .. n
        BY <1>1, <3>2
      <4>2. CASE j \in 1 .. n
        <5>1. Top(i) <= blocks[j].start
          BY <1>1, <3>2, <4>1, <4>2 DEF IInv, BlocksStacked
        <5> QED
          BY <2>2, <2>4, <4>1, <4>2, <5>1
      <4>3. CASE j = n + 1
        BY <1>1, <2>2, <2>4, <2>5, <2>6, <4>1, <4>3
      <4> QED
        BY <1>1, <4>2, <4>3
    <3>3. ASSUME NEW i \in 1 .. n + 1
          PROVE  Top(i)' <= head_index'
      <4>1. CASE i \in 1 .. n
        BY <1>1, <1>4, <2>4, <2>6, <4>1
      <4>2. CASE i = n + 1
        BY <1>4, <2>5, <4>2
      <4> QED
        BY <1>1, <4>1, <4>2
    <3> QED
      BY <2>2, <2>5, <3>1, <3>2, <3>3 DEF BlocksStacked
  <2>8. SavepointsMark'
    <3>1. ASSUME NEW k \in DOMAIN savepoints, NEW m \in 0 .. n, Marks(savepoints[k], m)
          PROVE  Marks(savepoints[k], m)'
      <4>1. savepoints[k] = Top(m)' /\ savepoints[k] \in Nat /\ savepoints[k] <= h
        <5>1. savepoints[k] = Top(m) /\ savepoints[k] \in Nat
          BY <3>1, ArenaTypes DEF Marks, IInv
        <5>2. Top(m) <= h
          BY <2>6, <3>1 DEF Top
        <5> QED
          BY <2>4, <3>1, <5>1, <5>2
      <4>2. ~(b.start < savepoints[k])
        BY <1>1, <2>5, <4>1
      <4>3. \A i \in 1 .. n + 1 : blocks'[i].start < savepoints[k] <=> i <= m
        BY <1>1, <2>2, <3>1, <4>2 DEF Marks
      <4> QED
        BY <2>2, <4>1, <4>3 DEF Marks
    <3>2. \A k \in DOMAIN savepoints : \E m \in 0 .. n : Marks(savepoints[k], m)'
      BY <1>0, <3>1 DEF IInv, SavepointsMark
    <3>3. \A m \in 0 .. n : m \in 0 .. Len(blocks')
      BY <1>1, <2>2
    <3> QED
      BY <3>2, <3>3 DEF IInv, SavepointsMark, Marks
  <2> QED
    BY <1>5, <2>3, <2>7, <2>8 DEF IInv
<1> QED
  BY <1>8, <1>9

LEMMA AllocKeepsInv ==
    ASSUME IInv, ArgumentsFit, NEW null \in BOOLEAN, NEW size \in SizeArgs, Alloc(null, size)
    PROVE  IInv'
<1>1. created
  BY DEF Alloc
<1>2. CASE Refuse("invalid_parameter") \/ Refuse("no_memory")
  BY <1>2, RefuseKeepsInv
<1>3. ASSUME curr_data_size < head_index + size, data_reservation_size >= head_index + size,
             Grow(head_index + size), Carve(size),
             UNCHANGED <<alignment, data_reservation_size, mapped, savepoints>>
      PROVE  IInv'
  <2>1. PICK need \in Nat : need = head_index + size
    BY ArenaTypes, ConstantsAssumption DEF IInv, ConstantsAssumption
  <2>2. RoomFor(need, curr_data_size', committed')
    BY <1>1, <1>3, <2>1, ArenaTypes, GrowMakesRoom DEF IInv
  <2> QED
    BY <1>1, <1>3, <2>1, <2>2, CarveKeepsInv
<1>4. ASSUME curr_data_size >= head_index + size, Carve(size),
             UNCHANGED <<curr_data_size, alignment, data_reservation_size, mapped,
                         committed, savepoints>>
      PROVE  IInv'
  <2>1. RoomFor(head_index + size, curr_data_size, committed)
    BY <1>1, <1>4, ArenaTypes DEF IInv, DataWithinMapping, RoomFor
  <2>2. RoomFor(head_index + size, curr_data_size', committed')
    BY <1>4, <2>1 DEF RoomFor
  <2> QED
    BY <1>1, <1>4, <2>2, CarveKeepsInv
<1> QED
  BY <1>2, <1>3, <1>4 DEF Alloc

\* A savepoint, which is a u32, holds the whole head.
LEMMA HeadInU32 ==
    ASSUME IInv, ArgumentsFit, created
    PROVE  head_index \in Nat /\ head_index < U32 /\ head_index % U32 = head_index
<1>1. /\ data_reservation_size \in ReservationArgs /\ mapped = total_reservation_size
      /\ curr_data_size \in Nat /\ head_index \in Nat
      /\ head_index <= curr_data_size /\ HeaderSize + curr_data_size <= mapped
  BY ArenaTypes DEF IInv, DataWithinMapping
<1>2. mapped < U32 /\ mapped \in Nat
  BY <1>1, Mapping DEF total_reservation_size
<1>3. head_index < U32
  BY <1>1, <1>2, PageSizes
<1> QED
  BY <1>1, <1>3, PageSizes, ModOfSmaller

LEMMA SetSavepointKeepsInv ==
    ASSUME IInv, ArgumentsFit, NEW null \in BOOLEAN, SetSavepoint(null)
    PROVE  IInv'
<1>1. CASE Refuse("invalid_parameter")
  BY <1>1, RefuseKeepsInv
<1>2. ASSUME created, Len(savepoints) < MaxSavepoints,
             savepoints' = Append(savepoints, head_index % U32),
             Succeed(NoValue), UNCHANGED <<fields, mapped, committed, blocks>>
      PROVE  IInv'
  <2>0. PICK h \in Nat, n \in Nat, k \in Nat :
           h = head_index /\ n = Len(blocks) /\ k = Len(savepoints)
    BY ArenaTypes DEF IInv
  <2>1. h < U32 /\ h % U32 = h
    BY <1>2, <2>0, HeadInU32
  <2>2. /\ savepoints' \in Seq(0 .. U32 - 1) /\ Len(savepoints') = k + 1
        /\ DOMAIN savepoints' = 1 .. k + 1 /\ DOMAIN savepoints = 1 .. k
        /\ \A i \in 1 .. k : savepoints'[i] = savepoints[i]
        /\ savepoints'[k + 1] = h
    <3>1. savepoints \in Seq(0 .. U32 - 1) /\ h \in 0 .. U32 - 1
      BY <2>0, <2>1, PageSizes DEF IInv, TypeOK
    <3>2. /\ savepoints' \in Seq(0 .. U32 - 1) /\ Len(savepoints') = k + 1
          /\ \A i \in 1 .. k : savepoints'[i] = savepoints[i]
          /\ savepoints'[k + 1] = h
      BY <1>2, <2>0, <2>1, <3>1, AppendProperties
    <3> QED
      BY <2>0, <3>1, <3>2, LenProperties
  <2>3. k < MaxSavepoints /\ MaxSavepoints \in Nat
    BY <1>2, <2>0, ConstantsAssumption DEF ConstantsAssumption
  <2>4. k + 1 <= MaxSavepoints
    BY <2>3
  <2>5. TypeOK'
    BY <1>2, <2>2, <2>4, PageSizes DEF IInv, TypeOK, Succeed, NoValue, fields
  <2>6. DataWithinMapping' /\ NothingWithoutArena' /\ BlocksStacked'
    BY <1>2 DEF IInv, DataWithinMapping, NothingWithoutArena, BlocksStacked, Top, fields,
                total_reservation_size
  <2>7. \A m \in 0 .. n : Top(m)' = Top(m)
    BY <1>2 DEF Top, fields
  <2>8. Marks(h, n)'
    <3>1. h = Top(n)
      BY <2>0 DEF IInv, BlocksStacked
    <3>2. \A i \in DOMAIN blocks : blocks[i].start < h /\ i <= n
      <4> TAKE i \in DOMAIN blocks
      <4>1. i \in 0 .. n /\ i > 0 /\ blocks[i].start \in Nat
        BY <2>0, ArenaTypes DEF IInv
      <4>2. blocks[i].start < Top(i) /\ Top(i) <= h /\ Top(i) \in Nat
        BY <2>0, <4>1, Tops DEF IInv, BlocksStacked
      <4> QED
        BY <4>1, <4>2
    <3> QED
      BY <1>2, <2>7, <3>1, <3>2 DEF Marks
  <2>8a. PICK sp : sp = savepoints'
    OBVIOUS
  <2>9. \A i \in 1 .. k + 1 : \E m \in 0 .. n : Marks(sp[i], m)'
    <3>1. ASSUME NEW i \in 1 .. k
          PROVE  \E m \in 0 .. n : Marks(sp[i], m)'
      <4>1. PICK m \in 0 .. n : Marks(savepoints[i], m)
        BY <2>0, <2>2 DEF IInv, SavepointsMark
      <4>2. Marks(sp[i], m)'
        BY <1>2, <2>2, <2>7, <2>8a, <4>1 DEF Marks, fields
      <4> QED
        BY <4>2
    <3>2. n \in 0 .. n /\ Marks(sp[k + 1], n)'
      BY <2>2, <2>8, <2>8a
    <3> QED
      BY <3>1, <3>2
  <2>10. \A i, j \in 1 .. k + 1 : i <= j => sp[i] <= sp[j]
    <3>1. \A i \in 1 .. k : savepoints[i] <= h
      <4> TAKE i \in 1 .. k
      <4>1. PICK m \in 0 .. n : Marks(savepoints[i], m)
        BY <2>0, <2>2 DEF IInv, SavepointsMark
      <4>2. Top(m) <= h
        <5>1. m > 0 => Top(m) <= h
          BY <2>0, ArenaTypes DEF IInv, BlocksStacked
        <5> QED
          BY <5>1 DEF Top
      <4> QED
        BY <4>1, <4>2 DEF Marks
    <3>2. \A i, j \in 1 .. k : i <= j => savepoints[i] <= savepoints[j]
      BY <2>2 DEF IInv, SavepointsMark
    <3>3. \A i \in 1 .. k : sp[i] = savepoints[i] /\ sp[i] <= h
      BY <2>2, <2>8a, <3>1
    <3>4. sp[k + 1] = h
      BY <2>2, <2>8a
    <3> TAKE i, j \in 1 .. k + 1
    <3>5. CASE i \in 1 .. k /\ j \in 1 .. k
      BY <3>2, <3>3, <3>5
    <3>6. CASE i \in 1 .. k /\ j = k + 1
      BY <3>3, <3>4, <3>6
    <3>7. CASE i = k + 1
      <4>1. i <= j => j = k + 1
        BY <3>7
      <4> QED
        BY <3>4, <3>7, <4>1
    <3> QED
      BY <3>5, <3>6, <3>7
  <2>11. SavepointsMark'
    BY <1>2, <2>0, <2>2, <2>8a, <2>9, <2>10 DEF SavepointsMark, Marks
  <2> QED
    BY <2>5, <2>6, <2>11 DEF IInv
<1> QED
  BY <1>1, <1>2 DEF SetSavepoint

\* The blocks below an offset that marks n blocks are the first n.
LEMMA BlocksBelowMark ==
    ASSUME TypeOK, NEW index, NEW n \in 0 .. Len(blocks), Marks(index, n)
    PROVE  /\ Cardinality({i \in DOMAIN blocks : blocks[i].start < index}) = n
           /\ BlocksBelow(index) = SubSeq(blocks, 1, n)
<1>1. {i \in DOMAIN blocks : blocks[i].start < index} = 1 .. n
  BY ArenaTypes DEF Marks
<1>2. n \in Nat
  BY ArenaTypes
<1>3. Cardinality(1 .. n) = n
  BY <1>2, FS_Interval
<1> QED
  BY <1>1, <1>3 DEF BlocksBelow

LEMMA FirstElements ==
    ASSUME NEW S, NEW s \in Seq(S), NEW n \in 0 .. Len(s)
    PROVE  /\ SubSeq(s, 1, n) \in Seq(S)
           /\ Len(SubSeq(s, 1, n)) = n /\ DOMAIN SubSeq(s, 1, n) = 1 .. n
           /\ \A i \in 1 .. n : SubSeq(s, 1, n)[i] = s[i]
<1>1. Len(s) \in Nat /\ n \in Int
  BY LenProperties
<1>2. \A i \in 1 .. n : s[i] \in S
  BY <1>1, ElementOfSeq
<1>3. /\ SubSeq(s, 1, n) \in Seq(S)
      /\ Len(SubSeq(s, 1, n)) = IF 1 <= n THEN n - 1 + 1 ELSE 0
      /\ \A i \in 1 .. n - 1 + 1 : SubSeq(s, 1, n)[i] = s[1 + i - 1]
  BY <1>1, <1>2, SubSeqProperties
<1>4. Len(SubSeq(s, 1, n)) = n
  BY <1>1, <1>3
<1>5. DOMAIN SubSeq(s, 1, n) = 1 .. n
  BY <1>3, <1>4, LenProperties
<1> QED
  BY <1>1, <1>3, <1>4, <1>5

\* A savepoint set before another marks no more blocks.
LEMMA LaterMarksMore ==
    ASSUME IInv, NEW k \in DOMAIN savepoints, NEW i \in DOMAIN savepoints, i <= k,
           NEW n \in 0 .. Len(blocks), NEW m \in 0 .. Len(blocks),
           Marks(savepoints[k], n), Marks(savepoints[i], m)
    PROVE  m <= n
<1> SUFFICES ASSUME m > n PROVE FALSE
  BY ArenaTypes DEF IInv
<1>1. m \in DOMAIN blocks /\ m \in Nat /\ n \in Nat
  BY ArenaTypes DEF IInv
<1>2. blocks[m].start < savepoints[i] /\ ~(blocks[m].start < savepoints[k])
  BY <1>1 DEF Marks
<1>3. savepoints[i] <= savepoints[k]
  BY DEF IInv, SavepointsMark
<1>4. savepoints[i] \in Nat /\ savepoints[k] \in Nat /\ blocks[m].start \in Nat
  BY <1>1, ArenaTypes DEF IInv
<1> QED
  BY <1>2, <1>3, <1>4

LEMMA RestoreKeepsInv ==
    ASSUME IInv, ArgumentsFit, NEW null \in BOOLEAN, NEW k \in DOMAIN savepoints,
           RestoreSavepoint(null, k)
    PROVE  IInv'
<1>1. CASE Refuse("invalid_parameter")
  BY <1>1, RefuseKeepsInv
<1>2. ASSUME created, head_index' = savepoints[k], savepoints' = SubSeq(savepoints, 1, k),
             blocks' = BlocksBelow(savepoints[k]), Succeed(NoValue),
             UNCHANGED <<curr_data_size, alignment, data_reservation_size, mapped, committed>>
      PROVE  IInv'
  <2> DEFINE Block == [start : 0 .. MaxAddress, size : SizeArgs \ {0}]
  <2>1. PICK n \in 0 .. Len(blocks), h \in Nat : Marks(h, n) /\ h = savepoints[k]
    BY ArenaTypes DEF IInv, SavepointsMark
  <2>2. n \in Nat /\ k \in Nat /\ k \in 1 .. Len(savepoints) /\ Len(savepoints) \in Nat
    BY ArenaTypes DEF IInv
  <2>3. blocks \in Seq(Block) /\ savepoints \in Seq(0 .. U32 - 1)
    BY DEF IInv, TypeOK
  <2> HIDE DEF Block
  <2>4. /\ blocks' \in Seq(Block) /\ Len(blocks') = n /\ DOMAIN blocks' = 1 .. n
        /\ \A i \in 1 .. n : blocks'[i] = blocks[i]
    <3>1. blocks' = SubSeq(blocks, 1, n)
      BY <1>2, <2>1, BlocksBelowMark DEF IInv
    <3>2. /\ SubSeq(blocks, 1, n) \in Seq(Block) /\ Len(SubSeq(blocks, 1, n)) = n
          /\ DOMAIN SubSeq(blocks, 1, n) = 1 .. n
          /\ \A i \in 1 .. n : SubSeq(blocks, 1, n)[i] = blocks[i]
      BY <2>1, <2>3, FirstElements
    <3> QED
      BY <3>1, <3>2
  <2>5. /\ savepoints' \in Seq(0 .. U32 - 1)
        /\ Len(savepoints') = k /\ DOMAIN savepoints' = 1 .. k
        /\ \A i \in 1 .. k : savepoints'[i] = savepoints[i]
    <3>1. k \in 0 .. Len(savepoints)
      BY <2>2
    <3>2. /\ SubSeq(savepoints, 1, k) \in Seq(0 .. U32 - 1)
          /\ Len(SubSeq(savepoints, 1, k)) = k
          /\ DOMAIN SubSeq(savepoints, 1, k) = 1 .. k
          /\ \A i \in 1 .. k : SubSeq(savepoints, 1, k)[i] = savepoints[i]
      BY <2>3, <3>1, FirstElements
    <3> QED
      BY <1>2, <3>2
  <2>6. h <= head_index /\ h = Top(n)
    <3>1. h = Top(n)
      BY <2>1 DEF Marks
    <3>2. CASE n = 0
      BY <3>1, <3>2, ArenaTypes DEF IInv, Top
    <3>3. CASE n > 0
      <4>1. n \in DOMAIN blocks
        BY <2>1, <2>2, <3>3, ArenaTypes DEF IInv
      <4> QED
        BY <3>1, <4>1 DEF IInv, BlocksStacked
    <3> QED
      BY <2>2, <3>1, <3>2, <3>3
  <2>7. TypeOK'
    <3>1. Len(savepoints') <= MaxSavepoints
      BY <2>2, <2>5, ConstantsAssumption DEF IInv, TypeOK, ConstantsAssumption
    <3>2. head_index' \in 0 .. MaxAddress
      <4>1. head_index \in 0 .. MaxAddress
        BY DEF IInv, TypeOK
      <4> QED
        BY <1>2, <2>1, <2>6, <4>1, PageSizes
    <3> QED
      BY <1>2, <2>4, <2>5, <3>1, <3>2, PageSizes DEF IInv, TypeOK, Block, Succeed, NoValue
  <2>8. DataWithinMapping' /\ NothingWithoutArena'
    <3>1. head_index <= curr_data_size /\ curr_data_size \in Nat /\ head_index \in Nat
      BY <1>2, ArenaTypes DEF IInv, DataWithinMapping
    <3>2. h <= curr_data_size
      BY <2>6, <3>1
    <3> QED
      BY <1>2, <2>1, <3>2 DEF IInv, DataWithinMapping, NothingWithoutArena, total_reservation_size
  <2>9. \A m \in 0 .. n : Top(m)' = Top(m)
    BY <1>2, <2>2, <2>4 DEF Top
  <2>10. DOMAIN blocks = 1 .. Len(blocks) /\ \A i \in 1 .. n : i \in DOMAIN blocks
    BY <2>1, ArenaTypes DEF IInv
  <2>11. BlocksStacked'
    <3>1. \A i \in 1 .. n : blocks[i].start % alignment = 0
      BY <2>10 DEF IInv, BlocksStacked
    <3>2. \A i, j \in 1 .. n : i < j => Top(i) <= blocks[j].start
      BY <2>10 DEF IInv, BlocksStacked
    <3>3. \A i \in 1 .. n : Top(i) <= h
      <4> TAKE i \in 1 .. n
      <4>1. CASE i = n
        BY <2>6, <4>1, Tops DEF IInv
      <4>2. CASE i < n
        <5>1. Top(i) <= blocks[n].start
          BY <2>2, <3>2, <4>2
        <5>2. i \in 0 .. Len(blocks) /\ n \in 0 .. Len(blocks) /\ n > 0 /\ n \in DOMAIN blocks
          BY <2>1, <2>2, <2>10, <4>2, ArenaTypes DEF IInv
        <5>3. /\ blocks[n].start < Top(n) /\ Top(n) \in Nat /\ Top(i) \in Nat
              /\ blocks[n].start \in Nat
          BY <5>2, Tops, ArenaTypes DEF IInv
        <5> QED
          BY <2>6, <5>1, <5>3
      <4> QED
        BY <2>2, <4>1, <4>2
    <3> QED
      BY <1>2, <2>1, <2>4, <2>6, <2>9, <3>1, <3>2, <3>3 DEF BlocksStacked
  <2>12. ASSUME NEW i \in 1 .. k
         PROVE  \E m \in 0 .. n : Marks(savepoints[i], m)
                                  /\ \A j \in 1 .. n : blocks[j].start < savepoints[i] <=> j <= m
    <3>1. i \in DOMAIN savepoints /\ i <= k
      BY <2>2, ArenaTypes DEF IInv
    <3>2. PICK m \in 0 .. Len(blocks) : Marks(savepoints[i], m)
      BY <3>1 DEF IInv, SavepointsMark
    <3>3. m <= n
      BY <2>1, <3>1, <3>2, LaterMarksMore
    <3>4. m \in 0 .. n
      BY <2>2, <3>2, <3>3
    <3>5. \A j \in 1 .. n : blocks[j].start < savepoints[i] <=> j <= m
      BY <2>10, <3>2 DEF Marks
    <3> QED
      BY <3>2, <3>4, <3>5
  <2>13. SavepointsMark'
    <3>1. PICK sp : sp = savepoints'
      OBVIOUS
    <3>2. ASSUME NEW i \in 1 .. k
          PROVE  \E m \in 0 .. n : Marks(sp[i], m)'
      <4>1. PICK m \in 0 .. n : Marks(savepoints[i], m)
                               /\ \A j \in 1 .. n : blocks[j].start < savepoints[i] <=> j <= m
        BY <2>12
      <4>2. sp[i] = savepoints[i]
        BY <2>5, <3>1
      <4>3. sp[i] = Top(m)'
        BY <2>9, <4>1, <4>2 DEF Marks
      <4>4. Marks(sp[i], m)'
        BY <2>4, <4>1, <4>2, <4>3 DEF Marks
      <4> QED
        BY <4>4
    <3>3. \A i, j \in 1 .. k : i <= j => savepoints[i] <= savepoints[j]
      <4>1. \A i \in 1 .. k : i \in DOMAIN savepoints
        BY <2>2, ArenaTypes DEF IInv
      <4> QED
        BY <4>1 DEF IInv, SavepointsMark
    <3> QED
      BY <2>4, <2>5, <3>1, <3>2, <3>3 DEF SavepointsMark, Marks
  <2> QED
    BY <2>7, <2>8, <2>11, <2>13 DEF IInv
<1> QED
  BY <1>1, <1>2 DEF RestoreSavepoint
-----------------------------------------------------------------------------
\* The invariant holds of the specification.

LEMMA InitInv ==
    ASSUME Init
    PROVE  IInv
<1>1. TypeOK
  BY PageSizes, ConstantsAssumption
     DEF Init, TypeOK, NoValue, ConstantsAssumption, ValidAlignment, PowersOfTwo, MaxAlign
<1>2. DataWithinMapping /\ NothingWithoutArena
  BY DEF Init, DataWithinMapping, NothingWithoutArena
<1>3. BlocksStacked /\ SavepointsMark
  BY DEF Init, BlocksStacked, SavepointsMark, Top
<1> QED
  BY <1>1, <1>2, <1>3 DEF IInv

LEMMA NextKeepsInv ==
    ASSUME IInv, ArgumentsFit, [Next]_vars
    PROVE  IInv'
<1>1. ASSUME NEW null \in BOOLEAN, NEW r \in ReservationArgs, NEW c \in CapacityArgs,
             NEW a \in AlignmentArgs, Create(null, r, c, a)
      PROVE  IInv'
  <2>1. CASE \E error \in {"invalid_parameter", "invalid_alignment", "err"} : Refuse(error)
    BY <2>1, RefuseKeepsInv
  <2>2. CASE c # 0 /\ ValidAlignment(a) /\ CreateArena(r, c, a)
    BY <1>1, <2>2, CreateKeepsInv DEF Create
  <2> QED
    BY <1>1, <2>1, <2>2 DEF Create
<1>2. ASSUME NEW null \in BOOLEAN, Destroy(null)
      PROVE  IInv'
  BY <1>2, RefuseKeepsInv, NoArenaKeepsInv DEF Destroy, Succeed
<1>3. ASSUME NEW null \in BOOLEAN, NEW size \in SizeArgs, Alloc(null, size)
      PROVE  IInv'
  BY <1>3, AllocKeepsInv
<1>4. ASSUME NEW null \in BOOLEAN, SetSavepoint(null)
      PROVE  IInv'
  BY <1>4, SetSavepointKeepsInv
<1>5. ASSUME NEW null \in BOOLEAN, NEW k \in DOMAIN savepoints, RestoreSavepoint(null, k)
      PROVE  IInv'
  BY <1>5, RestoreKeepsInv
<1>6. ASSUME NEW null \in BOOLEAN, Reset(null)
      PROVE  IInv'
  <2>1. CASE Refuse("invalid_parameter")
    BY <2>1, RefuseKeepsInv
  <2>2. ASSUME created, head_index' = 0, savepoints' = <<>>, blocks' = <<>>, Succeed(NoValue),
               UNCHANGED <<curr_data_size, alignment, data_reservation_size, mapped, committed>>
        PROVE  IInv'
    <3>1. TypeOK'
      BY <2>2, PageSizes, ConstantsAssumption
         DEF IInv, TypeOK, Succeed, NoValue, ConstantsAssumption
    <3>2. DataWithinMapping' /\ NothingWithoutArena'
      BY <2>2, ArenaTypes
         DEF IInv, DataWithinMapping, NothingWithoutArena, total_reservation_size
    <3> QED
      BY <2>2, <3>1, <3>2, EmptyArena DEF IInv
  <2> QED
    BY <1>6, <2>1, <2>2 DEF Reset
<1>7. ASSUME NEW null \in BOOLEAN, BytesFree(null)
      PROVE  IInv'
  <2>1. CASE Refuse("invalid_parameter")
    BY <2>1, RefuseKeepsInv
  <2>2. ASSUME created, Succeed(bytes_free),
               UNCHANGED <<fields, mapped, committed, savepoints, blocks>>
        PROVE  IInv'
    <3>1. bytes_free \in -1 .. MaxAddress
      <4>1. head_index <= curr_data_size /\ head_index \in Nat /\ curr_data_size \in 0 .. MaxAddress
        BY <2>2, ArenaTypes DEF IInv, DataWithinMapping, TypeOK
      <4> QED
        BY <4>1, PageSizes DEF bytes_free
    <3> QED
      BY <2>2, <3>1, SameArena DEF Succeed
  <2> QED
    BY <1>7, <2>1, <2>2 DEF BytesFree
<1>8. CASE UNCHANGED vars
  <2>1. out \in -1 .. MaxAddress
        /\ result \in {"none", "ok", "invalid_parameter", "invalid_alignment", "no_memory", "err"}
    BY DEF IInv, TypeOK
  <2> QED
    BY <1>8, <2>1, SameArena DEF vars
<1> QED
  BY <1>1, <1>2, <1>3, <1>4, <1>5, <1>6, <1>7, <1>8 DEF Next

LEMMA InvariantHolds ==
    ASSUME ArgumentsFit
    PROVE  Spec => []IInv
<1>1. Init => IInv
  BY InitInv
<1>2. IInv /\ [Next]_vars => IInv'
  BY NextKeepsInv
<1> QED
  BY <1>1, <1>2, PTL DEF Spec

\* Every field, savepoint, block and value returned stays in its range (the types of
\* struct linear_allocator and of the API): no address computed exceeds MaxAddress.
THEOREM LinearTypeCorrect ==
    ASSUME ArgumentsFit
    PROVE  Spec => []TypeOK
<1>1. IInv => TypeOK
  BY DEF IInv
<1> QED
  BY <1>1, InvariantHolds, PTL

\* The head never passes the data, although an allocation is checked with its size
\* and taken with its size rounded up (linear_allocator.c:111, 133).
THEOREM LinearHeadWithinData ==
    ASSUME ArgumentsFit
    PROVE  Spec => []HeadWithinData
<1>1. IInv => HeadWithinData
  BY DEF IInv, DataWithinMapping, HeadWithinData
<1> QED
  BY <1>1, InvariantHolds, PTL

\* When growing does not fail, every block the client holds is accessible.
THEOREM LinearLiveCommitted ==
    ASSUME ArgumentsFit, ~GrowthMayFail
    PROVE  Spec => []LiveCommitted
<1>1. ASSUME IInv, NEW i \in DOMAIN blocks
      PROVE  HeaderSize + End(blocks[i]) <= committed
  <2>1. created
    BY <1>1 DEF IInv, NothingWithoutArena
  <2>2. /\ DOMAIN blocks = 1 .. Len(blocks) /\ Len(blocks) \in Nat
        /\ End(blocks[i]) \in Nat /\ committed \in Nat /\ head_index \in Nat
        /\ curr_data_size \in Nat
    BY <1>1, ArenaTypes DEF IInv
  <2>3. i \in 0 .. Len(blocks) /\ i > 0
    BY <2>2
  <2>4. End(blocks[i]) <= Top(i) /\ Top(i) \in Nat
    BY <1>1, <2>3, Tops DEF IInv
  <2>5. Top(i) <= head_index
    BY <1>1 DEF IInv, BlocksStacked
  <2>6. head_index <= curr_data_size /\ HeaderSize + curr_data_size <= committed
    BY <1>1, <2>1 DEF IInv, DataWithinMapping
  <2> QED
    BY <2>2, <2>4, <2>5, <2>6, PageSizes
<1>2. IInv => LiveCommitted
  BY <1>1 DEF LiveCommitted
<1> QED
  BY <1>2, InvariantHolds, PTL

\* Growth never makes accessible, nor counts as data, what is not mapped.
THEOREM LinearCommittedWithinMapping ==
    ASSUME ArgumentsFit
    PROVE  Spec => []CommittedWithinMapping
<1>1. IInv => CommittedWithinMapping
  BY DEF IInv, DataWithinMapping, CommittedWithinMapping
<1> QED
  BY <1>1, InvariantHolds, PTL

\* The mapping holds the header and the reservation, and destroy computes in usize
\* the length create computed in u32.
THEOREM LinearReservationHonoured ==
    ASSUME ArgumentsFit
    PROVE  Spec => []ReservationHonoured
<1>1. IInv => ReservationHonoured
  BY Mapping DEF IInv, DataWithinMapping, ReservationHonoured, total_reservation_size
<1> QED
  BY <1>1, InvariantHolds, PTL
-----------------------------------------------------------------------------
\* The arena implements Arena.

\* The abstract savepoints: how many blocks each savepoint marks.
marked == [k \in DOMAIN savepoints |-> Len(BlocksBelow(savepoints[k]))]

\* A savepoint stands for the blocks it marks.
MarksCount ==
    \A index : \A n \in 0 .. Len(blocks) :
        Marks(index, n) => /\ BlocksBelow(index) = SubSeq(blocks, 1, n)
                           /\ Len(BlocksBelow(index)) = n

LEMMA CountBelow == TypeOK => MarksCount
<1> SUFFICES ASSUME TypeOK, NEW index, NEW n \in 0 .. Len(blocks), Marks(index, n)
             PROVE  /\ BlocksBelow(index) = SubSeq(blocks, 1, n)
                    /\ Len(BlocksBelow(index)) = n
  BY DEF MarksCount
<1> DEFINE Block == [start : 0 .. MaxAddress, size : SizeArgs \ {0}]
<1>1. blocks \in Seq(Block)
  BY DEF TypeOK
<1> HIDE DEF Block
<1>2. Len(SubSeq(blocks, 1, n)) = n
  BY <1>1, FirstElements
<1>3. BlocksBelow(index) = SubSeq(blocks, 1, n)
  BY BlocksBelowMark
<1> QED
  BY <1>2, <1>3

\* Each savepoint marks as many blocks as the abstract one says.
SavepointsCount ==
    /\ marked \in Seq(Nat) /\ Len(marked) = Len(savepoints)
    /\ DOMAIN marked = 1 .. Len(savepoints) /\ Len(savepoints) \in Nat
    /\ \A k \in 1 .. Len(savepoints) :
          /\ marked[k] \in 0 .. Len(blocks) /\ Marks(savepoints[k], marked[k])
          /\ BlocksBelow(savepoints[k]) = SubSeq(blocks, 1, marked[k])

LEMMA MarkedIsCount == IInv => SavepointsCount
<1> SUFFICES ASSUME IInv PROVE SavepointsCount
  OBVIOUS
<1>1. /\ DOMAIN savepoints = 1 .. Len(savepoints) /\ Len(savepoints) \in Nat
      /\ Len(blocks) \in Nat
  BY ArenaTypes DEF IInv
<1>2. DOMAIN marked = 1 .. Len(savepoints)
  BY <1>1 DEF marked
<1>3. ASSUME NEW k \in 1 .. Len(savepoints)
      PROVE  /\ marked[k] \in 0 .. Len(blocks) /\ Marks(savepoints[k], marked[k])
             /\ BlocksBelow(savepoints[k]) = SubSeq(blocks, 1, marked[k])
  <2>1. PICK n \in 0 .. Len(blocks) : Marks(savepoints[k], n)
    BY <1>1 DEF IInv, SavepointsMark
  <2>2. BlocksBelow(savepoints[k]) = SubSeq(blocks, 1, n) /\ Len(BlocksBelow(savepoints[k])) = n
    BY <2>1, CountBelow DEF IInv, MarksCount
  <2>3. marked[k] = n
    BY <1>1, <2>2 DEF marked
  <2> QED
    BY <2>1, <2>2, <2>3
<1>4. \A k \in 1 .. Len(savepoints) : marked[k] \in Nat
  BY <1>1, <1>3
<1>5. marked = [k \in 1 .. Len(savepoints) |-> marked[k]]
  BY <1>1 DEF marked
<1>6. marked \in Seq(Nat) /\ Len(marked) = Len(savepoints)
  BY <1>1, <1>2, <1>4, <1>5
<1> QED
  BY <1>1, <1>2, <1>3, <1>6 DEF SavepointsCount

\* How many blocks a savepoint marks is determined by the savepoint.
LEMMA MarkDetermines ==
    TypeOK => \A index : \A m, n \in 0 .. Len(blocks) :
                  Marks(index, m) /\ Marks(index, n) => m = n
  BY CountBelow DEF MarksCount

\* The abstract arena without savepoints.
LEMMA NothingMarked ==
    savepoints = <<>> => marked = <<>>
<1> SUFFICES ASSUME savepoints = <<>> PROVE marked = <<>>
  OBVIOUS
<1>1. marked = [k \in {} |-> 0]
  BY DEF marked
<1>2. <<>> = [k \in {} |-> 0]
  OBVIOUS
<1> QED
  BY <1>1, <1>2

LEMMA UsedIsHead ==
    ASSUME IInv
    PROVE  Abstract!Used = head_index
<1>1. blocks = <<>> <=> Len(blocks) = 0
  <2> DEFINE Block == [start : 0 .. MaxAddress, size : SizeArgs \ {0}]
  <2>1. blocks \in Seq(Block)
    BY DEF IInv, TypeOK
  <2> HIDE DEF Block
  <2>2. Len(<<>>) = 0 /\ (blocks # <<>> => Len(blocks) \in Nat \ {0})
    BY <2>1, EmptySeq
  <2> QED
    BY <2>2
<1> QED
  BY <1>1 DEF IInv, BlocksStacked, Top, Abstract!Used, Abstract!End, End,
              Abstract!AlignUp, AlignUp

LEMMA RefuseRefines ==
    ASSUME NEW error \in {"invalid_parameter", "invalid_alignment", "no_memory", "err"},
           Refuse(error),
           error = "no_memory" =>
               \E size \in SizeArgs : Abstract!Used + size > data_reservation_size
    PROVE  Abstract!Next
<1>1. Abstract!Fail(error)
  BY DEF Refuse, fields, Abstract!Fail, BlocksBelow
<1> QED
  BY <1>1 DEF Abstract!Next, Abstract!Errors

LEMMA CreateRefines ==
    ASSUME IInv, ArgumentsFit, ~created,
           NEW r \in ReservationArgs, NEW c \in CapacityArgs, NEW a \in AlignmentArgs,
           c # 0, ValidAlignment(a), CreateArena(r, c, a)
    PROVE  Abstract!Next
<1>1. IInv'
  BY CreateKeepsInv
<1>2. /\ data_reservation_size' = r /\ alignment' = a /\ mapped' = MappingSize(r)
      /\ savepoints' = <<>> /\ blocks' = <<>> /\ result' = "ok"
  BY DEF CreateArena, Succeed
<1>3. data_reservation_size' \in Nat \ {0}
  <2>1. mapped' > 0 /\ r \in Nat
    BY <1>2, Mapping, PageSizes
  <2> QED
    BY <1>1, <1>2, <2>1 DEF IInv, DataWithinMapping
<1>4. data_reservation_size = 0 /\ savepoints = <<>> /\ blocks = <<>>
  BY DEF IInv, NothingWithoutArena
<1>5. UNCHANGED marked
  BY <1>2, <1>4 DEF marked
<1>6. Abstract!Create
  BY <1>2, <1>3, <1>4, <1>5
     DEF Abstract!Create, marked, ValidAlignment, PowersOfTwo,
         Abstract!ValidAlignment, Abstract!PowersOfTwo, MaxAlign, Abstract!MaxAlign
<1> QED
  BY <1>6 DEF Abstract!Next

LEMMA DestroyRefines ==
    ASSUME IInv, created, NoArena, Succeed(NoValue)
    PROVE  Abstract!Next
<1>1. (savepoints = <<>> => marked = <<>>)'
  BY NothingMarked, PTL
<1>2. data_reservation_size > 0
  BY DEF IInv, DataWithinMapping
<1>3. Abstract!Destroy
  BY <1>1, <1>2 DEF NoArena, Succeed, Abstract!Destroy, marked
<1> QED
  BY <1>3 DEF Abstract!Next

LEMMA ResetRefines ==
    ASSUME blocks' = <<>>, savepoints' = <<>>, result' = "ok",
           UNCHANGED <<alignment, data_reservation_size>>
    PROVE  Abstract!Next
<1>1. (savepoints = <<>> => marked = <<>>)'
  BY NothingMarked, PTL
<1>2. Abstract!Reset
  BY <1>1 DEF Abstract!Reset, marked
<1> QED
  BY <1>2 DEF Abstract!Next

\* Marks stay marks when a block is placed at the head.
LEMMA AppendKeepsMarks ==
    ASSUME IInv, UNCHANGED alignment, NEW n \in Nat, n = Len(blocks),
           DOMAIN blocks' = 1 .. n + 1, \A i \in 1 .. n : blocks'[i] = blocks[i],
           blocks'[n + 1].start = head_index,
           NEW k \in DOMAIN savepoints, NEW index, index = savepoints[k],
           NEW m \in 0 .. n, Marks(index, m)
    PROVE  Marks(index, m)'
<1>1. DOMAIN blocks = 1 .. n /\ head_index \in Nat
  BY ArenaTypes DEF IInv
<1>2. Top(m) = Top(m)'
  BY DEF Top
<1>3. index = Top(m) /\ index \in Nat
  BY ArenaTypes DEF Marks, IInv
<1>4. Top(m) <= head_index
  <2>1. CASE m = 0
    BY <1>1, <2>1 DEF Top
  <2>2. CASE m > 0
    BY <1>1, <2>2 DEF IInv, BlocksStacked
  <2> QED
    BY <2>1, <2>2
<1>5. ~(head_index < index)
  BY <1>1, <1>3, <1>4
<1>6. \A i \in 1 .. n + 1 : blocks'[i].start < index <=> i <= m
  <2>1. \A i \in 1 .. n : blocks[i].start < index <=> i <= m
    BY <1>1 DEF Marks
  <2> QED
    BY <1>5, <2>1
<1> QED
  BY <1>2, <1>3, <1>6 DEF Marks

\* The block an allocation adds is aligned and lies behind every live block.
LEMMA CarveAppends ==
    ASSUME IInv, NEW size \in SizeArgs \ {0}, Carve(size)
    PROVE  /\ Len(blocks') = Len(blocks) + 1 /\ DOMAIN blocks' = 1 .. Len(blocks) + 1
           /\ SubSeq(blocks', 1, Len(blocks)) = blocks
           /\ \A i \in 1 .. Len(blocks) : blocks'[i] = blocks[i]
           /\ blocks'[Len(blocks) + 1] = [start |-> head_index, size |-> size]
           /\ head_index % alignment = 0
           /\ \A i \in DOMAIN blocks : End(blocks[i]) <= head_index
<1> DEFINE Block == [start : 0 .. MaxAddress, size : SizeArgs \ {0}]
<1>1. PICK h, n, b, bs : /\ h \in Nat /\ h = head_index
                         /\ n \in Nat /\ n = Len(blocks)
                         /\ b = [start |-> h, size |-> size] /\ bs = blocks'
  BY ArenaTypes DEF IInv
<1>2. bs = Append(blocks, b)
  BY <1>1 DEF Carve
<1>3. blocks \in Seq(Block) /\ DOMAIN blocks = 1 .. n /\ head_index \in 0 .. MaxAddress
  BY <1>1, ArenaTypes DEF IInv, TypeOK
<1>4. b \in Block
  BY <1>1, <1>3
<1> HIDE DEF Block
<1>5. /\ bs \in Seq(Block) /\ Len(bs) = n + 1 /\ DOMAIN bs = 1 .. n + 1
      /\ \A i \in 1 .. n : bs[i] = blocks[i]
      /\ bs[n + 1] = b
  <2>1. /\ bs \in Seq(Block) /\ Len(bs) = n + 1
        /\ \A i \in 1 .. n : bs[i] = blocks[i]
        /\ bs[n + 1] = b
    BY <1>1, <1>2, <1>3, <1>4, AppendProperties
  <2> QED
    BY <2>1, LenProperties
<1>6. SubSeq(bs, 1, n) = blocks
  <2>1. n \in 0 .. Len(bs)
    BY <1>1, <1>5
  <2>2. /\ SubSeq(bs, 1, n) \in Seq(Block) /\ Len(SubSeq(bs, 1, n)) = n
        /\ \A i \in 1 .. n : SubSeq(bs, 1, n)[i] = bs[i]
    BY <1>5, <2>1, FirstElements
  <2>3. \A i \in 1 .. n : SubSeq(bs, 1, n)[i] = blocks[i]
    BY <1>5, <2>2
  <2> QED
    BY <1>1, <1>3, <2>2, <2>3, SeqEqual
<1>7. ASSUME NEW i \in DOMAIN blocks
      PROVE  End(blocks[i]) <= head_index
  <2>1. i \in 0 .. Len(blocks) /\ i > 0
    BY <1>1, <1>3
  <2>2. End(blocks[i]) <= Top(i) /\ Top(i) \in Nat /\ End(blocks[i]) \in Nat
    BY <2>1, Tops, ArenaTypes DEF IInv
  <2>3. Top(i) <= head_index /\ head_index \in Nat
    BY ArenaTypes DEF IInv, BlocksStacked
  <2> QED
    BY <2>2, <2>3
<1> QED
  BY <1>1, <1>5, <1>6, <1>7, HeadAligned

LEMMA CarveRefines ==
    ASSUME IInv, created, NEW size \in SizeArgs, Carve(size), IInv',
           UNCHANGED <<alignment, data_reservation_size, savepoints>>
    PROVE  Abstract!Next
<1>1. CASE size = 0
  <2>1. blocks' = blocks /\ result' = "ok"
    BY <1>1 DEF Carve, Succeed
  <2>2. Abstract!Observe
    BY <2>1 DEF Abstract!Observe, BlocksBelow
  <2> QED
    BY <2>2 DEF Abstract!Next
<1>2. CASE size # 0
  <2>1. PICK n, b, bs : /\ n \in Nat /\ n = Len(blocks) /\ bs = blocks'
                        /\ b = [start |-> head_index, size |-> size]
    BY ArenaTypes DEF IInv
  <2>2. /\ Len(bs) = n + 1 /\ DOMAIN bs = 1 .. n + 1
        /\ SubSeq(bs, 1, n) = blocks /\ \A i \in 1 .. n : bs[i] = blocks[i]
        /\ bs[n + 1] = b /\ b.start % alignment = 0
        /\ \A i \in DOMAIN blocks : End(blocks[i]) <= b.start
    BY <1>2, <2>1, CarveAppends
  <2>3. \A i \in DOMAIN blocks : ~Abstract!Overlap(blocks[i], b)
    BY <2>1, <2>2, ArenaTypes DEF IInv, Abstract!Overlap, Abstract!End, End
  <2>4. UNCHANGED marked
    <3>1. ASSUME NEW k \in DOMAIN savepoints
          PROVE  marked'[k] = marked[k]
      <4>1. marked[k] \in 0 .. n /\ Marks(savepoints[k], marked[k])
        BY <2>1, MarkedIsCount, ArenaTypes DEF IInv, SavepointsCount
      <4>2. PICK m, index : m \in 0 .. n /\ m = marked[k] /\ index = savepoints[k]
        BY <4>1
      <4>3. Marks(index, m)'
        BY <2>1, <2>2, <4>1, <4>2, AppendKeepsMarks
      <4>4. m \in 0 .. Len(blocks')
        BY <2>1, <2>2, <4>2
      <4>5. (TypeOK => MarksCount)'
        BY CountBelow, PTL
      <4>6. Len(BlocksBelow(index)') = m
        BY <4>3, <4>4, <4>5 DEF IInv, MarksCount
      <4> QED
        BY <4>2, <4>6 DEF marked
    <3> QED
      BY <3>1 DEF marked
  <2>5. Abstract!Alloc
    BY <1>2, <2>1, <2>2, <2>3, <2>4 DEF Abstract!Alloc, Carve, Succeed, marked
  <2> QED
    BY <2>5 DEF Abstract!Next
<1> QED
  BY <1>1, <1>2

\* The head marks all blocks.
LEMMA HeadMarksAll ==
    IInv => Marks(head_index, Len(blocks))
<1> SUFFICES ASSUME IInv PROVE Marks(head_index, Len(blocks))
  OBVIOUS
<1>1. ASSUME NEW i \in DOMAIN blocks
      PROVE  blocks[i].start < head_index /\ i <= Len(blocks)
  <2>1. i \in 0 .. Len(blocks) /\ i > 0 /\ blocks[i].start \in Nat /\ head_index \in Nat
    BY ArenaTypes DEF IInv
  <2>2. blocks[i].start < Top(i) /\ Top(i) <= head_index /\ Top(i) \in Nat
    BY <2>1, Tops DEF IInv, BlocksStacked
  <2> QED
    BY <2>1, <2>2
<1> QED
  BY <1>1 DEF Marks, IInv, BlocksStacked

\* A savepoint set at the head stands for all blocks.
LEMMA SetSavepointRefines ==
    ASSUME IInv, ArgumentsFit, created, IInv',
           savepoints' = Append(savepoints, head_index % U32),
           Succeed(NoValue), UNCHANGED <<fields, mapped, committed, blocks>>
    PROVE  Abstract!Next
<1>1. PICK k, n, sp, mk :
         k \in Nat /\ n \in Nat /\ k = Len(savepoints) /\ n = Len(blocks) /\ sp = savepoints' /\ mk = marked'
  BY ArenaTypes DEF IInv
<1>2. /\ Len(sp) = k + 1 /\ sp[k + 1] = head_index
      /\ \A i \in 1 .. k : sp[i] = savepoints[i]
  <2>1. savepoints \in Seq(0 .. U32 - 1) /\ head_index \in 0 .. U32 - 1
    BY HeadInU32, PageSizes DEF IInv, TypeOK
  <2> QED
    BY <1>1, <2>1, HeadInU32, AppendProperties
<1>3. /\ marked \in Seq(Nat) /\ Len(marked) = k
      /\ \A i \in 1 .. k : marked[i] \in 0 .. n /\ Marks(savepoints[i], marked[i])
  BY <1>1, MarkedIsCount DEF SavepointsCount
<1>4. /\ mk \in Seq(Nat) /\ Len(mk) = k + 1
      /\ \A i \in 1 .. k + 1 : mk[i] \in 0 .. n /\ Marks(sp[i], mk[i])
  <2>1. SavepointsCount'
    BY MarkedIsCount, PTL
  <2>2. \A i \in 1 .. k + 1 : mk[i] \in 0 .. n /\ Marks(sp[i], mk[i])
    BY <1>1, <1>2, <2>1 DEF SavepointsCount, Marks, Top, fields
  <2> QED
    BY <1>1, <1>2, <2>1, <2>2 DEF SavepointsCount
<1>5. \A i \in 1 .. k : mk[i] = marked[i]
  BY <1>1, <1>2, <1>3, <1>4, MarkDetermines DEF IInv
<1>6. mk[k + 1] = n
  <2>1. k + 1 \in 1 .. k + 1 /\ n \in 0 .. n
    BY <1>1
  <2> QED
    BY <1>1, <1>2, <1>4, <2>1, HeadMarksAll, MarkDetermines DEF IInv
<1>7. mk = Append(marked, n)
  <2>1. /\ Append(marked, n) \in Seq(Nat) /\ Len(Append(marked, n)) = k + 1
        /\ \A i \in 1 .. k : Append(marked, n)[i] = marked[i]
        /\ Append(marked, n)[k + 1] = n
    BY <1>1, <1>3, AppendProperties
  <2>2. \A i \in 1 .. k + 1 : Append(marked, n)[i] = mk[i]
    BY <1>1, <1>5, <1>6, <2>1
  <2> QED
    BY <1>4, <2>1, <2>2, SeqEqual
<1>8. Abstract!SetSavepoint
  BY <1>1, <1>7 DEF Abstract!SetSavepoint, Succeed, fields, marked
<1> QED
  BY <1>8 DEF Abstract!Next

\* Blocks that stay keep the marks below them.
LEMMA PrefixKeepsMarks ==
    ASSUME IInv, UNCHANGED alignment, NEW n \in 0 .. Len(blocks),
           DOMAIN blocks' = 1 .. n, \A i \in 1 .. n : blocks'[i] = blocks[i],
           NEW index, NEW m \in 0 .. n, Marks(index, m)
    PROVE  Marks(index, m)'
<1>1. DOMAIN blocks = 1 .. Len(blocks) /\ Len(blocks) \in Nat
  BY ArenaTypes DEF IInv
<1>2. Top(m)' = Top(m)
  BY <1>1 DEF Top
<1>3. \A i \in 1 .. n : blocks'[i].start < index <=> i <= m
  BY <1>1 DEF Marks
<1> QED
  BY <1>2, <1>3 DEF Marks

\* A restore frees exactly the blocks behind the savepoint.
LEMMA RestoreRefines ==
    ASSUME IInv, IInv', NEW k \in DOMAIN savepoints,
           savepoints' = SubSeq(savepoints, 1, k),
           blocks' = BlocksBelow(savepoints[k]), Succeed(NoValue),
           UNCHANGED <<data_reservation_size, alignment>>
    PROVE  Abstract!Next
<1>1. PICK last, bs, sp, mk :
         last \in Nat /\ last = Len(savepoints) /\ bs = blocks' /\ sp = savepoints' /\ mk = marked'
  BY ArenaTypes DEF IInv
<1>2. /\ k \in 1 .. last /\ DOMAIN savepoints = 1 .. last
      /\ savepoints \in Seq(0 .. U32 - 1)
  BY <1>1, ArenaTypes DEF IInv, TypeOK
<1>3. /\ marked \in Seq(Nat) /\ Len(marked) = last /\ DOMAIN marked = 1 .. last
      /\ \A i \in 1 .. last : marked[i] \in 0 .. Len(blocks) /\ Marks(savepoints[i], marked[i])
      /\ bs = SubSeq(blocks, 1, marked[k])
  BY <1>1, <1>2, MarkedIsCount DEF SavepointsCount
<1>4. PICK n \in 0 .. Len(blocks) : n = marked[k]
  BY <1>2, <1>3
<1>5. n \in Nat /\ k \in Nat
  BY <1>2, <1>4, ArenaTypes DEF IInv
<1>6. DOMAIN bs = 1 .. n /\ Len(bs) = n /\ \A i \in 1 .. n : bs[i] = blocks[i]
  <2> DEFINE Block == [start : 0 .. MaxAddress, size : SizeArgs \ {0}]
  <2>1. blocks \in Seq(Block)
    BY DEF IInv, TypeOK
  <2> HIDE DEF Block
  <2>2. /\ Len(SubSeq(blocks, 1, n)) = n /\ DOMAIN SubSeq(blocks, 1, n) = 1 .. n
        /\ \A i \in 1 .. n : SubSeq(blocks, 1, n)[i] = blocks[i]
    BY <2>1, FirstElements
  <2> QED
    BY <1>3, <1>4, <2>2
<1>7. /\ Len(sp) = k /\ DOMAIN sp = 1 .. k
      /\ \A i \in 1 .. k : sp[i] = savepoints[i]
  <2>1. k \in 0 .. Len(savepoints)
    BY <1>1, <1>2
  <2> QED
    BY <1>1, <1>2, <2>1, FirstElements
<1>8. SavepointsCount' /\ MarksCount' /\ TypeOK'
  BY MarkedIsCount, CountBelow, PTL DEF IInv
<1>9. mk \in Seq(Nat) /\ Len(mk) = k
  BY <1>1, <1>7, <1>8 DEF SavepointsCount
<1>10. ASSUME NEW i \in 1 .. k
       PROVE  mk[i] = marked[i]
  <2>1. i \in 1 .. last /\ i <= k
    BY <1>1, <1>2, <1>5
  <2>2. PICK m, index :
           m \in 0 .. Len(blocks) /\ m = marked[i] /\ index = savepoints[i] /\ Marks(index, m)
    BY <1>3, <2>1
  <2>3. m \in 0 .. n
    <3>1. m <= n
      BY <1>2, <1>3, <1>4, <2>1, <2>2, LaterMarksMore
    <3> QED
      BY <1>5, <2>2, <3>1
  <2>4. Marks(index, m)'
    BY <1>1, <1>5, <1>6, <2>2, <2>3, PrefixKeepsMarks
  <2>5. Len(BlocksBelow(index))' = m
    BY <1>1, <1>6, <1>8, <2>3, <2>4 DEF MarksCount
  <2> QED
    BY <1>1, <1>7, <2>2, <2>5 DEF marked
<1>11. mk = SubSeq(marked, 1, k)
  <2>1. k \in 0 .. Len(marked)
    BY <1>2, <1>3
  <2>2. /\ SubSeq(marked, 1, k) \in Seq(Nat) /\ Len(SubSeq(marked, 1, k)) = k
        /\ \A i \in 1 .. k : SubSeq(marked, 1, k)[i] = marked[i]
    BY <1>3, <2>1, FirstElements
  <2>3. \A i \in 1 .. k : SubSeq(marked, 1, k)[i] = mk[i]
    BY <1>10, <2>2
  <2> QED
    BY <1>9, <2>2, <2>3, SeqEqual
<1>12. Abstract!Restore(k)
  BY <1>1, <1>3, <1>11 DEF Abstract!Restore, Succeed, marked
<1> QED
  BY <1>2, <1>3, <1>12 DEF Abstract!Next, marked

LEMMA StepRefines ==
    ASSUME ArgumentsFit, IInv, [Next]_vars
    PROVE  [Abstract!Next]_(Abstract!vars)
<1>1. IInv'
  BY NextKeepsInv
<1>2. ASSUME NEW null \in BOOLEAN, NEW r \in ReservationArgs, NEW c \in CapacityArgs,
             NEW a \in AlignmentArgs, Create(null, r, c, a)
      PROVE  Abstract!Next
  <2>1. CASE \E error \in {"invalid_parameter", "invalid_alignment", "err"} : Refuse(error)
    BY <2>1, RefuseRefines
  <2>2. CASE c # 0 /\ ValidAlignment(a) /\ CreateArena(r, c, a)
    BY <1>2, <2>2, CreateRefines DEF Create
  <2> QED
    BY <1>2, <2>1, <2>2 DEF Create
<1>3. ASSUME NEW null \in BOOLEAN, Destroy(null)
      PROVE  Abstract!Next
  BY <1>3, RefuseRefines, DestroyRefines DEF Destroy
<1>4. ASSUME NEW null \in BOOLEAN, NEW size \in SizeArgs, Alloc(null, size)
      PROVE  Abstract!Next
  <2>1. CASE Refuse("invalid_parameter")
    BY <2>1, RefuseRefines
  <2>2. CASE data_reservation_size < head_index + size /\ Refuse("no_memory")
    <3>1. Abstract!Used + size > data_reservation_size
      <4>1. size \in Nat
        BY ConstantsAssumption DEF ConstantsAssumption
      <4> QED
        BY <2>2, <4>1, UsedIsHead, ArenaTypes DEF IInv
    <3> QED
      BY <2>2, <3>1, RefuseRefines
  <2>3. CASE Carve(size) /\ UNCHANGED <<alignment, data_reservation_size, savepoints>>
    BY <1>1, <1>4, <2>3, CarveRefines DEF Alloc
  <2> QED
    BY <1>4, <2>1, <2>2, <2>3 DEF Alloc
<1>5. ASSUME NEW null \in BOOLEAN, SetSavepoint(null)
      PROVE  Abstract!Next
  BY <1>1, <1>5, RefuseRefines, SetSavepointRefines DEF SetSavepoint
<1>6. ASSUME NEW null \in BOOLEAN, NEW k \in DOMAIN savepoints, RestoreSavepoint(null, k)
      PROVE  Abstract!Next
  BY <1>1, <1>6, RefuseRefines, RestoreRefines DEF RestoreSavepoint
<1>7. ASSUME NEW null \in BOOLEAN, Reset(null)
      PROVE  Abstract!Next
  BY <1>7, RefuseRefines, ResetRefines DEF Reset, Succeed
<1>8. ASSUME NEW null \in BOOLEAN, BytesFree(null)
      PROVE  Abstract!Next
  <2>1. CASE Refuse("invalid_parameter")
    BY <2>1, RefuseRefines
  <2>2. CASE Succeed(bytes_free) /\ UNCHANGED <<fields, mapped, committed, savepoints, blocks>>
    <3>1. Abstract!Observe
      BY <2>2 DEF Succeed, fields, Abstract!Observe, BlocksBelow
    <3> QED
      BY <3>1 DEF Abstract!Next
  <2> QED
    BY <1>8, <2>1, <2>2 DEF BytesFree
<1>9. CASE UNCHANGED vars
  BY <1>9 DEF vars, fields, Abstract!vars, BlocksBelow
<1> QED
  BY <1>2, <1>3, <1>4, <1>5, <1>6, <1>7, <1>8, <1>9 DEF Next

\* The linear allocator implements Arena: blocks are aligned and never overlap, a
\* restore frees exactly the blocks allocated after its savepoint, and an allocation
\* fails only when it does not fit behind the live blocks (memory.h:88-109).
THEOREM LinearImplementsArena ==
    ASSUME ArgumentsFit
    PROVE  Spec => ImplementsArena
<1>1. Init => Abstract!Init
  <2>1. Init => marked = <<>>
    BY NothingMarked DEF Init
  <2> QED
    BY <2>1 DEF Init, Abstract!Init, marked
<1>2. IInv /\ [Next]_vars => [Abstract!Next]_(Abstract!vars)
  BY StepRefines
<1> QED
  BY <1>1, <1>2, InvariantHolds, PTL DEF Spec, ImplementsArena, Abstract!Spec
=============================================================================
